----------------------------- MODULE ChunkStore -----------------------------
(***************************************************************************)
(* One two-dimensional dataset of the HDF5 library: how its chunks are     *)
(* written through an extensible array (EA), a fixed array (FA) or a v2    *)
(* B-tree (BT2), or its rows to contiguous storage, how rows are appended, *)
(* how its extent changes, and what the reader puts together again.        *)
(*                                                                         *)
(* A layout has the kind of index, the chunk shape, the first extent, the  *)
(* maximal one, and what the caller does: the operations, the bounds of    *)
(* their number and of that of the sessions, the chunks and the extents.   *)
(* The caller writes no chunk and extends nothing while it appends rows.   *)
(* Coordinates start at 0.                                                 *)
(* Every value that is written is new; 0 is the fill value.  The ledger    *)
(* `led` has what each cell was last given by an operation that succeeded. *)
(* Rows are `astray` once an append that was refused, or the close, may     *)
(* have put other rows or fill values in their place.                      *)
(***************************************************************************)
EXTENDS Integers, Sequences, FiniteSets, SequencesExt

CONSTANT Layouts      \* the layouts, and what the callers do with each

VARIABLES pc, layout, dims, table, buffer, buffered, led, astray, step, session, ok
vars == <<pc, layout, dims, table, buffer, buffered, led, astray, step, session, ok>>

FillValue == 0
Inf == 9                                 \* an unlimited dimension
RowsFrom(n) == n..Inf
Kind == layout.kind
Chunk == layout.chunk
ChunkLen == Chunk[1] * Chunk[2]
CeilDiv(a, b) == (a + b - 1) \div b
Cells(d) == (0..(d[1] - 1)) \X (0..(d[2] - 1))
Grid(d) == <<CeilDiv(d[1], Chunk[1]), CeilDiv(d[2], Chunk[2])>>
\* The chunk a cell is in, and its place in the chunk.
ChunkOf(x) == <<x[1] \div Chunk[1], x[2] \div Chunk[2]>>
InChunk(x) == (x[1] % Chunk[1]) * Chunk[2] + (x[2] % Chunk[2]) + 1
CellsOf(cc) == ((cc[1] * Chunk[1])..(cc[1] * Chunk[1] + Chunk[1] - 1))
               \X ((cc[2] * Chunk[2])..(cc[2] * Chunk[2] + Chunk[2] - 1))
\* new_chunk_buffer.
FreshChunk == [k \in 1..ChunkLen |-> FillValue]
Over(f, g) == [x \in DOMAIN f \cup DOMAIN g |-> IF x \in DOMAIN g THEN g[x] ELSE f[x]]
\* The values of the operation that is the next one.
Value(k) == 100 * (step + 1) + k
Values(n) == [k \in 1..n |-> Value(k)]
Overwrite(buf, offset, data) ==
    [k \in DOMAIN buf |-> IF k - offset \in DOMAIN data THEN data[k - offset] ELSE buf[k]]

-----------------------------------------------------------------------------
\* The reader.

\* The row-major index of a chunk, and back.
Linear(cc, d) == cc[1] * Grid(d)[2] + cc[2]
ChunkCoords(l, d) == <<(l \div Grid(d)[2]) % Grid(d)[1], l % Grid(d)[2]>>

\* read_chunked_v4, extensible array.
ReadEA(x, d) ==
    LET l == Linear(ChunkOf(x), d) IN
    IF <<l>> \in DOMAIN table THEN table[<<l>>][InChunk(x)] ELSE FillValue

\* read_chunked_fixed_array: every element of the array is placed, and the
\* later one wins where two are placed in the same chunk.
Placed(cc, d) == {key \in DOMAIN table : ChunkCoords(key[1], d) = cc}
ReadFA(x, d) ==
    LET here == Placed(ChunkOf(x), d) IN
    IF here = {} THEN FillValue
    ELSE table[CHOOSE k \in here : \A j \in here : j[1] <= k[1]][InChunk(x)]

\* read_chunked_btree_v2.
ReadBT2(x, d) == IF ChunkOf(x) \in DOMAIN table THEN table[ChunkOf(x)][InChunk(x)] ELSE FillValue

ReadContiguous(x, d) == table[<<0>>][x[1] * d[2] + x[2] + 1]

\* read_dataset_raw: of the cells of the extent, "panic" for a division by
\* zero, "empty" when a tree has no records.
ReadResult ==
    IF Kind = "FA" /\ (\E k \in 1..2 : Grid(dims)[k] = 0) /\ DOMAIN table # {} THEN "panic"
    ELSE IF Kind = "BT2" /\ DOMAIN table = {} THEN "empty" ELSE "ok"
ReadCell(x) ==
    CASE Kind = "EA" -> ReadEA(x, dims) [] Kind = "FA" -> ReadFA(x, dims)
      [] Kind = "BT2" -> ReadBT2(x, dims) [] OTHER -> ReadContiguous(x, dims)
Content == [x \in Cells(dims) |-> ReadCell(x)]

\* read_slice_inner: for an extensible array of one-row chunks a row is taken
\* from the chunk with its number.
SliceOfRows(s, c, x) ==
    LET row == <<s[1] + x[1]>> IN
    IF row \in DOMAIN table /\ row[1] < Grid(dims)[1] * Grid(dims)[2] /\ s[2] + c[2] <= Chunk[2]
    THEN table[row][s[2] + x[2] + 1] ELSE FillValue
SliceOfAll(s, c, x) == ReadCell(<<s[1] + x[1], s[2] + x[2]>>)
ReadSlice(s, c) ==
    [x \in Cells(c) |-> IF Kind = "EA" /\ Chunk[1] = 1 THEN SliceOfRows(s, c, x) ELSE SliceOfAll(s, c, x)]

-----------------------------------------------------------------------------
\* The writer.  The outcome of an operation has the new table, the new rows
\* in the buffer and whether it succeeded.

\* write_chunk, for an extensible array.
StoreEA(t, l, data) == Over(t, [k \in {<<l>>} |-> data])
\* write_chunk_fixed_array: the array has as many elements as the first extent.
Elements == CeilDiv(layout.dims[1], Chunk[1]) * CeilDiv(layout.dims[2], Chunk[2])
InGrid(cc) == \A k \in 1..2 : cc[k] < Grid(dims)[k]
CanStoreFA(cc) == InGrid(cc) /\ Linear(cc, dims) < Elements
StoreFA(t, cc, data) == Over(t, [k \in {<<Linear(cc, dims)>>} |-> data])
\* write_chunk_btree_v2.
StoreBT2(t, cc, data) == Over(t, [k \in {cc} |-> data])

Calm == buffered = 0
Call(op) == pc = "open" /\ op \in layout.ops /\ step < layout.steps /\ session = 1 /\ step' = step + 1
Kept == UNCHANGED <<pc, layout, astray, session>>
Reject == ok' = FALSE /\ UNCHANGED <<dims, table, buffer, buffered, led>>
WithinMax(d) == d[1] <= layout.max[1] /\ d[2] <= layout.max[2]
Bigger(a, b) == IF a < b THEN b ELSE a

\* H5Dataset::write_chunk_at: the extent grows to what the chunk covers.  The
\* chunk of an extensible array is written before the growth is checked.
WriteChunkAt(cc) ==
    LET data == Values(ChunkLen)
        grown == <<Bigger(dims[1], (cc[1] + 1) * Chunk[1]), Bigger(dims[2], (cc[2] + 1) * Chunk[2])>>
        store == IF Kind = "BT2" THEN StoreBT2(table, cc, data) ELSE StoreEA(table, Linear(cc, dims), data)
    IN
    /\ Call("write_at") /\ Kind # "contiguous" /\ Calm
    /\ \/ /\ Kind = "FA" /\ CanStoreFA(cc)
          /\ table' = StoreFA(table, cc, data) /\ ok' = TRUE /\ dims' = dims
          /\ led' = Over(led, [x \in CellsOf(cc) |-> data[InChunk(x)]])
          /\ UNCHANGED <<buffer, buffered>>
       \/ Kind = "FA" /\ ~CanStoreFA(cc) /\ Reject
       \/ /\ Kind # "FA" /\ table' = store /\ UNCHANGED <<buffer, buffered>>
          /\ ok' = WithinMax(grown)
          /\ dims' = IF ok' THEN grown ELSE dims
          /\ led' = IF ok' THEN Over(led, [x \in CellsOf(cc) |-> data[InChunk(x)]]) ELSE led
    /\ Kept

\* H5Dataset::write_chunk: by linear index, the extent stays.
WriteChunk(l) ==
    LET data == Values(ChunkLen) IN
    /\ Call("write") /\ Kind \in {"EA", "FA"} /\ Calm
    /\ IF Kind = "FA" /\ (l >= Elements \/ l >= Grid(dims)[1] * Grid(dims)[2]) THEN Reject
       ELSE /\ table' = IF Kind = "EA" THEN StoreEA(table, l, data) ELSE StoreFA(table, ChunkCoords(l, dims), data)
            /\ ok' = TRUE
            /\ led' = IF Grid(dims)[2] = 0 THEN led
                      ELSE LET cc == <<l \div Grid(dims)[2], l % Grid(dims)[2]>> IN
                           Over(led, [x \in CellsOf(cc) |-> data[InChunk(x)]])
            /\ UNCHANGED <<dims, buffer, buffered>>
    /\ Kept

\* The loop of append: rows fill the chunk they fall into, whole chunks are
\* written, a chunk that has rows is read and written again, and what does not
\* fill a chunk stays in the buffer.
RECURSIVE AppendRows(_, _, _)
\* Mutant of FilledChunk: the rest of the chunk is not read first.
FilledChunkFresh(t, base, piece) == Overwrite(FreshChunk, (base % Chunk[1]) * dims[2], piece)
FilledChunk(t, base, piece) == Overwrite(t[<<base \div Chunk[1]>>], (base % Chunk[1]) * dims[2], piece)
Outcome(t, buf, fine) == [table |-> t, buffer |-> buf, ok |-> fine]
AppendRows(t, base, rest) ==
    LET toFill == Chunk[1] - (base % Chunk[1])
        piece == SubSeq(rest, 1, toFill * dims[2])
        more == SubSeq(rest, toFill * dims[2] + 1, Len(rest)) IN
    IF rest = <<>> THEN Outcome(t, <<>>, TRUE)
    ELSE IF Len(rest) < toFill * dims[2] THEN Outcome(t, rest, TRUE)
    ELSE IF Kind # "EA" THEN Outcome(t, <<>>, FALSE)
    ELSE IF toFill = Chunk[1]
    THEN IF Len(piece) # ChunkLen THEN Outcome(t, <<>>, FALSE)
         ELSE AppendRows(StoreEA(t, base \div Chunk[1], piece), base + toFill, more)
    ELSE IF <<base \div Chunk[1]>> \notin DOMAIN t THEN Outcome(t, <<>>, FALSE)
    ELSE AppendRows(StoreEA(t, base \div Chunk[1], FilledChunk(t, base, piece)), base + toFill, more)

\* H5Dataset::append and, in a file that was opened again, append_vlen_strings.
\* Only at its end extend_dataset finds that the rows are too many: then the
\* chunks are written and the buffer is left with rows the extent excludes.
AppendCall(rows) ==
    LET base == dims[1] - buffered
        r == AppendRows(table, base, buffer \o Values(rows * dims[2]))
        end == <<dims[1] + rows, dims[2]>> IN
    /\ pc = "open" /\ "append" \in layout.ops /\ step < layout.steps /\ step' = step + 1
    /\ Kind # "contiguous" /\ dims[2] > 0
    /\ table' = r.table /\ buffer' = r.buffer /\ buffered' = Len(r.buffer) \div dims[2]
    /\ ok' = (r.ok /\ WithinMax(end))
    /\ dims' = IF ok' THEN end ELSE dims
    /\ led' = IF ~ok' THEN led
              ELSE Over(led, [x \in (dims[1]..(dims[1] + rows - 1)) \X (0..(dims[2] - 1)) |->
                                 Value((x[1] - dims[1]) * dims[2] + x[2] + 1)])
    /\ astray' = IF ok' THEN astray
                 ELSE astray \cup RowsFrom(dims[1] - Bigger(buffered, buffered'))
    /\ UNCHANGED <<pc, layout, session>>

\* extend_dataset never shrinks; set_dataset_extent does not run while rows
\* are buffered.
Extend(d) ==
    /\ Call("extend") /\ Kind # "contiguous" /\ Calm
    /\ IF d[1] < dims[1] \/ d[2] < dims[2] \/ ~WithinMax(d) THEN Reject
       ELSE dims' = d /\ ok' = TRUE /\ UNCHANGED <<table, buffer, buffered, led>>
    /\ Kept
SetExtent(d) ==
    /\ Call("set_extent") /\ Kind # "contiguous"
    /\ IF buffered > 0 \/ ~WithinMax(d) THEN Reject
       ELSE dims' = d /\ ok' = TRUE /\ UNCHANGED <<table, buffer, buffered, led>>
    /\ Kept

\* write_slice, row by row, and write_dataset_raw.
SliceRow(t, s, c, r, data) ==
    Overwrite(t, (s[1] + r) * dims[2] + s[2], SubSeq(data, r * c[2] + 1, (r + 1) * c[2]))
WriteSlice(s, c) ==
    LET data == Values(c[1] * c[2]) IN
    /\ Call("slice") /\ Kind = "contiguous"
    /\ IF \E k \in 1..2 : s[k] + c[k] > dims[k] THEN Reject
       ELSE /\ table' = [k \in {<<0>>} |->
                            FoldLeft(LAMBDA t, r : SliceRow(t, s, c, r - 1, data), table[<<0>>],
                                     [r \in 1..c[1] |-> r])]
            /\ led' = Over(led, [x \in (s[1]..(s[1] + c[1] - 1)) \X (s[2]..(s[2] + c[2] - 1)) |->
                                    data[(x[1] - s[1]) * c[2] + x[2] - s[2] + 1]])
            /\ ok' = TRUE /\ UNCHANGED <<dims, buffer, buffered>>
    /\ Kept
WriteRaw ==
    LET data == Values(dims[1] * dims[2]) IN
    /\ Call("raw") /\ Kind = "contiguous"
    /\ table' = [k \in {<<0>>} |-> data] /\ ok' = TRUE
    /\ led' = [x \in Cells(dims) |-> data[x[1] * dims[2] + x[2] + 1]]
    /\ UNCHANGED <<dims, buffer, buffered>> /\ Kept

\* flush_append_buffers and the rest of finalize: the buffered rows are put
\* into a chunk of fill values, which replaces the rows before them in their
\* chunk as well; only an extensible array can take it.
FlushBase == dims[1] - buffered
FlushOffset == (FlushBase % Chunk[1]) * dims[2]
RowsBefore(row) == (row - (row % Chunk[1]))..(row - 1)
Close ==
    /\ pc = "open"
    /\ IF buffer = <<>> THEN pc' = "closed" /\ table' = table
       ELSE IF FlushOffset + Len(buffer) > ChunkLen THEN pc' = "panic" /\ table' = table
       ELSE IF Kind # "EA" THEN pc' = "failed" /\ table' = table
       ELSE /\ pc' = "closed"
            /\ table' = StoreEA(table, FlushBase \div Chunk[1],
                                Overwrite(FreshChunk, FlushOffset, buffer))
    /\ astray' = IF buffer = <<>> THEN astray ELSE astray \cup RowsBefore(FlushBase)
    /\ buffer' = <<>> /\ buffered' = 0 /\ ok' = (pc' = "closed")
    /\ UNCHANGED <<layout, dims, led, step, session>>

\* open_append: no handle of an old dataset is given out, only strings can be
\* appended by name, to a dataset of one column.
Reopen ==
    /\ pc = "closed" /\ session < layout.sessions /\ Kind = "EA" /\ layout.max[2] = 1
    /\ pc' = "open" /\ session' = session + 1
    /\ UNCHANGED <<layout, dims, table, buffer, buffered, led, astray, step, ok>>

\* The creation of the dataset by the builder; set_dataset_fill_value fills
\* contiguous storage.
Created(l) ==
    IF l.kind = "contiguous" THEN [k \in {<<0>>} |-> [n \in 1..(l.dims[1] * l.dims[2]) |-> FillValue]]
    ELSE [k \in {} |-> <<>>]
Init ==
    /\ layout \in Layouts /\ dims = layout.dims /\ table = Created(layout)
    /\ pc = "open" /\ buffer = <<>> /\ buffered = 0 /\ led = [x \in {} |-> 0] /\ astray = {}
    /\ step = 0 /\ session = 1 /\ ok = TRUE

Next ==
    \/ \E cc \in layout.coords : WriteChunkAt(cc)
    \/ \E l \in {Linear(cc, dims) : cc \in layout.coords} : WriteChunk(l)
    \/ \E rows \in 1..2 : AppendCall(rows)
    \/ \E d \in layout.sizes : Extend(d) \/ SetExtent(d)
    \/ \E s \in Cells(dims), c \in {<<1, 1>>, <<2, 1>>, <<1, 2>>, <<2, 2>>} : WriteSlice(s, c)
    \/ WriteRaw \/ Close \/ Reopen
    \/ pc # "open" /\ UNCHANGED vars

Spec == Init /\ [][Next]_vars

-----------------------------------------------------------------------------
TypeOK ==
    /\ pc \in {"open", "closed", "failed", "panic"}
    /\ buffered * dims[2] = Len(buffer) /\ buffered <= dims[1] /\ WithinMax(dims)
    /\ astray \subseteq RowsFrom(0)
    /\ \A k \in DOMAIN table : Kind # "contiguous" => Len(table[k]) = ChunkLen

Visible(x) == IF x \in DOMAIN led THEN led[x] ELSE FillValue

ReadsBack(x) == ReadCell(x) = Visible(x)

\* After a close the reader gets for each cell of the extent what it was last
\* given, and the fill value where it was given nothing, but for astray rows.
ReadBack ==
    pc = "closed" /\ ReadResult = "ok" =>
        \A x \in Cells(dims) : x[1] \in astray \/ ReadsBack(x)

(* The rows appended in one session are still there after the next one,    *)
(* which is what crates/rust-hdf5/src/file.rs:125 says of the datasets of  *)
(* a file that is opened again ("Existing datasets are preserved"), and    *)
(* writer.rs:3353 of the flush (only a chunk's "unwritten tail" is padded).*)
AppendsKept ==
    pc = "closed" /\ ReadResult = "ok" => \A x \in Cells(dims) : ReadsBack(x)

\* Each slice is the part of the whole it names.
SliceAgrees ==
    pc = "closed" /\ ReadResult = "ok" =>
        \A s \in Cells(dims), c \in (1..2) \X (1..2) :
            s[1] + c[1] <= dims[1] /\ s[2] + c[2] <= dims[2] =>
                ReadSlice(s, c) = [x \in Cells(c) |-> ReadCell(<<s[1] + x[1], s[2] + x[2]>>)]

\* What was accepted can be closed, unless rows that were refused are buffered.
CloseSucceeds == pc \in {"failed", "panic"} => astray # {}

\* What is refused changes nothing a reader can see, but for astray rows.
RefusedStep ==
    ~ok' /\ pc' = "open" =>
        \A x \in Cells(dims) : x[1] \in astray' \/ Content'[x] = Content[x]

\* A new extent leaves the cells of both extents as they were.
ResizeStep ==
    dims' # dims /\ table' = table =>
        ReadResult' # "panic" /\ \A x \in Cells(dims) \cap Cells(dims') : Content'[x] = Content[x]

-----------------------------------------------------------------------------
\* Small inputs.
Layout(kind, chunk, first, max, coords, sizes, ops, steps, sessions) ==
    [kind |-> kind, chunk |-> chunk, dims |-> first, max |-> max, coords |-> coords,
     sizes |-> sizes, ops |-> ops, steps |-> steps, sessions |-> sessions]
Rows(n, c) == {<<r, c>> : r \in 0..n}
RowOps == {"write_at", "write", "append", "extend", "set_extent"}
MCLayouts == {
    \* Whole rows, in chunks of two, one and three, up to a maximum that an
    \* append may exceed, and lines that a second session appends to.
    Layout("EA", <<2, 2>>, <<0, 2>>, <<4, 2>>, {<<0, 0>>, <<1, 0>>}, Rows(3, 2), RowOps, 5, 1),
    Layout("EA", <<1, 2>>, <<0, 2>>, <<3, 2>>, {<<0, 0>>, <<1, 0>>}, Rows(3, 2), RowOps, 5, 1),
    Layout("EA", <<3, 1>>, <<0, 1>>, <<4, 1>>, {<<0, 0>>}, Rows(3, 1), RowOps, 5, 1),
    Layout("EA", <<1, 1>>, <<0, 1>>, <<Inf, 1>>, {}, {}, {"append"}, 4, 2),
    Layout("EA", <<3, 1>>, <<0, 1>>, <<Inf, 1>>, {}, {}, {"append"}, 4, 2),
    \* Tiles, whose numbers depend on the second dimension, which is fixed.
    Layout("EA", <<2, 2>>, <<0, 3>>, <<4, 3>>, {<<0, 0>>, <<0, 1>>, <<1, 1>>}, Rows(3, 3),
           {"write", "extend", "set_extent"}, 6, 1),
    \* A fixed array and contiguous storage keep their extent.
    Layout("FA", <<2, 2>>, <<3, 3>>, <<3, 3>>, (0..2) \X (0..1), {}, {"write_at", "write"}, 3, 1),
    Layout("contiguous", <<1, 1>>, <<2, 3>>, <<2, 3>>, {}, {}, {"slice", "raw"}, 3, 1),
    \* Both dimensions of a B-tree change.
    Layout("BT2", <<2, 1>>, <<0, 0>>, <<Inf, Inf>>, (0..1) \X (0..1), (1..3) \X (1..2),
           {"write_at", "extend", "set_extent"}, 5, 1)}
\* Lines in chunks of three, appended one or two at a time in two sessions.
TwoSessions == {Layout("EA", <<3, 1>>, <<0, 1>>, <<Inf, 1>>, {}, {}, {"append"}, 3, 2)}
=============================================================================
