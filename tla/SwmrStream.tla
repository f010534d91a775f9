------------------------------ MODULE SwmrStream ------------------------------
(***************************************************************************)
(* The SWMR protocol of crates/rust-hdf5: one writer appends frames to     *)
(* chunked datasets of one HDF5 file while a reader polls the same file.   *)
(* A writer call computes the new in-memory index at once (the writer is   *)
(* single threaded) and leaves a list of file operations, `todo`, which    *)
(* the action WriterIO performs one at a time, so that the reader's own    *)
(* file reads interleave with them.  The BufWriter only delays a write     *)
(* until the next seek or flush and never reorders two of them: a step of  *)
(* WriterIO is the moment the bytes reach the operating system.            *)
(*                                                                         *)
(* A cell is one metadata block or chunk; `file` is what another process   *)
(* reads, `maybe` the set of values each cell may hold after a power loss: *)
(* what was last synced or anything written since.                         *)
(***************************************************************************)
EXTENDS Naturals, Sequences, FiniteSets, SequencesExt

CONSTANTS
    Order,       \* the datasets, in the order they were created
    PerChunk,    \* dataset -> frames per chunk, chunk[0]
    Tiles,       \* dataset -> chunks that one frame (or band) is split into
    MaxFrames,   \* dataset -> bound on the frames appended
    IdxElmts,    \* elements kept in the index block (the code: 4)
    DblkElmts,   \* elements of a data block (the code: 16 and up)
    Direct,      \* data blocks addressed by the index block itself
    Attrs        \* datasets that may receive an attribute or a hard link

Dset == Range(Order)

VARIABLES
    mem,       \* dataset -> the writer's DatasetInfo and BandBuffer
    todo,      \* file operations the current call still has to do
    status,    \* "created", "live" (after start_swmr), "closed", "dropped", "gone"
    acked,     \* dataset -> frames covered by the last flush that returned Ok
    file,      \* cell -> contents, as other processes see it
    torn,      \* the cell whose bytes are being replaced, or None
    maybe,     \* cell -> contents it may have after a power loss
    rd         \* the reader

vars == <<mem, todo, status, acked, file, torn, maybe, rd>>

None == <<>>

\* What a cell that was never written holds.
Blank(cell) == IF cell[1] \in {"dblk", "sblk"} THEN {} ELSE None

-----------------------------------------------------------------------------
\* The extensible array: where the entry of chunk number c lives.

Block(c) == (c - IdxElmts) \div DblkElmts
InIndexBlock(c) == c < IdxElmts
InDirectBlock(c) == ~InIndexBlock(c) /\ Block(c) < Direct

Chunks(d) == ((MaxFrames[d] + PerChunk[d] - 1) \div PerChunk[d]) * Tiles[d]
Blocks(d) == {Block(c) : c \in {x \in 0..Chunks(d) : ~InIndexBlock(x)}}

\* The chunk that holds tile t of frame f.
ChunkOf(d, f, t) == (f \div PerChunk[d]) * Tiles[d] + t

Cells ==
    {<<"sb">>} \cup {<<"root", k>> : k \in 1..2}
    \cup {<<"oh", d, k>> : d \in Dset, k \in 1..2}
    \cup {<<"iblk", d>> : d \in Dset} \cup {<<"sblk", d>> : d \in Dset}
    \cup UNION {{<<"dblk", d, b>> : b \in Blocks(d)} : d \in Dset}
    \cup UNION {{<<"chunk", d, c>> : c \in 0..Chunks(d)} : d \in Dset}

EmptyIndex ==
    [slots |-> {}, blocks |-> {}, sblk |-> FALSE, sblocks |-> {}, entries |-> <<>>]

\* An index block, as ExtensibleArrayIndexBlock::encode lays it out: its own
\* elements, the addresses of the direct data blocks, that of the super block.
IndexBlockImage(ix) == [slots |-> ix.slots, blocks |-> ix.blocks, sblk |-> ix.sblk]

Entries(ix, b) == IF b \in DOMAIN ix.entries THEN ix.entries[b] ELSE {}

\* record_ea_chunk, on the writer's memory: the entry of chunk c is recorded.
\* An entry of a data block changes no memory but the block's address.
Put(ix, c) ==
    LET b == Block(c)
        e == [x \in DOMAIN ix.entries \cup {b} |->
                IF x = b THEN Entries(ix, b) \cup {c} ELSE ix.entries[x]] IN
    IF InIndexBlock(c) THEN [ix EXCEPT !.slots = @ \cup {c}]
    ELSE IF InDirectBlock(c)
         THEN [ix EXCEPT !.entries = e, !.blocks = @ \cup {b}]
         ELSE [ix EXCEPT !.entries = e, !.sblk = TRUE, !.sblocks = @ \cup {b}]

Write(cell, value) == <<"write", cell, value>>
Sync == <<"sync">>
Ack(seen) == <<"ack", seen>>
End(s) == <<"end", s>>

\* record_ea_chunk, on the file: a data block (and the super block that
\* addresses it) is written in place at once; the index block is not.
PutIO(d, ix, c) ==
    LET b == Block(c)
        dblk == <<Write(<<"dblk", d, b>>, Entries(ix, b) \cup {c})>>
        super == IF ix.sblk THEN <<>> ELSE <<Write(<<"sblk", d>>, {})>>
        link == IF b \in ix.sblocks THEN <<>>
                ELSE <<Write(<<"sblk", d>>, ix.sblocks \cup {b})>> IN
    IF InIndexBlock(c) THEN <<>>
    ELSE IF InDirectBlock(c) THEN dblk ELSE super \o dblk \o link

\* write_chunk: the (filtered) data first, then the index.
WriteChunkIO(d, ix, c, frames) ==
    <<Write(<<"chunk", d, c>>, frames)>> \o PutIO(d, ix, c)

\* The index after tiles 0 .. t - 1 of the chunk row that starts at `base`.
IndexAfter(ix, base, n) ==
    LET step[t \in 0..n] == IF t = 0 THEN ix ELSE Put(step[t - 1], base + t - 1)
    IN step

\* write_chunk for every tile of one frame or band, in grid order.
WriteTilesIO(d, base, frames) ==
    LET ixs == IndexAfter(mem[d].ix, base, Tiles[d]) IN
    FlattenSeq([t \in 1..Tiles[d] |->
                  WriteChunkIO(d, ixs[t - 1], base + t - 1, frames)])

Written(m, d, base) ==
    [m EXCEPT !.ix = IndexAfter(m.ix, base, Tiles[d])[Tiles[d]],
              !.written = @ + Tiles[d]]

-----------------------------------------------------------------------------
\* The writer's calls.  Each needs the previous one to have returned.

Ready == todo = <<>> /\ status \in {"created", "live"}

\* append_frame for a dataset with chunk[0] = 1: tiles, then the extent.
AppendFrame(d) ==
    /\ Ready /\ PerChunk[d] = 1 /\ mem[d].dims < MaxFrames[d]
    /\ LET f == mem[d].dims
           base == ChunkOf(d, f, 0) IN
       /\ todo' = WriteTilesIO(d, base, <<f>>)
       /\ mem' = [mem EXCEPT ![d] = [Written(@, d, base) EXCEPT !.dims = f + 1]]
    /\ UNCHANGED <<status, acked, file, torn, maybe, rd>>

\* write_band: the buffered frames become the chunks of one band.
BandBase(m, d) == ((m.dims - Len(m.pending)) \div PerChunk[d]) * Tiles[d]

\* append_frame_banded: the frame is buffered and counted, and the band is
\* written when it is full.
AppendFrameBanded(d) ==
    /\ Ready /\ PerChunk[d] > 1 /\ mem[d].dims < MaxFrames[d]
    /\ LET m == [mem[d] EXCEPT !.pending = Append(@, mem[d].dims), !.dims = @ + 1]
           base == BandBase(m, d) IN
       IF Len(m.pending) = PerChunk[d]
       THEN /\ todo' = WriteTilesIO(d, base, m.pending)
            /\ mem' = [mem EXCEPT ![d] = [Written(m, d, base) EXCEPT !.pending = <<>>]]
       ELSE /\ mem' = [mem EXCEPT ![d] = m]
            /\ UNCHANGED todo
    /\ UNCHANGED <<status, acked, file, torn, maybe, rd>>

\* flush_band_buffers: every partial band, zero padded.
BandsIO == FlattenSeq([i \in DOMAIN Order |->
    LET d == Order[i] IN
    IF mem[d].pending = <<>> THEN <<>>
    ELSE WriteTilesIO(d, BandBase(mem[d], d), mem[d].pending)])

BandsFlushed == [d \in Dset |->
    IF mem[d].pending = <<>> THEN mem[d]
    ELSE [Written(mem[d], d, BandBase(mem[d], d)) EXCEPT !.pending = <<>>]]

\* add_dataset_attribute, or a hard link to d: after start_swmr the encoded
\* object header no longer fits where it was written.
AddAttr(d) ==
    /\ Ready /\ d \in Attrs /\ ~mem[d].attr
    /\ mem' = [mem EXCEPT ![d].attr = TRUE, ![d].grown = status = "live"]
    /\ UNCHANGED <<todo, status, acked, file, torn, maybe, rd>>

\* flush_dataset for an extensible array, with its own sync_data.
FlushDatasetIO(m, d) == <<Write(<<"iblk", d>>, IndexBlockImage(m[d].ix)), Sync>>

AllIndexes(m, ds) == FlattenSeq([i \in DOMAIN ds |-> FlushDatasetIO(m, ds[i])])

\* An object header, as build_dataset_header makes it.
Header(m, d) == [dims |-> m[d].dims, attr |-> m[d].attr]
WriteHeader(m, d, k) == Write(<<"oh", d, k>>, Header(m, d))

\* Mutant of HeadersInPlace: the last dataset's header is left as it was.
HeadersButLast(m) ==
    [i \in 1..Len(Order) - 1 |-> WriteHeader(m, Order[i], 1)]

\* write_dataset_header_inplace refuses a header that has grown.
Fits(m) == SelectInSeq(Order, LAMBDA d : m[d].grown) = 0
HeadersInPlace(m) ==
    LET n == SelectInSeq(Order, LAMBDA d : m[d].grown) IN
    [i \in 1..(IF n = 0 THEN Len(Order) ELSE n - 1) |-> WriteHeader(m, Order[i], 1)]

Dims(m) == [d \in Dset |-> m[d].dims]

\* Mutant of FlushIO: no sync between the index and the headers.
FlushUnsynced ==
    SelectSeq(AllIndexes(mem, Order), LAMBDA op : op # Sync)
    \o (IF status # "live" THEN <<>>
        ELSE HeadersInPlace(mem)
             \o (IF Fits(mem) THEN <<Write(<<"sb">>, [root |-> 1, swmr |-> TRUE]), Sync,
                                      Ack(Dims(mem))>> ELSE <<>>))

\* SwmrWriter::flush.
FlushIO ==
    AllIndexes(mem, Order) \o <<Sync>> \o
    (IF status # "live" THEN <<>>
     ELSE HeadersInPlace(mem) \o
          (IF Fits(mem)
           THEN <<Sync, Write(<<"sb">>, [root |-> 1, swmr |-> TRUE]), Sync, Ack(Dims(mem))>>
           ELSE <<>>))

Flush ==
    /\ Ready
    /\ todo' = FlushIO
    /\ UNCHANGED <<mem, status, acked, file, torn, maybe, rd>>

\* finalize_for_swmr and release_lock.
StartSwmr ==
    /\ Ready /\ status = "created"
    /\ todo' = AllIndexes(mem, Order)
               \o [i \in DOMAIN Order |-> WriteHeader(mem, Order[i], 1)]
               \o <<Write(<<"root", 1>>, [d \in Dset |-> 1]),
                    Write(<<"sb">>, [root |-> 1, swmr |-> TRUE]), Sync,
                    Ack(Dims(mem)), End("live")>>
    /\ UNCHANGED <<mem, status, acked, file, torn, maybe, rd>>

\* finalize: a dataset whose header start_swmr wrote is written again only if
\* a chunk of it was written; the others keep the header they have.
Modified(m, d) == status = "created" \/ m[d].written > 0
FinalizeIO(m, ended) ==
    LET ds == SelectSeq(Order, LAMBDA d : Modified(m, d))
        k == IF status = "created" THEN 1 ELSE 2 IN
    AllIndexes(m, ds)
    \o [i \in DOMAIN ds |-> WriteHeader(m, ds[i], k)]
    \o <<Write(<<"root", k>>, [d \in Dset |-> IF Modified(m, d) THEN k ELSE 1]),
         Write(<<"sb">>, [root |-> k, swmr |-> FALSE]), Sync>>
    \o (IF ended = "closed" THEN <<Ack(Dims(m))>> ELSE <<>>) \o <<End(ended)>>

\* SwmrWriter::close: the partial bands, then finalize.
Close ==
    /\ Ready
    /\ todo' = BandsIO \o FinalizeIO(BandsFlushed, "closed")
    /\ mem' = BandsFlushed
    /\ UNCHANGED <<status, acked, file, torn, maybe, rd>>

\* The writer is dropped instead: Drop finalizes, but nothing writes the bands.
DropWriter ==
    /\ Ready
    /\ todo' = FinalizeIO(mem, "dropped")
    /\ UNCHANGED <<mem, status, acked, file, torn, maybe, rd>>

\* One file operation of the call in progress.  A write is seen half done by
\* a reader that reads the cell between its two steps.
WriterIO ==
    /\ todo # <<>>
    /\ LET op == Head(todo) IN
       \/ /\ op[1] = "write" /\ torn = None
          /\ torn' = op[2]
          /\ UNCHANGED <<todo, status, acked, file, maybe>>
       \/ /\ op[1] = "write" /\ torn = op[2]
          /\ file' = [file EXCEPT ![op[2]] = op[3]]
          /\ maybe' = [maybe EXCEPT ![op[2]] = @ \cup {op[3]}]
          /\ torn' = None /\ todo' = Tail(todo)
          /\ UNCHANGED <<status, acked>>
       \/ /\ op[1] = "sync"
          /\ maybe' = [c \in Cells |-> {file[c]}]
          /\ todo' = Tail(todo)
          /\ UNCHANGED <<status, acked, file, torn>>
       \/ /\ op[1] = "ack"
          /\ acked' = op[2] /\ todo' = Tail(todo)
          /\ UNCHANGED <<status, file, torn, maybe>>
       \/ /\ op[1] = "end"
          /\ status' = op[2] /\ todo' = Tail(todo)
          /\ UNCHANGED <<acked, file, torn, maybe>>
    /\ UNCHANGED <<mem, rd>>

\* The writer's process is killed between two file operations.
Kill ==
    /\ status = "live" /\ torn = None
    /\ status' = "gone" /\ todo' = <<>>
    /\ UNCHANGED <<mem, acked, file, torn, maybe, rd>>

Writer ==
    \/ \E d \in Dset : AppendFrame(d) \/ AppendFrameBanded(d) \/ AddAttr(d)
    \/ Flush \/ StartSwmr \/ Close \/ DropWriter \/ WriterIO \/ Kill

-----------------------------------------------------------------------------
\* The reader: refresh, read one dataset, and again, as the loop in the
\* documentation of SwmrFileReader does.  Metadata is checksummed, so a block
\* read half written is an error, which leaves the snapshot as it was.

ReadOf(cell) == [bad |-> torn = cell, value |-> file[cell]]

\* A reader that has read nothing yet.
rd0 == [pc |-> "idle", root |-> 0, since |-> [d \in Dset |-> 0], links |-> <<>>,
        heads |-> <<>>, dims |-> [d \in Dset |-> 0], d |-> Order[1], ix |-> None,
        sblocks |-> {}, got |-> <<>>]

\* refresh and the reads return an error and change nothing the caller sees.
Failed == [rd0 EXCEPT !.dims = rd.dims]

\* refresh: the superblock.  Before start_swmr the exclusive lock of the
\* writer keeps the reader from opening the file.
ReadSuperblock ==
    /\ rd.pc = "idle" /\ status # "created"
    /\ LET r == ReadOf(<<"sb">>) IN
       rd' = IF r.bad THEN Failed
             ELSE [rd EXCEPT !.pc = "root", !.root = r.value.root, !.since = acked]
    /\ UNCHANGED <<mem, todo, status, acked, file, torn, maybe>>

\* refresh: the root group header and its links.
ReadRoot ==
    /\ rd.pc = "root"
    /\ LET r == ReadOf(<<"root", rd.root>>) IN
       rd' = IF r.bad THEN Failed
             ELSE [rd EXCEPT !.pc = "heads", !.links = r.value, !.heads = <<>>]
    /\ UNCHANGED <<mem, todo, status, acked, file, torn, maybe>>

\* refresh: one dataset header after the other, then the new view at once.
ReadHeader ==
    /\ rd.pc = "heads" /\ Len(rd.heads) < Len(Order)
    /\ LET d == Order[Len(rd.heads) + 1]
           r == ReadOf(<<"oh", d, rd.links[d]>>) IN
       rd' = IF r.bad THEN Failed ELSE [rd EXCEPT !.heads = Append(@, r.value)]
    /\ UNCHANGED <<mem, todo, status, acked, file, torn, maybe>>

Position(d) == CHOOSE i \in DOMAIN Order : Order[i] = d

Install ==
    /\ rd.pc = "heads" /\ Len(rd.heads) = Len(Order)
    /\ rd' = [rd EXCEPT !.pc = "fresh",
                        !.dims = [d \in Dset |-> rd.heads[Position(d)].dims]]
    /\ UNCHANGED <<mem, todo, status, acked, file, torn, maybe>>

\* read_chunked_v4: the index block of one dataset.
ReadIndexBlock ==
    /\ rd.pc = "fresh"
    /\ \E d \in Dset :
         LET r == ReadOf(<<"iblk", d>>) IN
         rd' = IF r.bad THEN Failed
               ELSE [rd EXCEPT !.pc = "sblk", !.d = d, !.ix = r.value]
    /\ UNCHANGED <<mem, todo, status, acked, file, torn, maybe>>

\* collect_ea_chunk_entries: the super block, if there is one.
ReadSuperBlock ==
    /\ rd.pc = "sblk"
    /\ LET r == ReadOf(<<"sblk", rd.d>>) IN
       rd' = IF ~rd.ix.sblk THEN [rd EXCEPT !.pc = "data", !.sblocks = {}]
             ELSE IF r.bad THEN Failed
             ELSE [rd EXCEPT !.pc = "data", !.sblocks = r.value]
    /\ UNCHANGED <<mem, todo, status, acked, file, torn, maybe>>

\* The entry of chunk c, through the index block and super block as read.
Found(d, c) ==
    IF InIndexBlock(c) THEN c \in rd.ix.slots
    ELSE /\ Block(c) \in (IF InDirectBlock(c) THEN rd.ix.blocks ELSE rd.sblocks)
         /\ c \in file[<<"dblk", d, Block(c)>>]

\* What the reader gets for tile t of frame f: a chunk without an entry reads
\* as the fill value, and so do the slots of a partial band.
TileRead(d, f, t) ==
    LET c == ChunkOf(d, f, t)
        data == file[<<"chunk", d, c>>]
        s == (f % PerChunk[d]) + 1 IN
    IF ~Found(d, c) THEN "fill"
    ELSE IF torn = <<"chunk", d, c>> \/ data = None THEN "garbage"
    ELSE IF s \notin DOMAIN data THEN "fill"
    ELSE IF data[s] = f THEN "own" ELSE "other"

FrameRead(d, f) == {TileRead(d, f, t) : t \in 0..Tiles[d] - 1}

\* collect_ea_chunk_entries, copy_chunk_to_output: data blocks and chunks.
ReadData ==
    /\ rd.pc = "data"
    /\ LET bad == \E b \in rd.ix.blocks \cup rd.sblocks : torn = <<"dblk", rd.d, b>> IN
       rd' = IF bad THEN Failed
             ELSE [rd EXCEPT !.pc = "done",
                             !.got = [i \in 1..rd.dims[rd.d] |-> FrameRead(rd.d, i - 1)]]
    /\ UNCHANGED <<mem, todo, status, acked, file, torn, maybe>>

\* What was read is dropped and the loop starts over.
Again ==
    /\ rd.pc = "done"
    /\ rd' = [rd0 EXCEPT !.dims = rd.dims]
    /\ UNCHANGED <<mem, todo, status, acked, file, torn, maybe>>

Reader ==
    \/ ReadSuperblock \/ ReadRoot \/ ReadHeader \/ Install
    \/ ReadIndexBlock \/ ReadSuperBlock \/ ReadData \/ Again

-----------------------------------------------------------------------------
Init ==
    /\ mem = [d \in Dset |-> [dims |-> 0, pending |-> <<>>, ix |-> EmptyIndex,
                              written |-> 0, attr |-> FALSE, grown |-> FALSE]]
    /\ todo = <<>> /\ status = "created"
    /\ acked = [d \in Dset |-> 0]
    /\ file = [c \in Cells |-> Blank(c)] /\ torn = None
    /\ maybe = [c \in Cells |-> {Blank(c)}]
    /\ rd = rd0

Next == Writer \/ Reader

Spec == Init /\ [][Next]_vars

\* The writer's process keeps running, and the reader keeps polling, which is
\* what the documentation asks of the caller of refresh.
FairSpec == Spec /\ WF_vars(WriterIO) /\ WF_vars(Reader)

-----------------------------------------------------------------------------
\* The writer's view, the file and the reader's view have their types.
TypeOK ==
    /\ status \in {"created", "live", "closed", "dropped", "gone"}
    /\ torn \in Cells \cup {None}
    /\ \A d \in Dset :
         /\ mem[d].dims \in 0..MaxFrames[d] /\ acked[d] \in 0..MaxFrames[d]
         /\ Len(mem[d].pending) < PerChunk[d]
         /\ mem[d].ix.slots \subseteq 0..IdxElmts - 1
    /\ DOMAIN file = Cells /\ DOMAIN maybe = Cells
    /\ rd.pc \in {"idle", "root", "heads", "fresh", "sblk", "data", "done"}

\* Frame f belongs to a band that the first n frames fill.
InWholeBand(d, f, n) == (f \div PerChunk[d] + 1) * PerChunk[d] <= n

\* A reader that polls while the writer appends, flushes, closes or dies gets,
\* for every frame of a band that the extent it has seen covers, that frame and
\* nothing else; a frame of the last, partial band is either itself or fill.
ReadExact ==
    rd.pc = "done" =>
      \A f \in 0..rd.dims[rd.d] - 1 :
        LET got == rd.got[f + 1] IN
        IF InWholeBand(rd.d, f, rd.dims[rd.d]) THEN got = {"own"} ELSE got \subseteq {"own", "fill"}

\* A refresh that succeeds sees every frame that a flush (or start_swmr, or
\* close) had acknowledged before the refresh began.
RefreshSeesFlush ==
    rd.pc = "fresh" => \A d \in Dset : rd.dims[d] >= rd.since[d]

\* refresh never takes frames away from a reader, also across the switch to
\* the headers that close writes at fresh addresses.
ReaderStep == \A d \in Dset : rd'.dims[d] >= rd.dims[d]

\* Entry c can be found in every image a power loss may leave.
DurablyFound(d, c) ==
    LET b == Block(c) IN
    \A i \in maybe[<<"iblk", d>>] :
      IF i = None THEN FALSE
      ELSE IF InIndexBlock(c) THEN c \in i.slots
      ELSE /\ IF InDirectBlock(c) THEN b \in i.blocks
              ELSE i.sblk /\ \A s \in maybe[<<"sblk", d>>] : b \in s
           /\ \A e \in maybe[<<"dblk", d, b>>] : c \in e

\* While frames stream, a power loss at any moment leaves a file in which
\* every frame of a full band that the surviving dataset header counts can be
\* found through the surviving index and has its data: the syncs between
\* index, headers and superblock make any subset of the pending writes safe.
CrashSafe ==
    status \in {"live", "gone"} =>
      \A d \in Dset : \A h \in maybe[<<"oh", d, 1>>] :
        \A f \in {x \in 0..h.dims - 1 : InWholeBand(d, x, h.dims)} :
          \A t \in 0..Tiles[d] - 1 :
            LET c == ChunkOf(d, f, t) IN
            /\ DurablyFound(d, c)
            /\ \A v \in maybe[<<"chunk", d, c>>] :
                 v # None /\ v[(f % PerChunk[d]) + 1] = f

\* After close every appended frame, those of the partial band included, is in
\* the synced file under the header that the root group links.
CloseComplete ==
    status = "closed" =>
      \A d \in Dset :
        LET root == file[<<"root", file[<<"sb">>].root>>]
            head == file[<<"oh", d, root[d]>>] IN
        /\ head.dims = mem[d].dims
        /\ \A f \in 0..head.dims - 1 : \A t \in 0..Tiles[d] - 1 :
             LET c == ChunkOf(d, f, t) IN
             DurablyFound(d, c) /\ file[<<"chunk", d, c>>][(f % PerChunk[d]) + 1] = f

\* Once the writer pauses, closes or dies, a reader that keeps polling is shown
\* everything a flush had published; a writer that never stops flushing may
\* make every refresh meet a half written block.
SeesAll == \A d \in Dset : rd.dims[d] >= acked[d]
EventuallySeen == <>[](todo = <<>>) => <>[]SeesAll
=============================================================================
