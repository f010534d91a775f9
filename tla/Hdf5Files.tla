------------------------------ MODULE Hdf5Files ------------------------------
(***************************************************************************)
(* The HDF5 library, part by part: the stream a reader follows, the tree   *)
(* of objects, the chunks of a dataset, their indexes, and the filters     *)
(* with their codecs and their arithmetic.  Part of the state says which   *)
(* of them is explored.                                                    *)
(***************************************************************************)
EXTENDS FlatIndexes

CONSTANTS
    OneOrder, OnePerChunk, OneTiles, OneFrames,    \* a stream of tiles
    TwoOrder, TwoPerChunk, TwoTiles, TwoFrames,    \* two streams, one of bands
    Uses1, Layouts1, Builds1, Alphabets1,
    Params, Filtered, ByteBits, Wanted, ArrayEnd   \* of the extensible array, its MaxAddr the last

VARIABLES part,   \* which of them runs
    mem, todo, status, acked, file, torn, maybe, rd, use, does, session, ops,
    ds, gr, links, newRoot, names, attrs, regrouped, layout, dims, table,
    buffer, buffered, led, astray, step, ok, par, filt, free, iblk, stats,
    last, seen, input, newest, pieces, features, pipe, stored, meant, data,
    float, drop, missing
hdf5Vars == <<part, vars, mem, todo, status, acked, file, torn, maybe, rd,
              use, does, session, ops, ds, gr, links, newRoot, names, attrs,
              regrouped, layout, dims, table, buffer, buffered, led, astray,
              step, ok, par, filt, free, iblk, stats, last, seen, input,
              newest, pieces, features, pipe, stored, meant, data, float,
              drop, missing>>

Tiled == INSTANCE SwmrStream WITH
    Order <- OneOrder, PerChunk <- OnePerChunk, Tiles <- OneTiles, MaxFrames <- OneFrames,
    IdxElmts <- 1, DblkElmts <- 1, Direct <- 1, Attrs <- {"t"}
Mixed == INSTANCE SwmrStream WITH
    Order <- TwoOrder, PerChunk <- TwoPerChunk, Tiles <- TwoTiles, MaxFrames <- TwoFrames,
    IdxElmts <- 1, DblkElmts <- 1, Direct <- 0, Attrs <- {}
Tree == INSTANCE ObjectTree WITH
    GroupNames <- {"a"}, DataNames <- {"x", "l"}, LinkNames <- {"l"}, Depth <- 2, Uses <- Uses1,
    pc <- does
DataRows == INSTANCE ChunkStore WITH Layouts <- Layouts1, pc <- does
Index == INSTANCE EaIndex WITH MaxAddr <- ArrayEnd, next <- free
Codecs == INSTANCE LzCodecs WITH
    Rows <- 6, Byte <- 4, Lengths <- {1, 3, 6, 13, 24}, MaxPieces <- 3, fresh <- newest
Filters == INSTANCE MCChunkFilters WITH
    Builds <- Builds1, Chunks <- {1, 2}, ChunkLen <- 11, Bits <- 2,
    LeastElems <- 2, BlockBytes <- 8, Byte <- 4, Lz4Limit <- 64, MaxFilters <- 32
Numbers == INSTANCE FilterNumbers WITH
    Half <- 16, ByteValues <- 4, Alphabets <- Alphabets1, Exps <- 4, FineBits <- 4

\* The small inputs, see the modules.
MCOneOrder == <<"t">>
MCOnePerChunk == [d \in {"t"} |-> 1]
MCOneTiles == [d \in {"t"} |-> 2]
MCOneFrames == [d \in {"t"} |-> 2]
MCTwoOrder == <<"s", "b">>
MCTwoPerChunk == [d \in {"s", "b"} |-> IF d = "s" THEN 1 ELSE 2]
MCTwoTiles == [d \in {"s", "b"} |-> 1]
MCTwoFrames == [d \in {"s", "b"} |-> IF d = "s" THEN 1 ELSE 3]
Use(kinds, first, later, sessions) ==
    [kinds |-> kinds, first |-> first, later |-> later, sessions |-> sessions]
MCUses == {Use({"group", "dataset", "link", "delete"}, 5, 0, 1),
           Use({"group", "dataset", "grouplink"}, 4, 0, 1),
           Use({"group", "dataset", "link", "crash"}, 3, 2, 2),
           Use({"dataset", "attr", "extend", "crash"}, 4, 2, 3)}
StoreInputs == INSTANCE ChunkStore WITH Layouts <- {}, pc <- does
MCLayouts == StoreInputs!MCLayouts
\* Six super blocks, the last two with blocks of pages, and other shapes.
Shape(idx, min, sup, bits, page, foreign) ==
    [idx |-> idx, min |-> min, sup |-> sup, bits |-> bits, page |-> page, foreign |-> foreign]
MCParams == {Shape(1, 1, 2, 5, 4, FALSE), Shape(2, 2, 2, 4, 4, FALSE),
             Shape(1, 1, 4, 4, 8, FALSE), Shape(1, 3, 2, 4, 4, FALSE),
             Shape(1, 1, 2, 5, 2, TRUE), Shape(0, 2, 2, 5, 2, TRUE)}
\* The first one with filters and without, each of the others with one of both.
MCFiltered == [p \in MCParams |->
    IF p = Shape(1, 1, 2, 5, 4, FALSE) THEN BOOLEAN ELSE {p.idx = p.min}]
FilterInputs == INSTANCE MCChunkFilters WITH
    Builds <- {}, Chunks <- {}, ChunkLen <- 11, Bits <- 2,
    LeastElems <- 2, BlockBytes <- 8, Byte <- 4, Lz4Limit <- 64, MaxFilters <- 32
MCBuilds == FilterInputs!MCBuilds
MCAlphabets == {[bytes |-> {0, 1, 3}, len |-> 7], [bytes |-> {2, 3}, len |-> 12]}

-----------------------------------------------------------------------------
\* The variables of the parts that do not run have no meaning; those of the two
\* flat indexes keep an initial value.
Off == "off"
FlatOff == Init /\ shape = CHOOSE s \in Shapes : TRUE
Hdf5Init ==
    \/ /\ part = "flat" /\ Init
       /\ mem = Off /\ todo = Off /\ status = Off /\ acked = Off /\ file = Off
       /\ torn = Off /\ maybe = Off /\ rd = Off /\ use = Off /\ does = Off
       /\ session = Off /\ ops = Off /\ ds = Off /\ gr = Off /\ links = Off
       /\ newRoot = Off /\ names = Off /\ attrs = Off /\ regrouped = Off
       /\ layout = Off /\ dims = Off /\ table = Off /\ buffer = Off
       /\ buffered = Off /\ led = Off /\ astray = Off /\ step = Off
       /\ ok = Off /\ par = Off /\ filt = Off /\ free = Off /\ iblk = Off
       /\ stats = Off /\ last = Off /\ seen = Off /\ input = Off
       /\ newest = Off /\ pieces = Off /\ features = Off /\ pipe = Off
       /\ stored = Off /\ meant = Off /\ data = Off /\ float = Off
       /\ drop = Off /\ missing = Off
    \/ /\ part = "tiles" /\ FlatOff /\ Tiled!Init
       /\ use = Off /\ does = Off /\ session = Off /\ ops = Off /\ ds = Off
       /\ gr = Off /\ links = Off /\ newRoot = Off /\ names = Off
       /\ attrs = Off /\ regrouped = Off /\ layout = Off /\ dims = Off
       /\ table = Off /\ buffer = Off /\ buffered = Off /\ led = Off
       /\ astray = Off /\ step = Off /\ ok = Off /\ par = Off /\ filt = Off
       /\ free = Off /\ iblk = Off /\ stats = Off /\ last = Off /\ seen = Off
       /\ input = Off /\ newest = Off /\ pieces = Off /\ features = Off
       /\ pipe = Off /\ stored = Off /\ meant = Off /\ data = Off
       /\ float = Off /\ drop = Off /\ missing = Off
    \/ /\ part = "bands" /\ FlatOff /\ Mixed!Init
       /\ use = Off /\ does = Off /\ session = Off /\ ops = Off /\ ds = Off
       /\ gr = Off /\ links = Off /\ newRoot = Off /\ names = Off
       /\ attrs = Off /\ regrouped = Off /\ layout = Off /\ dims = Off
       /\ table = Off /\ buffer = Off /\ buffered = Off /\ led = Off
       /\ astray = Off /\ step = Off /\ ok = Off /\ par = Off /\ filt = Off
       /\ free = Off /\ iblk = Off /\ stats = Off /\ last = Off /\ seen = Off
       /\ input = Off /\ newest = Off /\ pieces = Off /\ features = Off
       /\ pipe = Off /\ stored = Off /\ meant = Off /\ data = Off
       /\ float = Off /\ drop = Off /\ missing = Off
    \/ /\ part = "tree" /\ FlatOff /\ Tree!Init
       /\ mem = Off /\ todo = Off /\ status = Off /\ acked = Off /\ torn = Off
       /\ maybe = Off /\ rd = Off /\ layout = Off /\ dims = Off /\ table = Off
       /\ buffer = Off /\ buffered = Off /\ led = Off /\ astray = Off
       /\ step = Off /\ ok = Off /\ par = Off /\ filt = Off /\ free = Off
       /\ iblk = Off /\ stats = Off /\ last = Off /\ seen = Off /\ input = Off
       /\ newest = Off /\ pieces = Off /\ features = Off /\ pipe = Off
       /\ stored = Off /\ meant = Off /\ data = Off /\ float = Off
       /\ drop = Off /\ missing = Off
    \/ /\ part = "chunks" /\ FlatOff /\ DataRows!Init
       /\ mem = Off /\ todo = Off /\ status = Off /\ acked = Off /\ file = Off
       /\ torn = Off /\ maybe = Off /\ rd = Off /\ use = Off /\ ops = Off
       /\ ds = Off /\ gr = Off /\ links = Off /\ newRoot = Off /\ names = Off
       /\ attrs = Off /\ regrouped = Off /\ par = Off /\ filt = Off
       /\ free = Off /\ iblk = Off /\ stats = Off /\ last = Off /\ seen = Off
       /\ input = Off /\ newest = Off /\ pieces = Off /\ features = Off
       /\ pipe = Off /\ stored = Off /\ meant = Off /\ data = Off
       /\ float = Off /\ drop = Off /\ missing = Off
    \/ /\ part = "index" /\ FlatOff /\ Index!Init
       /\ mem = Off /\ todo = Off /\ status = Off /\ acked = Off /\ torn = Off
       /\ maybe = Off /\ rd = Off /\ use = Off /\ does = Off /\ session = Off
       /\ ops = Off /\ ds = Off /\ gr = Off /\ links = Off /\ newRoot = Off
       /\ names = Off /\ attrs = Off /\ regrouped = Off /\ layout = Off
       /\ dims = Off /\ table = Off /\ buffer = Off /\ buffered = Off
       /\ led = Off /\ astray = Off /\ step = Off /\ ok = Off /\ input = Off
       /\ newest = Off /\ pieces = Off /\ features = Off /\ pipe = Off
       /\ stored = Off /\ meant = Off /\ data = Off /\ float = Off
       /\ drop = Off /\ missing = Off
    \/ /\ part = "codecs" /\ FlatOff /\ Codecs!Init
       /\ mem = Off /\ todo = Off /\ status = Off /\ acked = Off /\ file = Off
       /\ torn = Off /\ maybe = Off /\ rd = Off /\ use = Off /\ does = Off
       /\ session = Off /\ ops = Off /\ ds = Off /\ gr = Off /\ links = Off
       /\ newRoot = Off /\ names = Off /\ attrs = Off /\ regrouped = Off
       /\ layout = Off /\ dims = Off /\ table = Off /\ buffer = Off
       /\ buffered = Off /\ led = Off /\ astray = Off /\ step = Off
       /\ ok = Off /\ par = Off /\ filt = Off /\ free = Off /\ iblk = Off
       /\ stats = Off /\ last = Off /\ seen = Off /\ features = Off
       /\ pipe = Off /\ stored = Off /\ meant = Off /\ data = Off
       /\ float = Off /\ drop = Off /\ missing = Off
    \/ /\ part = "filters" /\ FlatOff /\ Filters!Init
       /\ mem = Off /\ todo = Off /\ status = Off /\ acked = Off /\ file = Off
       /\ torn = Off /\ maybe = Off /\ rd = Off /\ use = Off /\ does = Off
       /\ session = Off /\ ops = Off /\ ds = Off /\ gr = Off /\ links = Off
       /\ newRoot = Off /\ names = Off /\ attrs = Off /\ regrouped = Off
       /\ layout = Off /\ dims = Off /\ table = Off /\ buffer = Off
       /\ buffered = Off /\ led = Off /\ astray = Off /\ step = Off
       /\ ok = Off /\ par = Off /\ filt = Off /\ free = Off /\ iblk = Off
       /\ stats = Off /\ last = Off /\ seen = Off /\ input = Off
       /\ newest = Off /\ pieces = Off /\ data = Off /\ float = Off
       /\ drop = Off /\ missing = Off
    \/ /\ part = "numbers" /\ FlatOff /\ Numbers!Init
       /\ mem = Off /\ todo = Off /\ status = Off /\ acked = Off /\ file = Off
       /\ torn = Off /\ maybe = Off /\ rd = Off /\ use = Off /\ does = Off
       /\ session = Off /\ ops = Off /\ ds = Off /\ gr = Off /\ links = Off
       /\ newRoot = Off /\ names = Off /\ attrs = Off /\ regrouped = Off
       /\ layout = Off /\ dims = Off /\ table = Off /\ buffer = Off
       /\ buffered = Off /\ led = Off /\ astray = Off /\ step = Off
       /\ ok = Off /\ par = Off /\ filt = Off /\ free = Off /\ iblk = Off
       /\ stats = Off /\ last = Off /\ seen = Off /\ input = Off
       /\ newest = Off /\ pieces = Off /\ features = Off /\ pipe = Off
       /\ stored = Off /\ meant = Off
Hdf5Next ==
    \/ /\ part = "flat" /\ Next
       /\ UNCHANGED <<part, mem, todo, status, acked, file, torn, maybe, rd,
                      use, does, session, ops, ds, gr, links, newRoot, names,
                      attrs, regrouped, layout, dims, table, buffer, buffered,
                      led, astray, step, ok, par, filt, free, iblk, stats,
                      last, seen, input, newest, pieces, features, pipe,
                      stored, meant, data, float, drop, missing>>
    \/ /\ part = "tiles" /\ Tiled!Next
       /\ UNCHANGED <<part, vars, use, does, session, ops, ds, gr, links,
                      newRoot, names, attrs, regrouped, layout, dims, table,
                      buffer, buffered, led, astray, step, ok, par, filt,
                      free, iblk, stats, last, seen, input, newest, pieces,
                      features, pipe, stored, meant, data, float, drop,
                      missing>>
    \/ /\ part = "bands" /\ Mixed!Next
       /\ UNCHANGED <<part, vars, use, does, session, ops, ds, gr, links,
                      newRoot, names, attrs, regrouped, layout, dims, table,
                      buffer, buffered, led, astray, step, ok, par, filt,
                      free, iblk, stats, last, seen, input, newest, pieces,
                      features, pipe, stored, meant, data, float, drop,
                      missing>>
    \/ /\ part = "tree" /\ Tree!Next
       /\ UNCHANGED <<part, vars, mem, todo, status, acked, torn, maybe, rd,
                      layout, dims, table, buffer, buffered, led, astray,
                      step, ok, par, filt, free, iblk, stats, last, seen,
                      input, newest, pieces, features, pipe, stored, meant,
                      data, float, drop, missing>>
    \/ /\ part = "chunks" /\ DataRows!Next
       /\ UNCHANGED <<part, vars, mem, todo, status, acked, file, torn, maybe,
                      rd, use, ops, ds, gr, links, newRoot, names, attrs,
                      regrouped, par, filt, free, iblk, stats, last, seen,
                      input, newest, pieces, features, pipe, stored, meant,
                      data, float, drop, missing>>
    \/ /\ part = "index" /\ Index!Next
       /\ UNCHANGED <<part, vars, mem, todo, status, acked, torn, maybe, rd,
                      use, does, session, ops, ds, gr, links, newRoot, names,
                      attrs, regrouped, layout, dims, table, buffer, buffered,
                      led, astray, step, ok, input, newest, pieces, features,
                      pipe, stored, meant, data, float, drop, missing>>
    \/ /\ part = "codecs" /\ Codecs!Next
       /\ UNCHANGED <<part, vars, mem, todo, status, acked, file, torn, maybe,
                      rd, use, does, session, ops, ds, gr, links, newRoot,
                      names, attrs, regrouped, layout, dims, table, buffer,
                      buffered, led, astray, step, ok, par, filt, free, iblk,
                      stats, last, seen, features, pipe, stored, meant, data,
                      float, drop, missing>>
    \/ /\ part = "filters" /\ Filters!Next
       /\ UNCHANGED <<part, vars, mem, todo, status, acked, file, torn, maybe,
                      rd, use, does, session, ops, ds, gr, links, newRoot,
                      names, attrs, regrouped, layout, dims, table, buffer,
                      buffered, led, astray, step, ok, par, filt, free, iblk,
                      stats, last, seen, input, newest, pieces, data, float,
                      drop, missing>>
    \/ /\ part = "numbers" /\ Numbers!Next
       /\ UNCHANGED <<part, vars, mem, todo, status, acked, file, torn, maybe,
                      rd, use, does, session, ops, ds, gr, links, newRoot,
                      names, attrs, regrouped, layout, dims, table, buffer,
                      buffered, led, astray, step, ok, par, filt, free, iblk,
                      stats, last, seen, input, newest, pieces, features,
                      pipe, stored, meant>>
    \* Writers and callers may stop at any time.
    \/ UNCHANGED hdf5Vars
\* The process of the writer runs on, and the reader polls again and again,
\* as the documentation of refresh asks.
NotStream == <<part, vars, use, does, session, ops, ds, gr, links, newRoot,
               names, attrs, regrouped, layout, dims, table, buffer, buffered,
               led, astray, step, ok, par, filt, free, iblk, stats, last,
               seen, input, newest, pieces, features, pipe, stored, meant,
               data, float, drop, missing>>
Hdf5Spec == Hdf5Init /\ [][Hdf5Next]_hdf5Vars
    /\ WF_hdf5Vars(part = "tiles" /\ Tiled!WriterIO /\ UNCHANGED NotStream)
    /\ WF_hdf5Vars(part = "tiles" /\ Tiled!Reader /\ UNCHANGED NotStream)

-----------------------------------------------------------------------------
(* A stream, whatever the order of reads and writes and wherever the power *)
(* fails: what a reader takes for a frame is that frame, nothing that a    *)
(* flush acknowledged is missing, and a refresh takes nothing away.        *)
StreamExact ==
    /\ [](part = "tiles" => Tiled!TypeOK /\ Tiled!ReadExact /\ Tiled!CrashSafe)
    /\ [](part = "bands" =>
            /\ Mixed!TypeOK
            /\ Mixed!ReadExact           \* or the fill value in a band that is not full
            /\ Mixed!RefreshSeesFlush    \* every frame flushed before it began
            /\ Mixed!CloseComplete)      \* those of a partial band included
    /\ [][part = "bands" => Mixed!ReaderStep]_hdf5Vars

(* Once the writer pauses, closes or dies, a reader that keeps polling is  *)
(* shown everything a flush had published.                                 *)
EventuallySeen == ([]<>(part = "tiles" /\ todo # <<>>)) \/ <>[](part = "tiles" => Tiled!SeesAll)

(* A tree over several sessions: after each close a reader finds what was  *)
(* asked for, and until the superblock names the new root it, and a crash, *)
(* find the tree of the last close.                                        *)
TreeFaithful ==
    /\ [](part = "tree" =>
            /\ Tree!TypeOK
            /\ Tree!DatasetsFaithful     \* under each of their names, and no other
            /\ Tree!GroupsFaithful       \* of a first session
            /\ Tree!CountsMatch          \* reference counts and links
            /\ Tree!NamesUnique
            /\ Tree!HeadersCurrent)      \* of datasets whose header is kept
    /\ [][part = "tree" => Tree!CommitStep]_hdf5Vars

(* Chunks written, appended and resized in any order: each cell reads as   *)
(* what it was last given, and what is refused changes nothing.  Excepted  *)
(* are the rows that a refused append or the flush of a close may overlay: *)
(* no others are touched by them.                                          *)
ChunksFaithful ==
    /\ [](part = "chunks" =>
            /\ DataRows!TypeOK
            /\ DataRows!ReadBack            \* the fill value where it was given nothing
            /\ DataRows!SliceAgrees         \* a slice is the part it names
            /\ DataRows!CloseSucceeds)      \* after everything that was accepted
    /\ [][part = "chunks" => DataRows!RefusedStep]_hdf5Vars
    /\ [][part = "chunks" => DataRows!ResizeStep]_hdf5Vars

(* The extensible array implements a map: recording a chunk changes what   *)
(* the reader finds for that chunk and no other, a reader that stops early *)
(* has all it needs, and damage is found.                                  *)
IndexIsMap ==
    /\ part = "index" => Index!Map!Init
    /\ [][part = "index" => Index!MapStep]_hdf5Vars
    /\ [](part = "index" =>
            /\ Index!PrefixEnough
            /\ Index!StatsRight                \* the counts of the header
            /\ Index!RightOrRefused)           \* with one field of the file damaged

(* What goes through the filters comes back: every chunk that is stored,   *)
(* through the message that describes the pipeline; every input of the two *)
(* codecs; and numbers within what a quantizer may drop.                   *)
FiltersFaithful ==
    /\ part = "filters" =>
        /\ Filters!ReadsBack
        /\ Filters!Distinguished         \* different chunks are not stored alike
        /\ Filters!MessageReadable
        /\ Filters!MessageV1Readable     \* as others write it
    /\ part = "codecs" =>
        /\ Codecs!LzfRoundTrip
        /\ Codecs!BloscRoundTrip         \* from 16 bytes on
        /\ Codecs!LzfFits                \* lengths and distances in their bits
        /\ Codecs!BloscFits
        /\ Codecs!LzfExpansion           \* a byte for each run at most
    /\ part = "numbers" =>
        /\ Numbers!FletcherExact         \* as without overflow
        /\ Numbers!GroomClose            \* and the second time nothing changes
        /\ Numbers!RoundClose
=============================================================================
