--------------------------- MODULE MCChunkFilters ---------------------------
EXTENDS ChunkFilters

Kind(id, cd) == [id |-> id, flags |-> 0, cd |-> cd]

\* What the constructors of FilterPipeline make, and the filters with
\* parameters, alone and behind each other.
SoundPipelines == {
    <<>>,
    <<Kind(Deflate, <<6>>)>>,
    <<Kind(ShuffleBytes, <<3>>), Kind(Deflate, <<6>>)>>,
    <<Kind(ShuffleBytes, <<4>>), Kind(Fletcher32, <<>>)>>,
    <<Kind(Fletcher32, <<>>), Kind(Lz4, <<>>)>>,
    <<Kind(Lz4, <<4>>)>>,
    <<Kind(Lz4, <<2>>)>>,
    <<Kind(Lz4, <<0>>), Kind(ShuffleBytes, <<2>>)>>,
    <<Kind(32022, <<3, 4>>), Kind(ShuffleBytes, <<4>>), Kind(32015, <<3>>)>>,
    <<Kind(ShuffleBytes, <<2>>), Kind(32000, <<0, 0, 11>>)>>,
    <<Kind(Bitshuffle, <<0, 0, 2, 0, 0>>)>>,
    <<Kind(Bitshuffle, <<0, 0, 1, 4, 3>>)>>,
    <<Kind(Bitshuffle, <<0, 0, 0, 0, 0>>)>>,
    <<Kind(Blosc, <<2, 2, 3, 11, 5, 1, 1>>)>>,
    <<Kind(Blosc, <<2, 2, 1, 11, 5, 0, 4>>), Kind(Fletcher32, <<>>)>>,
    <<Kind(Blosc, <<2, 2, 3, 11, 5, 1>>)>>}
\* Filters that are not in every build, or not made by the library at all.
RefusedPipelines == SoundPipelines \cup {
    <<Kind(ShuffleBytes, <<2>>), Kind(ScaleOffset, <<2, 0>>)>>,
    <<Kind(Blosc, <<2, 2, 3, 11, 5, 1, 6>>)>>,
    <<Kind(32013, <<1>>)>>}
Constant == [p \in 1..ChunkLen |-> 0]
Rising == [p \in 1..ChunkLen |-> p]
Mixed == [p \in 1..ChunkLen |-> IF p <= 4 THEN p ELSE 0]
Other == [p \in 1..ChunkLen |-> p % 2]
Ending == [p \in 1..ChunkLen |-> IF p = ChunkLen THEN 1 ELSE 0]
SomeContents == {Constant, Rising, Mixed, Other, Ending}
\* Contents whose bits are all alike after bitshuffle, block by block: what
\* LZ4 makes no smaller there cannot be read again (filter.rs:1124).
Halves == [p \in 1..ChunkLen |-> IF p <= 8 THEN 3 ELSE p]
\* A build with everything, a small one without threads, and bitshuffle with
\* LZ4, with blocks of the default size and of one element more.
MCBuilds == {
    [features |-> {"deflate", "lz4", "blosc", "zstd", "bzip2", "parallel"},
     pipelines |-> SoundPipelines, contents |-> SomeContents],
    [features |-> {"deflate"}, pipelines |-> RefusedPipelines, contents |-> SomeContents],
    [features |-> {"lz4"},
     pipelines |-> {<<Kind(Bitshuffle, <<0, 0, 2, 0, 2>>)>>, <<Kind(Bitshuffle, <<0, 0, 1, 8, 2>>), Kind(Fletcher32, <<>>)>>},
     contents |-> {Constant, Halves}]}
=============================================================================
