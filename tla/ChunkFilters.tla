---------------------------- MODULE ChunkFilters ----------------------------
(***************************************************************************)
(* The filter pipeline of a chunked HDF5 dataset: chunks are written       *)
(* through it, one at a time or in batches, and read back through it, and  *)
(* the pipeline itself is stored in a message of the dataset's header.     *)
(*                                                                         *)
(* A byte is a record.  What a compressor of another library makes is      *)
(* opaque: bytes that name the compressor and the input, shorter than the  *)
(* input when that has few different bytes and longer otherwise.  A field  *)
(* of a header is one symbol, whatever its width.  Bits stands for the 8   *)
(* bits of a byte, LeastElems and BlockBytes for the 128 elements and 8192 *)
(* bytes of a bitshuffle block, Byte for the 256 values of a byte.         *)
(*                                                                         *)
(* Left out: SZIP (4), N-bit (5), the undoing of scale-offset (6), and     *)
(* chunks that other writers stored with a filter mask.                    *)
(***************************************************************************)
EXTENDS Integers, Sequences, FiniteSets, SequencesExt

CONSTANTS
    Builds,         \* the features the library is built with, filter pipelines, and
                    \* contents of chunks, which are sequences of numbers
    Chunks,         \* 1..n
    ChunkLen,       \* the length of a chunk of the dataset
    Bits, LeastElems, BlockBytes, Byte, Lz4Limit, MaxFilters

\* Where Bits \in Nat \ {0} /\ Byte \in Nat \ {0} /\ ChunkLen \in Nat.

VARIABLES features, pipe, stored, meant
vars == <<features, pipe, stored, meant>>

Smaller(a, b) == IF a < b THEN a ELSE b
Larger(a, b) == IF a < b THEN b ELSE a
Raw(n) == [c |-> "raw", of |-> <<>>, i |-> n]
Num(n) == [c |-> "num", of |-> <<>>, i |-> n]
Good(s) == [ok |-> TRUE, d |-> s]
Failed == [ok |-> FALSE, d |-> <<>>]
Part(s, at, n) == SubSeq(s, at, at + n - 1)
Blocks(s, n) == [k \in 1..((Len(s) + n - 1) \div n) |-> SubSeq(s, (k - 1) * n + 1, Smaller(k * n, Len(s)))]
\* A filter has an identifier and parameters.
Cd(f, k, default) == IF k < Len(f.cd) THEN f.cd[k + 1] ELSE default

-----------------------------------------------------------------------------
\* A compressor of another library, or of LzCodecs.
Squeeze(codec, s) ==
    LET few == 2 * Cardinality(ToSet(s)) <= Len(s) IN
    [i \in 1..(IF few THEN 1 + Len(s) \div 2 ELSE 1 + Len(s)) |-> [c |-> codec, of |-> s, i |-> i]]
Loosen(codec, t) ==
    IF t # <<>> /\ t[1].c = codec /\ t = Squeeze(codec, t[1].of) THEN Good(t[1].of) ELSE Failed

\* shuffle: the first bytes of all elements, then the second ones, ...
Shuffle(s, size) ==
    LET n == Len(s) \div size IN
    IF size <= 1 \/ Len(s) <= size THEN s
    ELSE [p \in 1..Len(s) |-> IF p > n * size THEN s[p] ELSE s[((p - 1) % n) * size + (p - 1) \div n + 1]]
Unshuffle(s, size) ==
    LET n == Len(s) \div size IN
    IF size <= 1 \/ Len(s) <= size THEN s
    ELSE [p \in 1..Len(s) |-> IF p > n * size THEN s[p] ELSE s[((p - 1) % size) * n + (p - 1) \div size + 1]]

\* A byte and its bits.
BitOf(byte, k) == IF byte.c = "bits" THEN byte.of[k] ELSE [c |-> "bit", of |-> <<byte>>, i |-> k]
OfBits(bits) ==
    LET whole == bits[1].of[1] IN
    IF \A k \in 1..Bits : bits[k] = BitOf(whole, k) THEN whole ELSE [c |-> "bits", of |-> bits, i |-> 0]
\* The bytes whose bits are those of s at the places that source gives.
Moved(s, used, source) ==
    [p \in 1..Len(s) |->
        IF p > used THEN Raw(0)
        ELSE OfBits([k \in 1..Bits |-> LET q == source[(p - 1) * Bits + k - 1] IN
                                       BitOf(s[(q \div Bits) + 1], (q % Bits) + 1)])]
\* bitshuffle_block: the first bits of all elements, then the second ones, ...
BitshuffleBlock(s, size) ==
    LET n == Len(s) \div size IN
    Moved(s, n * size, [q \in 0..(n * size * Bits - 1) |-> (q % n) * size * Bits + q \div n])
\* bitunshuffle_block.
BitunshuffleBlock(s, size) ==
    LET n == Len(s) \div size IN
    Moved(s, n * size, [q \in 0..(n * size * Bits - 1) |-> (q % (size * Bits)) * n + q \div (size * Bits)])

\* The elements of a block: as asked, in whole bytes of bits.
BlockElems(size, asked) ==
    LET elems == IF asked = 0 THEN Larger(LeastElems, BlockBytes \div size) ELSE asked IN
    Larger(Bits, (elems \div Bits) * Bits)
Usable(len, size, elems) == ((len \div size) \div elems) * elems * size
Left(s, used) == SubSeq(s, used + 1, Len(s))
\* bitshuffle_compress.
BitshuffleCompress(s, size, asked, kind) ==
    LET elems == BlockElems(size, asked)
        used == Usable(Len(s), size, elems)
        block(b) ==
            LET d == BitshuffleBlock(b, size)
                c == IF kind = 2 /\ "lz4" \in features THEN Squeeze("lz4", d) ELSE d IN
            IF kind = 0 THEN d ELSE <<Num(Len(c))>> \o c
        head == IF kind = 0 THEN <<>> ELSE <<Num(Len(s)), Num(elems * size)>>
        pieces == Blocks(SubSeq(s, 1, used), elems * size) IN
    IF size = 0 THEN s
    ELSE head \o FlattenSeq([k \in DOMAIN pieces |-> block(pieces[k])]) \o Left(s, used)
\* The blocks of a compressed bitshuffle stream from `at` on, when `done`
\* elements of those that fill blocks are there; then what no block holds.
RECURSIVE BitshuffleFrom(_, _, _, _, _)
BitshuffleFrom(t, at, out, size, done) ==
    LET block == t[2].i \div size
        here == Smaller(block, ((t[1].i \div size) \div block) * block - done)
        n == t[at].i
        piece == Part(t, at + 1, n)
        open == IF "lz4" \in features /\ n < here * size THEN Loosen("lz4", piece) ELSE Good(piece)
        rest(from) == Good(out \o Part(t, from, Smaller(Len(t) - from + 1, Larger(t[1].i - Len(out), 0)))) IN
    IF here = 0 \/ at > Len(t) THEN rest(at)
    ELSE IF at + n > Len(t) THEN rest(at + 1)
    ELSE IF ~open.ok THEN Failed
    ELSE BitshuffleFrom(t, at + 1 + n, out \o BitunshuffleBlock(open.d, size), size, done + here)
\* bitshuffle_decompress.
BitshuffleDecompress(t, size, kind) ==
    LET elems == BlockElems(size, 0)
        used == Usable(Len(t), size, elems)
        pieces == Blocks(SubSeq(t, 1, used), elems * size) IN
    IF kind = 0
    THEN IF size = 0 THEN Good(t)
         ELSE Good(FlattenSeq([k \in DOMAIN pieces |-> BitunshuffleBlock(pieces[k], size)]) \o Left(t, used))
    ELSE IF Len(t) < 2 \/ size = 0 THEN Failed
    ELSE IF t[2].i < size THEN Failed
    ELSE BitshuffleFrom(t, 3, <<>>, size, 0)

-----------------------------------------------------------------------------
\* The LZ4 filter: blocks, each as it is when it cannot be made smaller.
\* Mutant of Lz4Block: a block that does not shrink is compressed all the same.
Lz4BlockAlways(b) == LET c == Squeeze("lz4", b) IN <<Num(Len(c))>> \o c
Lz4Block(b) == LET c == Squeeze("lz4", b) IN IF Len(c) >= Len(b) THEN <<Num(Len(b))>> \o b ELSE <<Num(Len(c))>> \o c
Lz4Compress(s, asked) ==
    LET least == Smaller(asked, Len(s))
        size == IF least = 0 THEN Len(s) ELSE least
        pieces == Blocks(s, size) IN
    <<Num(Len(s)), Num(size)>> \o FlattenSeq([k \in DOMAIN pieces |-> Lz4Block(pieces[k])])
RECURSIVE Lz4From(_, _, _)
Lz4From(t, at, out) ==
    LET len == t[1].i
        n == t[at].i
        exp == Smaller(Smaller(t[2].i, len), len - Len(out))
        piece == Part(t, at + 1, n)
        open == IF n = exp THEN Good(piece) ELSE Loosen("lz4", piece) IN
    IF Len(out) >= len \/ at > Len(t) \/ at + n > Len(t) THEN Good(out)
    ELSE IF ~open.ok THEN Failed
    ELSE Lz4From(t, at + 1 + n, out \o open.d)
Lz4Decompress(t) ==
    IF Len(t) < 2 THEN Failed ELSE IF t[1].i > Lz4Limit THEN Failed ELSE Lz4From(t, 3, <<>>)

\* blosc_compress: a byte for the size of an element.
BloscCodecs == <<"blosclz", "lz4", "lz4", "snappy", "zlib", "zstd">>
BloscNeeds(k) == {"blosc"} \cup (IF k = 4 THEN {"deflate"} ELSE IF k = 5 THEN {"zstd"} ELSE {})
BloscCan(k) == k \in 0..5 /\ BloscNeeds(k) \subseteq features
BloscCompress(s, f) ==
    LET size == Cd(f, 2, 1)
        k == Cd(f, 6, 1)
        shuffled == Cd(f, 5, 1) = 1 IN
    IF ~BloscCan(k) THEN Failed
    ELSE Good(<<Num(IF shuffled THEN 1 ELSE 0), Num(size % Byte), Num(Len(s))>>
              \o Squeeze(BloscCodecs[k + 1], IF shuffled /\ size > 1 THEN Shuffle(s, size) ELSE s))
\* blosc_decompress.
BloscDecompress(t, f) ==
    LET k == Cd(f, 6, 1)
        open == Loosen(BloscCodecs[k + 1], SubSeq(t, 4, Len(t))) IN
    IF Len(t) < 3 \/ ~BloscCan(k) THEN Failed
    ELSE IF ~open.ok THEN Failed
    ELSE Good(IF t[1].i = 1 /\ t[2].i > 1 THEN Unshuffle(open.d, t[2].i) ELSE open.d)

\* The lossy filters round each value once; rounding again changes nothing.
Rounded(s) == [p \in 1..Len(s) |-> IF s[p].c = "round" THEN s[p] ELSE [c |-> "round", of |-> <<s[p]>>, i |-> 0]]

-----------------------------------------------------------------------------
\* One filter, both ways.
Deflate == 1
ShuffleBytes == 2
Fletcher32 == 3
ScaleOffset == 6
Blosc == 32001
Lz4 == 32004
Bitshuffle == 32008
Lossy == {32022, 32023}
\* The filters that are a compressor and nothing else, and what each needs.
Plain == [k \in {Deflate, 307, 32000, 32015} |->
            CASE k = Deflate -> [codec |-> "zlib", needs |-> {"deflate"}]
              [] k = 307 -> [codec |-> "bzip2", needs |-> {"bzip2"}]
              [] k = 32000 -> [codec |-> "lzf", needs |-> {}]
              [] k = 32015 -> [codec |-> "zstd", needs |-> {"zstd"}]]
Checked(s) == Append(s, [c |-> "sum", of |-> s, i |-> 0])
Done(f, s) ==
    CASE f.id \in DOMAIN Plain -> IF Plain[f.id].needs \subseteq features THEN Good(Squeeze(Plain[f.id].codec, s)) ELSE Failed
      [] f.id = ShuffleBytes -> Good(Shuffle(s, Cd(f, 0, 1)))
      [] f.id = Fletcher32 -> Good(Checked(s))
      [] f.id = Lz4 -> IF "lz4" \in features THEN Good(Lz4Compress(s, Cd(f, 0, Len(s)))) ELSE Failed
      [] f.id = Bitshuffle -> Good(BitshuffleCompress(s, Cd(f, 2, 1), Cd(f, 3, 0), Cd(f, 4, 0)))
      [] f.id = Blosc -> BloscCompress(s, f)
      [] f.id \in Lossy -> Good(Rounded(s))
      [] OTHER -> Failed
Undone(f, t) ==
    CASE f.id \in DOMAIN Plain -> IF Plain[f.id].needs \subseteq features THEN Loosen(Plain[f.id].codec, t) ELSE Failed
      [] f.id = ShuffleBytes -> Good(Unshuffle(t, Cd(f, 0, 1)))
      [] f.id = Fletcher32 -> IF t = <<>> THEN Failed ELSE Good(SubSeq(t, 1, Len(t) - 1))
      [] f.id = Lz4 -> IF "lz4" \in features THEN Lz4Decompress(t) ELSE Failed
      [] f.id = Bitshuffle -> BitshuffleDecompress(t, Cd(f, 2, 1), Cd(f, 4, 0))
      [] f.id = Blosc -> BloscDecompress(t, f)
      [] f.id \in Lossy -> Good(t)
      [] OTHER -> Failed
\* apply_filters and reverse_filters: the first failure ends it.
ApplyFilters(p, s) == FoldLeft(LAMBDA a, f : IF a.ok THEN Done(f, a.d) ELSE a, Good(s), p)
ReverseFilters(p, t) == FoldLeft(LAMBDA a, f : IF a.ok THEN Undone(f, a.d) ELSE a, Good(t), Reverse(p))

-----------------------------------------------------------------------------
\* The message: version 2 as the library writes it, version 1 as others do.
Encode(p) ==
    <<2, Len(p)>>
    \o FlattenSeq([k \in DOMAIN p |->
            <<p[k].id>> \o (IF p[k].id >= 256 THEN <<0>> ELSE <<>>) \o <<p[k].flags, Len(p[k].cd)>> \o p[k].cd])
\* A name of n units of 8 bytes, and a field to make the parameters even.
EncodeV1(p, n) ==
    <<1, Len(p), 0>>
    \o FlattenSeq([k \in DOMAIN p |->
            <<p[k].id, n, p[k].flags, Len(p[k].cd)>> \o [u \in 1..n |-> 0] \o p[k].cd
            \o (IF Len(p[k].cd) % 2 = 1 THEN <<0>> ELSE <<>>)])
Bad == [ok |-> FALSE, p |-> <<>>]
Fill(version, n) == IF version = 1 THEN n % 2 ELSE 0
\* The filters of a message from `at` on; a field that is not there is an error.
RECURSIVE DecodeFrom(_, _, _)
DecodeFrom(m, at, p) ==
    LET named == m[1] = 1 \/ m[at] >= 256
        name == IF named THEN m[at + 1] ELSE 0
        here == IF named THEN at + 2 ELSE at + 1
        n == m[here + 1]
        cd == here + 2 + name IN
    IF Len(p) = m[2] THEN [ok |-> TRUE, p |-> p]
    ELSE IF at + 1 > Len(m) \/ here + 1 > Len(m) \/ cd + n + Fill(m[1], n) > Len(m) + 1 THEN Bad
    ELSE DecodeFrom(m, cd + n + Fill(m[1], n), Append(p, [id |-> m[at], flags |-> m[here], cd |-> Part(m, cd, n)]))
\* FilterPipeline::decode.
Decode(m) ==
    IF Len(m) < 2 \/ m[1] \notin {1, 2} \/ m[2] > MaxFilters THEN Bad
    ELSE DecodeFrom(m, IF m[1] = 1 THEN 4 ELSE 3, <<>>)

-----------------------------------------------------------------------------
Nothing == [there |-> FALSE, d |-> <<>>]
Just(s) == [there |-> TRUE, d |-> s]
Bytes(content) == [p \in DOMAIN content |-> Raw(content[p])]

Init ==
    /\ \E build \in Builds : features = build.features /\ pipe \in build.pipelines
    /\ stored = [k \in Chunks |-> Nothing] /\ meant = [k \in Chunks |-> Nothing]

Put(k, d, s) == stored' = [stored EXCEPT ![k] = Just(d)] /\ meant' = [meant EXCEPT ![k] = Just(s)]
\* write_chunk: what does not have the length of a chunk is refused, and so is
\* what a filter cannot take.
WriteChunk(k, s) ==
    LET a == ApplyFilters(pipe, s) IN
    /\ Len(s) = ChunkLen
    /\ a.ok
    /\ Put(k, a.d, s)
    /\ UNCHANGED <<features, pipe>>
\* The chunk of a batch: when a filter fails, the chunk as it is.
BatchChunk(s) == LET a == ApplyFilters(pipe, s) IN IF a.ok THEN a.d ELSE s
\* The chunks of a batch that are stored: in parallel all, whatever a filter
\* makes of them; or one by one those before the first that fails.
Taken(fails) ==
    IF "parallel" \in features /\ pipe # <<>> THEN Chunks ELSE {k \in Chunks : \A j \in fails : k < j}
\* write_chunks_batch.
WriteBatch(batch) ==
    LET taken == Taken({k \in Chunks : Len(batch[k]) # ChunkLen \/ ~ApplyFilters(pipe, batch[k]).ok}) IN
    /\ taken # {}
    /\ stored' = [k \in Chunks |-> IF k \in taken THEN Just(BatchChunk(batch[k])) ELSE stored[k]]
    /\ meant' = [k \in Chunks |-> IF k \in taken THEN Just(batch[k]) ELSE meant[k]]
    /\ UNCHANGED <<features, pipe>>
\* The contents that this build writes through this pipeline.
Inputs == UNION {b.contents : b \in {c \in Builds : features = c.features /\ pipe \in c.pipelines}}
Next ==
    \/ \E k \in Chunks, c \in Inputs : WriteChunk(k, Bytes(c))
    \/ \E batch \in [Chunks -> Inputs] : WriteBatch([k \in Chunks |-> Bytes(batch[k])])
Spec == Init /\ [][Next]_vars

-----------------------------------------------------------------------------
\* The pipeline a reader has is the one of the message.
Reader == Decode(Encode(pipe))
\* What the lossy filters leave of a chunk.
Kept(s) == IF \E f \in ToSet(pipe) : f.id \in Lossy THEN Rounded(s) ELSE s
\* Every chunk that is stored reads back as it was written, through the pipeline
\* of the message (write_chunk, write_chunks_batch, reverse_filters).
ReadsBack ==
    \A k \in Chunks : stored[k].there =>
        ReverseFilters(Reader.p, stored[k].d) = Good(Kept(meant[k].d))
\* Two chunks of different contents are never stored alike, unless a lossy
\* filter made them the same.
Distinguished ==
    \A j, k \in Chunks :
        stored[j].there /\ stored[k].there /\ stored[j].d = stored[k].d => Kept(meant[j].d) = Kept(meant[k].d)
\* The message of every pipeline can be read, in the version the library writes
\* and in the version of the others, with names or without.
MessageReadable == Reader.ok /\ Reader.p = pipe
MessageV1Readable == \A n \in 0..2 : Decode(EncodeV1(pipe, n)) = [ok |-> TRUE, p |-> pipe]
=============================================================================
