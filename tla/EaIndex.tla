------------------------------ MODULE EaIndex -------------------------------
(***************************************************************************)
(* The extensible array in which a chunked HDF5 dataset with one unlimited *)
(* dimension keeps the addresses of its chunks: an index block with the    *)
(* first ones, data blocks, and super blocks with the addresses of data    *)
(* blocks.  Chunks are recorded one at a time in any order, and a reader   *)
(* collects all of them from the blocks.                                   *)
(*                                                                         *)
(* A block is the sequence of its fields, the checksum last; an address is *)
(* a number.  Blocks of pages are made by libhdf5 only and read by both.   *)
(***************************************************************************)
EXTENDS Integers, Sequences, FiniteSets, FiniteSetsExt, SequencesExt

CONSTANTS
    Params,         \* the parameters of an array, and whether libhdf5 makes it
    Filtered,       \* for each, whether its chunks go through filters
    ByteBits,       \* the bits of a byte of a bitmap
    Wanted,         \* the chunks that may be recorded
    MaxAddr         \* bound of the addresses a record may take

VARIABLES par, filt, file, next, iblk, stats,
    last, seen      \* the chunk recorded last, and what a reader of the file finds
vars == <<par, filt, file, next, iblk, stats, last, seen>>

Undef == -1
ChunkSize == 8
Smaller(a, b) == IF a < b THEN a ELSE b
Ceil(a, b) == (a + b - 1) \div b
Log2(n) == CHOOSE k \in 0..n : 2 ^ k <= n /\ n < 2 ^ (k + 1)
PowerOfTwo(n) == n > 0 /\ 2 ^ Log2(n) = n
Times(n, x) == [k \in 1..n |-> x]
\* A sequence in full: TLC evaluates its elements once.
List(s) == <<>> \o s

-----------------------------------------------------------------------------
\* EaGeometry::new.
ValidParams(p) ==
    /\ PowerOfTwo(p.min) /\ PowerOfTwo(p.sup)
    /\ p.bits >= Log2(p.min)
    /\ 2 * Log2(p.sup) <= 1 + p.bits - Log2(p.min)
\* The data blocks of super block u, and the elements of each.
Ndblks(u) == 2 ^ (u \div 2)
DblkNelmts(p, u) == 2 ^ Ceil(u, 2) * p.min
Nsblks(p) == 1 + p.bits - Log2(p.min)
\* Super blocks whose data blocks the index block has the addresses of.
IblockNsblks(p) == 2 * Log2(p.sup)
NdblkAddrs(p) == 2 * (p.sup - 1)
NsblkAddrs(p) == Nsblks(p) - IblockNsblks(p)
StartIdx(p, u) == MapThenSumSet(LAMBDA v : Ndblks(v) * DblkNelmts(p, v), 0..(u - 1))
StartDblk(u) == MapThenSumSet(Ndblks, 0..(u - 1))
Paged(p, u) == DblkNelmts(p, u) > p.page
Npages(p, u) == IF Paged(p, u) THEN DblkNelmts(p, u) \div p.page ELSE 0
PageInitBits(p, u) == Ceil(Npages(p, u), ByteBits) * ByteBits
Capacity(p) == p.idx + StartIdx(p, Nsblks(p))

\* EaGeometry::sblk_index.
SblkIndex(p, i) == Log2((i - p.idx) \div p.min + 1)
\* EaGeometry::locate, of a chunk behind the index block.
Locate(p, i) ==
    LET u == SblkIndex(p, i)
        elmt == i - p.idx - StartIdx(p, u)
        n == DblkNelmts(p, u)
        local == elmt \div n
        direct == u < IblockNsblks(p)
        slot == IF direct THEN StartDblk(u) + local ELSE local IN
    [u |-> u, n |-> n, at |-> elmt % n, direct |-> direct, slot |-> slot, paged |-> Paged(p, u),
     offset |-> StartIdx(p, u) + slot * n, sblk |-> u - IblockNsblks(p), start |-> StartIdx(p, u)]

-----------------------------------------------------------------------------
\* The blocks: a signature, a version, a class, and the address of the header.
Class == IF filt THEN 1 ELSE 0
HeaderAddr == 0
IblkAddr == 1
Sealed(s) == Append(s, [sum |-> s])
\* A block of n fields with its checksum.
Unsealed(s, signature, n) == Len(s) >= n /\ s[1] = signature /\ s[2] = 0 /\ s[n] = [sum |-> SubSeq(s, 1, n - 1)]
Width == IF filt THEN 3 ELSE 1
NoEntry == [a |-> Undef, n |-> 0]
EntryFields(e) == IF filt THEN <<e.a, e.n, 0>> ELSE <<e.a>>
Fields(elems) == LET s == List([k \in DOMAIN elems |-> EntryFields(elems[k])]) IN FlattenSeq(s)
EntryAt(s, at) == IF filt THEN [a |-> s[at], n |-> s[at + 1]] ELSE [a |-> s[at], n |-> ChunkSize]
Entries(s, at, n) == List([k \in 1..n |-> EntryAt(s, at + (k - 1) * Width)])

EncodeHeader(h) ==
    Sealed(<<"EAHD", 0, Class, Width, par.bits, par.idx, par.min, par.sup, par.page,
             h.nsblks, h.ndblks, h.max, h.realized, IblkAddr>>)
DecodeHeader(s) == [ok |-> Unsealed(s, "EAHD", 15), iblk |-> s[14], filtered |-> s[3] = 1]
EncodeIblk(b) == Sealed(<<"EAIB", 0, Class, HeaderAddr>> \o Fields(b.elems) \o b.dblks \o b.sblks)
DecodeIblk(s) ==
    LET e == 4 + par.idx * Width
        d == e + NdblkAddrs(par)
        n == d + NsblkAddrs(par) IN
    [ok |-> Unsealed(s, "EAIB", n + 1), elems |-> Entries(s, 5, par.idx),
     dblks |-> SubSeq(s, e + 1, d), sblks |-> SubSeq(s, d + 1, n)]
EncodeDblk(offset, elems) == Sealed(<<"EADB", 0, Class, HeaderAddr, offset>> \o Fields(elems))
DecodeDblk(s, n) == [ok |-> Unsealed(s, "EADB", 6 + n * Width), elems |-> Entries(s, 6, n)]
EncodeSblk(start, bitmap, addrs) == Sealed(<<"EASB", 0, Class, HeaderAddr, start>> \o bitmap \o addrs)
DecodeSblk(s, n, bits) ==
    [ok |-> Unsealed(s, "EASB", 6 + bits + n), bitmap |-> SubSeq(s, 6, 5 + bits),
     addrs |-> SubSeq(s, 6 + bits, 5 + bits + n)]
\* A data block of pages: its prefix with a checksum, and the pages behind it
\* with one each.
EncodePages(offset, elems) ==
    LET page(k) == Sealed(Fields(SubSeq(elems, (k - 1) * par.page + 1, k * par.page))) IN
    Sealed(<<"EADB", 0, Class, HeaderAddr, offset>>)
        \o (LET s == List([k \in 1..(Len(elems) \div par.page) |-> page(k)]) IN FlattenSeq(s))
PageLen == par.page * Width + 1

-----------------------------------------------------------------------------
Larger(a, b) == IF a < b THEN b ELSE a
\* Blocks are written: the file with the blocks of new at their addresses.
With(f, new) == [a \in DOMAIN f \cup DOMAIN new |-> IF a \in DOMAIN new THEN new[a] ELSE f[a]]
\* write_chunk: the chunk is at `next`, whether or not it can be recorded.
Chunk == [a |-> next, n |-> ChunkSize]
\* The header and the index block as close writes them.
Closed(f, h, b) == With(f, [a \in {HeaderAddr, IblkAddr} |-> IF a = HeaderAddr THEN EncodeHeader(h) ELSE EncodeIblk(b)])

\* record_ea_chunk, of a chunk of the index block.
RecordInIndex(i) ==
    /\ i < par.idx
    /\ iblk' = [iblk EXCEPT !.elems[i + 1] = Chunk]
    /\ stats' = [stats EXCEPT !.max = Larger(@, i + 1), !.realized = Larger(@, par.idx)]
    /\ next' = next + 1
    /\ file' = Closed(file, stats', iblk')
    /\ last' = [i |-> i, a |-> next]

\* The super block and the data block of chunk i as they are, or new.
SblkOf(loc) ==
    LET a == iblk.sblks[loc.sblk + 1]
        bits == IF loc.paged THEN Ndblks(loc.u) * PageInitBits(par, loc.u) ELSE 0 IN
    IF a # Undef THEN [a |-> a, new |-> FALSE, b |-> DecodeSblk(file[a], Ndblks(loc.u), bits)]
    ELSE [a |-> next + 1, new |-> TRUE,
          b |-> [ok |-> TRUE, bitmap |-> Times(bits, 0), addrs |-> Times(Ndblks(loc.u), Undef)]]
\* Mutant of DblkElems: the entries a data block has are not kept.
DblkElemsNew(a, n) == Times(n, NoEntry)
DblkElems(a, n) == IF a = Undef THEN Times(n, NoEntry) ELSE DecodeDblk(file[a], n).elems
PageElems(a, n) ==
    IF a = Undef THEN Times(n, NoEntry)
    ELSE [k \in 1..n |-> EntryAt(file[a], 7 + ((k - 1) \div par.page) * PageLen + ((k - 1) % par.page) * Width)]
\* The block with the entry of chunk i.
DblkWith(loc, a) ==
    LET elems == IF loc.paged THEN PageElems(a, loc.n) ELSE DblkElems(a, loc.n)
        with == [elems EXCEPT ![loc.at + 1] = Chunk] IN
    IF loc.paged THEN EncodePages(loc.offset, with) ELSE EncodeDblk(loc.offset, with)
\* The statistics of the header after chunk i.
Counted(i, sblks, dblks, n) ==
    stats' = [nsblks |-> stats.nsblks + sblks, ndblks |-> stats.ndblks + dblks,
              max |-> Larger(stats.max, i + 1), realized |-> stats.realized + dblks * n]

\* Its data block is in the index block.
RecordDirect(i) ==
    LET loc == Locate(par, i)
        old == iblk.dblks[loc.slot + 1]
        a == IF old = Undef THEN next + 1 ELSE old IN
    /\ i >= par.idx /\ loc.direct /\ ~loc.paged
    /\ iblk' = [iblk EXCEPT !.dblks[loc.slot + 1] = a]
    /\ Counted(i, 0, IF old = Undef THEN 1 ELSE 0, loc.n)
    /\ file' = Closed(With(file, [x \in {a} |-> DblkWith(loc, old)]), stats', iblk')
    /\ next' = next + 2
    /\ last' = [i |-> i, a |-> next]

\* The bit of page k of data block d of super block u.
PageBit(p, u, d, k) == d * Npages(p, u) + k
\* libhdf5 sets the bit of the page.
Marked(bitmap, loc) ==
    IF ~loc.paged THEN bitmap
    ELSE LET bit == loc.slot * Npages(par, loc.u) + loc.at \div par.page IN [bitmap EXCEPT ![bit + 1] = 1]
\* Its data block is in a super block; only libhdf5 makes pages.
RecordViaSblk(i) ==
    LET loc == Locate(par, i)
        s == SblkOf(loc)
        old == s.b.addrs[loc.slot + 1]
        a == IF old = Undef THEN next + 2 ELSE old
        sblk == EncodeSblk(loc.start, Marked(s.b.bitmap, loc), [s.b.addrs EXCEPT ![loc.slot + 1] = a]) IN
    /\ i >= par.idx /\ SblkIndex(par, i) < Nsblks(par) /\ ~loc.direct
    /\ loc.paged => par.foreign
    /\ iblk' = [iblk EXCEPT !.sblks[loc.sblk + 1] = s.a]
    /\ Counted(i, IF s.new THEN 1 ELSE 0, IF old = Undef THEN 1 ELSE 0, loc.n)
    /\ file' = Closed(With(file, [x \in {a, s.a} |-> IF x = a THEN DblkWith(loc, old) ELSE sblk]), stats', iblk')
    /\ next' = next + 3
    /\ last' = [i |-> i, a |-> next]
\* The array has no room, or the block would have pages: the chunk is written
\* and nothing refers to it.
Refuse(i) ==
    /\ i >= par.idx
    /\ SblkIndex(par, i) >= Nsblks(par) \/ (Locate(par, i).paged /\ ~par.foreign)
    /\ next' = next + 1
    /\ UNCHANGED <<file, iblk, stats, last>>

-----------------------------------------------------------------------------
\* collect_ea_chunk_entries.  A data block: the number of entries before it,
\* whether it can be read, and its entries.
DblkEntries(f, u, d, a, bitmap) ==
    LET n == DblkNelmts(par, u)
        b == DecodeDblk(f[a], n)
        page(k) ==
            IF bitmap[PageBit(par, u, d, k) + 1] = 1 THEN Entries(f[a], 7 + k * PageLen, par.page)
            ELSE Times(par.page, NoEntry)
        from == par.idx + StartIdx(par, u) + d * n IN
    IF a = Undef THEN [from |-> from, ok |-> TRUE, e |-> Times(n, NoEntry)]
    ELSE IF Paged(par, u)
    THEN [from |-> from, ok |-> TRUE, e |-> LET s == List([k \in 1..Npages(par, u) |-> page(k - 1)]) IN FlattenSeq(s)]
    ELSE [from |-> from, ok |-> b.ok, e |-> IF b.ok THEN b.elems ELSE <<>>]
\* The data blocks of super block u.
DblksOf(f, ib, u) ==
    LET bits == IF Paged(par, u) THEN Ndblks(u) * PageInitBits(par, u) ELSE 0
        a == ib.sblks[u - IblockNsblks(par) + 1]
        s ==
            IF u < IblockNsblks(par)
            THEN [ok |-> TRUE, addrs |-> SubSeq(ib.dblks, StartDblk(u) + 1, StartDblk(u) + Ndblks(u)), bitmap |-> <<>>]
            ELSE IF a = Undef THEN [ok |-> TRUE, addrs |-> Times(Ndblks(u), Undef), bitmap |-> <<>>]
            ELSE DecodeSblk(f[a], Ndblks(u), bits) IN
    IF ~s.ok THEN {[from |-> par.idx + StartIdx(par, u), ok |-> FALSE, e |-> <<>>]}
    ELSE {DblkEntries(f, u, d - 1, s.addrs[d], s.bitmap) : d \in 1..Ndblks(u)}
\* The entries in file f: those of the index block and of block after block,
\* until there are n.
Collected(f, n) ==
    LET h == DecodeHeader(f[HeaderAddr])
        ib == DecodeIblk(f[IblkAddr])
        read == {b \in UNION {DblksOf(f, ib, u) : u \in 0..(Nsblks(par) - 1)} : b.from < n}
        blocks == {[from |-> 0, ok |-> TRUE, e |-> ib.elems]} \cup read IN
    IF h.ok /\ h.iblk = Undef THEN [ok |-> TRUE, blocks |-> {}]
    ELSE IF ~h.ok \/ ~ib.ok THEN [ok |-> FALSE, blocks |-> {}]
    ELSE [ok |-> \A b \in blocks : b.ok, blocks |-> blocks]

-----------------------------------------------------------------------------
\* The addresses of the chunks in what a reader collected.
Found(c) ==
    [i \in Wanted |->
        LET at == {b \in c.blocks : b.from <= i /\ i < b.from + Len(b.e)} IN
        IF at = {} THEN Undef ELSE LET b == CHOOSE b \in at : TRUE IN b.e[i - b.from + 1].a]

\* ExtensibleArrayHeader::new_for_chunks and the empty index block.
Init ==
    /\ par \in {p \in Params : ValidParams(p)} /\ filt \in Filtered[par]
    /\ iblk = [elems |-> Times(par.idx, NoEntry), dblks |-> Times(NdblkAddrs(par), Undef),
               sblks |-> Times(NsblkAddrs(par), Undef)]
    /\ stats = [nsblks |-> 0, ndblks |-> 0, max |-> 0, realized |-> 0]
    /\ file = [a \in {HeaderAddr, IblkAddr} |-> IF a = HeaderAddr THEN EncodeHeader(stats) ELSE EncodeIblk(iblk)]
    /\ next = 2
    /\ last = [i |-> 0, a |-> Undef]
    /\ seen = Found(Collected(file, Capacity(par)))
Next ==
    /\ \E i \in Wanted : RecordInIndex(i) \/ RecordDirect(i) \/ RecordViaSblk(i) \/ Refuse(i)
    /\ next + 2 <= MaxAddr
    /\ UNCHANGED <<par, filt>>
    /\ seen' = Found(Collected(file', Capacity(par)))
Spec == Init /\ [][Next]_vars

-----------------------------------------------------------------------------
Ids == Wanted \cap 0..(Capacity(par) - 1)
Map == INSTANCE ChunkMap WITH Ids <- Wanted, Addrs <- 2..MaxAddr, map <- seen, last <- last
\* Recording a chunk changes what the reader finds for that chunk, and for no
\* other (record_ea_chunk, collect_ea_chunk_entries).
MapStep == Map!Next \/ UNCHANGED <<seen, last>>
\* A reader that stops when it has the chunks of the dataset has all of them,
\* as the one that reads everything (collect_ea_chunk_entries).
PrefixEnough ==
    \A i \in Ids : LET c == Collected(file, i + 1) IN c.ok /\ Found(c)[i] = seen[i]
\* Field k of block a of the file is damaged on disk.
Hurt(a, k) ==
    [file EXCEPT ![a][k] = IF k = 1 THEN "????" ELSE IF k = Len(file[a]) THEN [sum |-> <<>>] ELSE -2]
\* A reader of a file in which one field is damaged finds the chunks the writer
\* recorded, or finds the damage (the checksums of the decode functions; those of
\* pages are not compared, so that this holds of the blocks the library makes).
RightOrRefused ==
    par.foreign \/ \A a \in DOMAIN file : \A k \in DOMAIN file[a] :
        LET c == Collected(Hurt(a, k), Capacity(par)) IN c.ok => Found(c) = seen
\* The statistics of the header count the blocks there are, and no chunk is
\* at or behind the greatest index (Counted of record_ea_chunk).
StatsRight ==
    /\ stats.ndblks = Cardinality({a \in DOMAIN file : file[a][1] = "EADB"})
    /\ stats.nsblks = Cardinality({a \in DOMAIN file : file[a][1] = "EASB"})
    /\ \A i \in Ids : i >= stats.max => seen[i] = Undef
=============================================================================
