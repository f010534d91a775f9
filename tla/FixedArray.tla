----------------------------- MODULE FixedArray -----------------------------
(***************************************************************************)
(* The fixed array in which a chunked HDF5 dataset without an unlimited    *)
(* dimension keeps the addresses of its chunks: a header, and a data block *)
(* that is one block, or from some size on a prefix with a bitmap of the   *)
(* pages in use and the pages, with a checksum each.                       *)
(*                                                                         *)
(* The array is in memory until it is flushed.  The header and the parts   *)
(* of the data block are rewritten in place and reach the disk one by one; *)
(* while a part is on its way the disk has the part as it was, torn, or as *)
(* it will be.  Chunks are numbered from 0, as are pages.  An address is   *)
(* the number of its allocation.                                           *)
(***************************************************************************)
EXTENDS Integers

CONSTANTS
    Shapes,         \* arrays: the chunks, the elements of a page, the bytes of
                    \* an element, whether there are filters, and the first
                    \* length that the size field of an element cannot hold
    AddrSize,       \* the bytes of an address
    ChunkBytes      \* the bytes of a chunk
\* The library writes pages of 1024 elements, and elements of 8 bytes or more.
ASSUME ShapeAssumption ==
    /\ Shapes \subseteq [n : Nat, page : Nat \ {0}, width : Nat \ {0}, filtered : BOOLEAN, limit : Nat]
    /\ AddrSize \in Nat /\ ChunkBytes \in Nat \ {0}

VARIABLES
    shape,          \* the array
    elements,       \* its elements in memory
    blocks,         \* the header and the data block on disk
    arrayDirty,     \* the parts of them that are being written
    given           \* the chunks that were accepted: their address and length
arrayVars == <<shape, elements, blocks, arrayDirty, given>>

Undef == -1
Smaller(a, b) == IF a < b THEN a ELSE b
Empty == [a |-> Undef, n |-> 0]
Ids == 0..(shape.n - 1)

-----------------------------------------------------------------------------
\* is_paged and npages; a block that is not paged is a page here.
IsPaged(s) == s.n > s.page
NPages(s) == (s.n + s.page - 1) \div s.page
Pages(s) == IF IsPaged(s) THEN 0..(NPages(s) - 1) ELSE {0}
Prefix == -1
Header == -2
Blocks == Pages(shape) \cup {Header} \cup (IF IsPaged(shape) THEN {Prefix} ELSE {})

\* The elements of page p as the writer cuts them.
First(s, p) == p * s.page
End(s, p) == Smaller((p + 1) * s.page, s.n)
IdsOf(s, p) == First(s, p)..(End(s, p) - 1)
\* The number of elements the reader expects in page p.
PageNelmts(s, p) ==
    IF ~IsPaged(s) THEN s.n
    ELSE IF p + 1 = NPages(s) /\ s.n % s.page # 0 THEN s.n % s.page
    ELSE s.page

\* Where page p is, from the start of the data block: behind the prefix,
\* with its bitmap and its checksum, and the pages before it; and where the
\* reader looks for it.
PrefixSize(s) == 6 + AddrSize + (NPages(s) + 7) \div 8 + 4
WrittenAt(s, p) == PrefixSize(s) + First(s, p) * s.width + p * 4
ReadAt(s, p) == PrefixSize(s) + p * (s.page * s.width + 4)
\* fixed_array_dblk_disk_size, and the bytes that are written.
DiskSize(s) ==
    IF IsPaged(s) THEN PrefixSize(s) + s.n * s.width + NPages(s) * 4
    ELSE 6 + AddrSize + s.n * s.width + 4
Encoded(s) ==
    IF IsPaged(s)
    THEN LET p == NPages(s) - 1 IN WrittenAt(s, p) + (End(s, p) - First(s, p)) * s.width + 4
    ELSE 6 + AddrSize + End(s, 0) * s.width + 4

-----------------------------------------------------------------------------
\* The parts as they are encoded: the header has the shape, the prefix the
\* pages in use, a page its elements.
HeaderImage == [sum |-> TRUE, of |-> shape, bits |-> {}, elems |-> <<>>]
\* Mutant of InUse: a page is in use when it is full.
InUseFull(p) == \A i \in IdsOf(shape, p) : elements[i].a # Undef
InUse(p) == \E i \in IdsOf(shape, p) : elements[i].a # Undef
PrefixImage == [sum |-> TRUE, of |-> <<>>, bits |-> {p \in Pages(shape) : InUse(p)}, elems |-> <<>>]
PageImage(p) ==
    [sum |-> TRUE, of |-> <<>>, bits |-> {},
     elems |-> [k \in 0..(End(shape, p) - First(shape, p) - 1) |-> elements[First(shape, p) + k]]]
Image(b) == IF b = Header THEN HeaderImage ELSE IF b = Prefix THEN PrefixImage ELSE PageImage(b)
Torn == [sum |-> FALSE, of |-> <<>>, bits |-> {}, elems |-> <<>>]

-----------------------------------------------------------------------------
\* The reader: the array the header describes, the pages it looks at, whether
\* their checksums are right, and what it finds of chunk i.
Described == blocks[Header].of
PagesRead == IF IsPaged(Described) THEN blocks[Prefix].bits ELSE {0}
PageSound(p) ==
    /\ blocks[p].sum
    /\ DOMAIN blocks[p].elems = 0..(PageNelmts(Described, p) - 1)
ArrayReadable ==
    /\ blocks[Header].sum
    /\ IsPaged(Described) => blocks[Prefix].sum
    /\ \A p \in PagesRead : PageSound(p)
ElementRead(i) ==
    LET p == i \div Described.page IN
    IF IsPaged(Described) /\ p \notin PagesRead THEN Empty
    ELSE blocks[IF IsPaged(Described) THEN p ELSE 0].elems[i - First(Described, p)]
\* The address and the length it reads; without filters chunks are whole.
ChunkRead(i) ==
    LET e == ElementRead(i) IN
    IF e.a = Undef THEN Empty ELSE [a |-> e.a, n |-> IF Described.filtered THEN e.n ELSE ChunkBytes]

-----------------------------------------------------------------------------
\* create_fixed_array_dataset: the header and an empty data block are
\* written; nothing says when they are on disk.
ArrayInit ==
    /\ shape \in Shapes
    /\ elements = [i \in Ids |-> Empty]
    /\ given = [i \in Ids |-> Empty]
    /\ blocks = [b \in Blocks |-> Torn]
    /\ arrayDirty = Blocks

\* What an element has of a chunk at address a with n bytes.
Element(a, n) == [a |-> a, n |-> IF shape.filtered THEN n ELSE 0]
Fits(n) == shape.filtered => n < shape.limit
\* write_chunk_fixed_array, once the chunk is at address a.
Accept(i, a, n) ==
    /\ Fits(n)
    /\ shape.filtered \/ n = ChunkBytes
    /\ elements' = [elements EXCEPT ![i] = Element(a, n)]
    /\ given' = [given EXCEPT ![i] = [a |-> a, n |-> n]]
    /\ UNCHANGED <<shape, blocks, arrayDirty>>

\* flush_dataset: the data block and the header are written.
IssueArray == arrayDirty' = Blocks /\ UNCHANGED <<shape, elements, blocks, given>>
\* A part gets to the disk, or part of it does; what is written over itself
\* does not change.
ArrayWritten(b) ==
    /\ b \in arrayDirty
    /\ blocks' = [blocks EXCEPT ![b] = Image(b)]
    /\ arrayDirty' = arrayDirty \ {b}
    /\ UNCHANGED <<shape, elements, given>>
ArrayTorn(b) ==
    /\ b \in arrayDirty /\ blocks[b] # Image(b)
    /\ blocks' = [blocks EXCEPT ![b] = Torn]
    /\ UNCHANGED <<shape, elements, given, arrayDirty>>
=============================================================================
