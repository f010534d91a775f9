----------------------------- MODULE BtreeIndex -----------------------------
(***************************************************************************)
(* The v2 B-tree in which a chunked HDF5 dataset with several unlimited    *)
(* dimensions keeps the addresses of its chunks.  The library keeps the    *)
(* records in a list and writes all of them into one leaf: each flush into *)
(* a new one, to which the header, rewritten in place, then refers.        *)
(* Internal nodes are made by other libraries only.                        *)
(***************************************************************************)
EXTENDS Integers, Sequences

CONSTANTS
    Coords,         \* the places of chunks in the grid
    CountLimit      \* the first number of records the count of a node cannot hold
\* The count has 16 bits.
ASSUME CountAssumption == CountLimit \in Nat \ {0}

VARIABLES
    records,        \* in memory
    leaf,           \* the address of the leaf that is written, or was
    leaves,         \* the leaves on disk, by address
    header,         \* the header on disk
    treeDirty,      \* which of leaf and header is being written
    placed          \* the chunks that were accepted: their address
treeVars == <<records, leaf, leaves, header, treeDirty, placed>>

NoAddr == -1
Places(s, c) == {k \in DOMAIN s : s[k].c = c}

-----------------------------------------------------------------------------
\* Bt2ChunkIndex::insert: the record of these coordinates, the first in the
\* list, or a new one.
Inserted(s, c, a) ==
    IF Places(s, c) = {} THEN Append(s, [c |-> c, a |-> a])
    ELSE LET k == CHOOSE k \in Places(s, c) : \A j \in Places(s, c) : k <= j IN [s EXCEPT ![k].a = a]

\* Bt2ChunkIndex::encode: the header with the number of records, cut to 16 bits.
HeaderNow == [sum |-> TRUE, root |-> leaf, num |-> Len(records) % CountLimit]

\* create_btree_v2_dataset.
TreeInit ==
    /\ records = <<>> /\ leaf = NoAddr /\ leaves = <<>>
    /\ header = [sum |-> TRUE, root |-> NoAddr, num |-> 0]
    /\ treeDirty = {}
    /\ placed = [c \in Coords |-> NoAddr]

\* write_chunk_btree_v2, once the chunk is at address a.
Insert(c, a) ==
    /\ records' = Inserted(records, c, a)
    /\ placed' = [placed EXCEPT ![c] = a]
    /\ UNCHANGED <<leaf, leaves, header, treeDirty>>

\* flush_dataset: a leaf at address a, and the header that refers to it.
IssueTree(a) ==
    /\ leaf' = a
    /\ treeDirty' = {"leaf", "header"}
    /\ UNCHANGED <<records, leaves, header, placed>>
LeafWritten ==
    /\ "leaf" \in treeDirty
    /\ leaves' = [x \in DOMAIN leaves \cup {leaf} |-> IF x = leaf THEN records ELSE leaves[x]]
    /\ treeDirty' = treeDirty \ {"leaf"}
    /\ UNCHANGED <<records, leaf, header, placed>>
HeaderWritten ==
    /\ "header" \in treeDirty
    /\ header' = HeaderNow
    /\ treeDirty' = treeDirty \ {"header"}
    /\ UNCHANGED <<records, leaf, leaves, placed>>
HeaderTorn ==
    /\ "header" \in treeDirty /\ header # HeaderNow
    /\ header' = [header EXCEPT !.sum = FALSE]
    /\ UNCHANGED <<records, leaf, leaves, treeDirty, placed>>

-----------------------------------------------------------------------------
\* read_chunked_btree_v2: a tree without a root or without records has no
\* chunks; the checksum of a leaf is behind the number of records that the
\* header says it has; of two records of one place the later one wins.
NoRecords == header.root = NoAddr \/ header.num = 0
LeafReadable == header.root \in DOMAIN leaves /\ Len(leaves[header.root]) = header.num
TreeReadable == header.sum /\ (NoRecords \/ LeafReadable)
PlaceRead(c) ==
    LET s == leaves[header.root]
        at == Places(s, c) IN
    IF NoRecords \/ at = {} THEN NoAddr ELSE s[CHOOSE k \in at : \A j \in at : j <= k].a
=============================================================================
