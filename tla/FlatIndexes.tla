---------------------------- MODULE FlatIndexes -----------------------------
(***************************************************************************)
(* A new HDF5 file with two chunked datasets, one of them indexed by a     *)
(* fixed array and one by a v2 B-tree: chunks are written, the indexes     *)
(* flushed, and the file finalized, when it is closed and, if that fails,  *)
(* once more when it is dropped.  What is written gets to the disk in any  *)
(* order, a sync waits for all of it, and the power may fail in any state: *)
(* a reader then opens what is on disk.                                    *)
(***************************************************************************)
EXTENDS FixedArray, BtreeIndex

CONSTANTS
    Lengths,        \* the lengths of the chunks that a caller writes
    MaxAddr         \* bound of the allocations, for each array
ASSUME LengthAssumption == Lengths \subseteq Nat \ {0} /\ MaxAddr \in [Shapes -> Nat]

VARIABLES
    pc,             \* what the writer does
    retried,        \* whether the file is finalized the second time
    next,           \* the next allocation
    fresh,          \* chunks whose data is not on disk yet
    issued,         \* how often the root of the file was written
    roots,          \* which of the roots, and object headers, are on disk
    super,          \* the root that the superblock on disk refers to, 0 for none
    fileDirty       \* which of root and superblock is being written
vars == <<arrayVars, treeVars, pc, retried, next, fresh, issued, roots, super, fileDirty>>
fileVars == <<issued, roots, super, fileDirty>>

Init ==
    /\ ArrayInit /\ TreeInit
    /\ pc = "open" /\ retried = FALSE /\ next = 0 /\ fresh = {}
    /\ issued = 0 /\ roots = {} /\ super = 0 /\ fileDirty = {}

-----------------------------------------------------------------------------
\* The data of a chunk is written behind everything else.
Store == next < MaxAddr[shape] /\ next' = next + 1 /\ fresh' = fresh \cup {next}

\* write_chunk_fixed_array.  A compressed chunk whose length does not fit is
\* refused when its data is in the file already.
WriteFixed(i, n) ==
    /\ pc = "open"
    /\ Store /\ Accept(i, next, n)
    /\ UNCHANGED <<treeVars, pc, retried, fileVars>>
RefuseFixed(n) ==
    /\ pc = "open" /\ ~Fits(n)
    /\ Store
    /\ UNCHANGED <<arrayVars, treeVars, pc, retried, fileVars>>
\* write_chunk_btree_v2.
WriteTree(c) ==
    /\ pc = "open"
    /\ Store /\ Insert(c, next)
    /\ UNCHANGED <<arrayVars, pc, retried, fileVars>>

\* H5Dataset::flush.
FlushArray ==
    /\ pc = "open" /\ pc' = "flush_array" /\ IssueArray
    /\ UNCHANGED <<treeVars, retried, next, fresh, fileVars>>
FlushTree ==
    /\ pc = "open" /\ pc' = "flush_tree"
    /\ next < MaxAddr[shape] /\ IssueTree(next) /\ next' = next + 1
    /\ UNCHANGED <<arrayVars, retried, fresh, fileVars>>
\* sync_data and sync_all: nothing is on its way.
Synced == arrayDirty = {} /\ treeDirty = {} /\ fileDirty = {} /\ fresh = {}
FlushEnds ==
    /\ pc \in {"flush_array", "flush_tree"} /\ Synced /\ pc' = "open"
    /\ UNCHANGED <<arrayVars, treeVars, retried, next, fresh, fileVars>>

\* finalize, from close or from drop: the index of one dataset, the index of
\* the other, then the object headers, the root and the superblock.
Finalize ==
    /\ pc \in {"open", "dropped"} /\ pc' = "close_array"
    /\ retried' = (pc = "dropped")
    /\ IssueArray
    /\ UNCHANGED <<treeVars, next, fresh, fileVars>>
FinalizeTree ==
    /\ pc = "close_array" /\ Synced /\ pc' = "close_tree"
    /\ IssueTree(next) /\ next' = next + 1
    /\ UNCHANGED <<arrayVars, retried, fresh, fileVars>>
FinalizeFile ==
    /\ pc = "close_tree" /\ Synced /\ pc' = "close_file"
    /\ issued' = issued + 1 /\ fileDirty' = {"root", "super"}
    /\ UNCHANGED <<arrayVars, treeVars, retried, next, fresh, roots, super>>
Closed ==
    /\ pc = "close_file" /\ Synced /\ pc' = "closed"
    /\ UNCHANGED <<arrayVars, treeVars, retried, next, fresh, fileVars>>
\* A write or a sync fails, and the call ends there.
Fail ==
    /\ \/ pc \in {"flush_array", "flush_tree"} /\ pc' = "open"
       \/ /\ pc \in {"close_array", "close_tree", "close_file"}
          /\ pc' = IF retried THEN "gone" ELSE "dropped"
    /\ UNCHANGED <<arrayVars, treeVars, retried, next, fresh, fileVars>>

\* Something gets to the disk.
DataWritten(a) ==
    /\ a \in fresh /\ fresh' = fresh \ {a}
    /\ UNCHANGED <<arrayVars, treeVars, pc, retried, next, fileVars>>
RootWritten ==
    /\ "root" \in fileDirty /\ roots' = roots \cup {issued} /\ fileDirty' = fileDirty \ {"root"}
    /\ UNCHANGED <<arrayVars, treeVars, pc, retried, next, fresh, issued, super>>
SuperWritten ==
    /\ "super" \in fileDirty /\ super' = issued /\ fileDirty' = fileDirty \ {"super"}
    /\ UNCHANGED <<arrayVars, treeVars, pc, retried, next, fresh, issued, roots>>
Disk ==
    \/ /\ \/ \E b \in Blocks : ArrayWritten(b) \/ ArrayTorn(b)
       /\ UNCHANGED <<treeVars, pc, retried, next, fresh, fileVars>>
    \/ /\ LeafWritten \/ HeaderWritten \/ HeaderTorn
       /\ UNCHANGED <<arrayVars, pc, retried, next, fresh, fileVars>>
    \/ \E a \in fresh : DataWritten(a)
    \/ RootWritten \/ SuperWritten

Next ==
    \/ \E n \in Lengths : RefuseFixed(n) \/ \E i \in Ids : WriteFixed(i, n)
    \/ \E c \in Coords : WriteTree(c)
    \/ FlushArray \/ FlushTree \/ FlushEnds
    \/ Finalize \/ FinalizeTree \/ FinalizeFile \/ Closed \/ Fail
    \/ Disk
Spec == Init /\ [][Next]_vars

-----------------------------------------------------------------------------
\* The superblock leads to a root, the object headers and the headers of the
\* indexes.
Openable == super # 0 /\ super \in roots
\* What a reader finds of the array is what was accepted, and on disk.
ArrayExact ==
    ArrayReadable /\ \A i \in Ids : ChunkRead(i) = given[i] /\ given[i].a \notin fresh
\* A tree that is not read is being written again; one with more
\* records than 16 bits count cannot be read (btree_v2.rs:808).
TreeExact ==
    Len(records) < CountLimit /\ TreeReadable =>
        \A c \in Coords : PlaceRead(c) = placed[c] /\ placed[c] \notin fresh
(* Wherever the power fails, whatever write fails, and however often the   *)
(* file is finalized: a file that can be opened has in both indexes, for   *)
(* every chunk, the address and the length of the last write that was      *)
(* accepted, and the data is there; a file that was closed can be opened   *)
(* (flush_dataset, finalize, encode_fixed_array_dblk, the decoders).       *)
IndexesExact ==
    /\ Openable => ArrayExact /\ TreeExact
    /\ pc = "closed" => Openable /\ (Len(records) < CountLimit => TreeReadable)
    /\ Encoded(shape) = DiskSize(shape)
    /\ \A p \in Pages(shape) : WrittenAt(shape, p) = ReadAt(shape, p)

-----------------------------------------------------------------------------
\* Small inputs: no chunks, chunks in one block, and pages the last of which is
\* short or, with fewer writes, full.
SmallShapes ==
    {[n |-> n, page |-> 2, width |-> 8, filtered |-> FALSE, limit |-> 0] : n \in {0, 2, 4}}
    \cup {[n |-> n, page |-> 2, width |-> 13, filtered |-> TRUE, limit |-> 3] : n \in {1, 3}}
SmallBound == [s \in SmallShapes |-> IF s.n = 0 THEN 3 ELSE IF s.n = 4 THEN 1 ELSE 2]
=============================================================================
