------------------------------ MODULE ChunkMap ------------------------------
(***************************************************************************)
(* What a chunk index promises: it holds one address for each chunk, and   *)
(* recording a chunk changes the address of that chunk and of no other.    *)
(***************************************************************************)
EXTENDS Integers

CONSTANTS
    Ids, Addrs,     \* the chunks and the addresses
    Undef           \* the address of a chunk that is not there

VARIABLES map, last     \* the addresses; the chunk and the address recorded last

Init == map = [i \in Ids |-> Undef] /\ last = [i |-> 0, a |-> Undef]
Record(i, a) == last' = [i |-> i, a |-> a] /\ map' = [map EXCEPT ![i] = a]
Next == \E i \in Ids : \E a \in Addrs : Record(i, a)
Spec == Init /\ [][Next]_<<map, last>>
=============================================================================
