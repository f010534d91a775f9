-------------------------- MODULE ChunkIndexProofs --------------------------
(***************************************************************************)
(* Proofs about FlatIndexes, for arrays and trees of every size: the pages *)
(* of a fixed array are where the reader looks for them, and what a file   *)
(* that can be opened has in its indexes is what was accepted.             *)
(*                                                                         *)
(* The argument: nothing that a reader can reach is written before all of  *)
(* the array is on disk, and then memory does not change any more, so that *)
(* an array that is written again stays as it is, and a header of the tree *)
(* that is whole has the right number and refers to a leaf that, if it is  *)
(* there, has all records.                                                 *)
(***************************************************************************)
EXTENDS FlatIndexes, TLAPS

-----------------------------------------------------------------------------
\* The layout of a paged block.

Shaped(s) == s.n \in Nat /\ s.page \in Nat \ {0} /\ s.width \in Nat \ {0}

\* The number of pages, and which of them has element i.
LEMMA PageCount ==
    ASSUME NEW n \in Nat, NEW d \in Nat \ {0}, NEW q, q = (n + d - 1) \div d
    PROVE  q \in Nat /\ n <= q * d /\ (n > 0 => (q - 1) * d < n /\ q > 0)
BY SMT

LEMMA PageNumber ==
    ASSUME NEW n \in Nat, NEW d \in Nat \ {0}, NEW i \in 0..(n - 1), NEW p, p = i \div d
    PROVE  /\ p \in Nat /\ p * d <= i /\ i < p * d + d
           /\ n <= d => p = 0
           /\ \A q \in Nat : n <= q * d => p < q
<1>1. p \in Nat /\ p * d <= i /\ i < p * d + d
  BY SMT
<1>2. n <= d => p = 0
  BY SMT
<1>3. ASSUME NEW q \in Nat, n <= q * d, q <= p PROVE FALSE
  <2>1. q * d <= p * d
    BY <1>1, <1>3, SMT
  <2>. QED
    BY <1>1, <1>3, <2>1, SMT
<1>. QED
  BY <1>1, <1>2, <1>3, SMT

\* Where page p ends, and how many elements are left for the last.
Needed(n, d, q) == q \in Nat \ {0} /\ n <= q * d /\ (q - 1) * d < n
Ends(n, d, q, p, f) ==
    /\ f \in Nat /\ (p + 1) * d = f + d
    /\ p + 1 # q => f + d < n
    /\ p + 1 = q => f < n /\ n <= f + d /\ n % d = IF n = f + d THEN 0 ELSE n - f
LEMMA PageEnd ==
    ASSUME NEW n \in Nat \ {0}, NEW d \in Nat \ {0}, NEW q, Needed(n, d, q),
           NEW p \in 0..(q - 1), NEW f, f = p * d
    PROVE  Ends(n, d, q, p, f)
<1>. USE DEF Needed
<1>1. f \in Nat /\ (p + 1) * d = f + d
  BY SMT
<1>2. ASSUME p + 1 # q PROVE f + d < n
  <2>1. (p + 1) * d <= (q - 1) * d
    BY <1>2, SMT
  <2>. QED
    BY <1>1, <2>1, SMT
<1>3. ASSUME p + 1 = q PROVE f < n /\ n <= f + d
  BY <1>1, <1>3, SMT
<1>4. ASSUME p + 1 = q, n = f + d PROVE n % d = 0
  <2>1. n = q * d
    BY <1>1, <1>4
  <2>. QED
    BY <2>1, SMT
<1>5. ASSUME p + 1 = q, n < f + d PROVE n % d = n - f
  <2>1. n = d * (n \div d) + (n % d) /\ n % d \in 0..(d - 1) /\ n \div d \in Nat
    BY SMT
  <2>2. p * d <= n /\ n < (p + 1) * d
    BY <1>1, <1>3, <1>5
  <2>3. n \div d = p
    BY <2>2, SMT
  <2>. QED
    BY <2>1, <2>3, SMT
<1>. QED
  BY <1>1, <1>2, <1>3, <1>4, <1>5, SMT DEF Ends

LEMMA PageOf ==
    ASSUME NEW s, Shaped(s), NEW i \in 0..(s.n - 1), NEW p, p = i \div s.page
    PROVE  /\ p \in Nat /\ First(s, p) <= i /\ i < First(s, p) + s.page
           /\ ~IsPaged(s) => p = 0
           /\ IsPaged(s) => p \in Pages(s)
<1>. DEFINE q == NPages(s)
<1>1. s.n \in Nat /\ s.page \in Nat \ {0}
  BY DEF Shaped
<1>2. q \in Nat /\ s.n <= q * s.page
  BY <1>1, PageCount DEF NPages
<1>. HIDE DEF q
<1>3. /\ p \in Nat /\ p * s.page <= i /\ i < p * s.page + s.page
      /\ s.n <= s.page => p = 0
      /\ p < q
  BY <1>1, <1>2, PageNumber
<1>. USE DEF q
<1>. QED
  BY <1>1, <1>2, <1>3 DEF First, Pages, IsPaged

\* A page has as many elements as the reader expects.
LEMMA PageLengths ==
    ASSUME NEW s, Shaped(s), NEW p \in Pages(s)
    PROVE  /\ p \in Nat /\ First(s, p) \in Nat /\ End(s, p) \in Nat /\ End(s, p) <= s.n
           /\ End(s, p) = Smaller(First(s, p) + s.page, s.n)
           /\ End(s, p) - First(s, p) = PageNelmts(s, p)
           /\ IsPaged(s) /\ p + 1 = NPages(s) => End(s, p) = s.n
<1>0. s.n \in Nat /\ s.page \in Nat \ {0}
  BY DEF Shaped
<1>1. CASE ~IsPaged(s)
  <2>1. p = 0
    BY <1>1 DEF Pages
  <2>2. First(s, p) = 0 /\ PageNelmts(s, p) = s.n
    BY <1>0, <1>1, <2>1 DEF First, PageNelmts
  <2>3. End(s, p) = Smaller(s.page, s.n)
    BY <1>0, <2>1 DEF End
  <2>. QED
    BY <1>0, <1>1, <2>1, <2>2, <2>3 DEF Smaller, IsPaged
<1>2. CASE IsPaged(s)
  <2>. DEFINE q == NPages(s)
              f == First(s, p)
              n == s.n
              d == s.page
  <2>0. n \in Nat \ {0} /\ d \in Nat \ {0} /\ q = (n + d - 1) \div d
    BY <1>0, <1>2 DEF IsPaged, NPages
  <2>2. p \in 0..(q - 1) /\ f = p * d
    BY <1>2 DEF Pages, First
  <2>3. End(s, p) = IF (p + 1) * d < n THEN (p + 1) * d ELSE n
    BY DEF End, Smaller
  <2>4. PageNelmts(s, p) = IF p + 1 = q /\ n % d # 0 THEN n % d ELSE d
    BY <1>2 DEF PageNelmts
  <2>. HIDE DEF q, f, n, d
  <2>5. q \in Nat \ {0} /\ n <= q * d /\ (q - 1) * d < n
    <3>1. n \in Nat /\ n > 0
      BY <2>0
    <3>2. q \in Nat /\ n <= q * d /\ (n > 0 => (q - 1) * d < n /\ q > 0)
      BY <2>0, <3>1, PageCount
    <3>. QED
      BY <3>1, <3>2
  <2>6. Ends(n, d, q, p, f)
    <3>1. Needed(n, d, q)
      BY <2>5 DEF Needed
    <3>. QED
      BY <2>0, <2>2, <3>1, PageEnd
  <2>7. /\ p \in Nat /\ f \in Nat /\ End(s, p) \in Nat /\ End(s, p) <= n
        /\ End(s, p) = IF f + d < n THEN f + d ELSE n
        /\ End(s, p) - f = PageNelmts(s, p)
        /\ p + 1 = q => End(s, p) = n
    BY <2>0, <2>2, <2>3, <2>4, <2>5, <2>6 DEF Ends
  <2>. QED
    BY <2>7 DEF q, f, n, d, Smaller
<1>. QED
  BY <1>1, <1>2

LEMMA Regrouped ==
    ASSUME NEW f \in Nat, NEW n \in Nat, NEW w \in Nat, NEW q \in Nat, NEW x \in Int
    PROVE  x + f * w + (q - 1) * 4 + (n - f) * w + 4 = x + n * w + q * 4
<1>1. f * w + (n - f) * w = n * w
  BY SMT
<1>2. f * w \in Int /\ (n - f) * w \in Int /\ n * w \in Int
  BY SMT
<1>. QED
  BY <1>1, <1>2, SMT

(* The pages of a block are written where the reader looks for them, and   *)
(* fill the space that was allocated for the block (fixed_array_dblk_disk_ *)
(* size, encode_fixed_array_dblk, the reader).                             *)
THEOREM LayoutExact ==
    ASSUME NEW s \in Shapes
    PROVE  /\ Encoded(s) = DiskSize(s)
           /\ \A p \in Pages(s) : WrittenAt(s, p) = ReadAt(s, p)
<1>1. Shaped(s) /\ AddrSize \in Nat
  BY ShapeAssumption DEF Shaped
<1>2. ASSUME NEW p \in Pages(s) PROVE WrittenAt(s, p) = ReadAt(s, p)
  <2>1. p \in Nat
    BY <1>1, PageLengths
  <2>2. (p * s.page) * s.width + p * 4 = p * (s.page * s.width + 4)
    BY <1>1, <2>1 DEF Shaped
  <2>. HIDE DEF PrefixSize
  <2>3. PrefixSize(s) \in Int
    <3>1. NPages(s) \in Nat
      BY <1>1, PageCount DEF NPages, Shaped
    <3>. QED
      BY <1>1, <3>1, SMT DEF PrefixSize
  <2>. QED
    BY <1>1, <2>1, <2>2, <2>3, SMT DEF WrittenAt, ReadAt, First, Shaped
<1>3. Encoded(s) = DiskSize(s)
  <2>0. s.n \in Nat /\ s.page \in Nat \ {0} /\ s.width \in Nat \ {0}
    BY <1>1 DEF Shaped
  <2>1. CASE ~IsPaged(s)
    BY <2>0, <2>1 DEF Encoded, DiskSize, End, Smaller, IsPaged
  <2>2. CASE IsPaged(s)
    <3>. DEFINE q == NPages(s)
                p == q - 1
                f == First(s, p)
                x == PrefixSize(s)
    <3>1. q \in Nat \ {0}
      <4>1. s.n > 0 /\ q = (s.n + s.page - 1) \div s.page
        BY <2>0, <2>2 DEF IsPaged, NPages
      <4>. HIDE DEF q
      <4>2. q \in Nat /\ (s.n > 0 => q > 0)
        BY <2>0, <4>1, PageCount
      <4>. QED
        BY <4>1, <4>2
    <3>2. p \in Pages(s)
      BY <2>2, <3>1 DEF Pages
    <3>3. f \in Nat /\ End(s, p) = s.n
      BY <1>1, <2>2, <3>1, <3>2, PageLengths
    <3>4. Encoded(s) = x + f * s.width + p * 4 + (s.n - f) * s.width + 4
      BY <2>2, <3>3 DEF Encoded, WrittenAt
    <3>5. DiskSize(s) = x + s.n * s.width + q * 4
      BY <2>2 DEF DiskSize
    <3>6. x \in Int
      BY <1>1, <3>1, SMT DEF PrefixSize
    <3>. HIDE DEF f, x, q
    <3>. QED
      BY <2>0, <3>1, <3>3, <3>4, <3>5, <3>6, Regrouped
  <2>. QED
    BY <2>1, <2>2
<1>. QED
  BY <1>2, <1>3

-----------------------------------------------------------------------------
\* The inductive invariant.

Addr == Nat
Cell == [a : Addr \cup {Undef}, n : Nat]
Phase == {"open", "flush_array", "flush_tree", "close_array", "close_tree",
          "close_file", "closed", "dropped", "gone"}

ArrayTypes ==
    /\ shape \in Shapes
    /\ elements \in [Ids -> Cell] /\ given \in [Ids -> Cell]
    /\ blocks = [b \in Blocks |-> blocks[b]]
    /\ arrayDirty \subseteq Blocks
TreeTypes ==
    /\ records \in Seq([c : Coords, a : Addr])
    /\ leaf \in Addr \cup {NoAddr}
    /\ leaves = [x \in DOMAIN leaves |-> leaves[x]]
    /\ header \in [sum : BOOLEAN, root : Addr \cup {NoAddr}, num : Nat]
    /\ treeDirty \subseteq {"leaf", "header"}
    /\ placed \in [Coords -> Addr \cup {NoAddr}]
FileTypes ==
    /\ pc \in Phase /\ retried \in BOOLEAN
    /\ next \in Nat /\ fresh \subseteq Addr
    /\ issued \in Nat /\ super \in Nat /\ roots \subseteq Nat
    /\ fileDirty \subseteq {"root", "super"}

\* What is in memory agrees with what was accepted.
Kept ==
    \A i \in Ids :
        \/ elements[i] = Empty /\ given[i] = Empty
        \/ /\ given[i].a \in Addr /\ elements[i] = Element(given[i].a, given[i].n)
           /\ shape.filtered \/ given[i].n = ChunkBytes
Recorded ==
    /\ \A j, k \in DOMAIN records : records[j].c = records[k].c => j = k
    /\ \A k \in DOMAIN records : placed[records[k].c] = records[k].a
    /\ \A c \in Coords : placed[c] # NoAddr => \E k \in DOMAIN records : records[k].c = c
\* Leaves are never written over.
Allocated ==
    /\ leaf < next /\ (treeDirty # {} => leaf \in Addr)
    /\ \A x \in DOMAIN leaves : x \in Addr /\ x < next

\* From here on memory does not change, and all of the array is on disk.
Frozen == issued > 0 \/ pc \in {"close_tree", "close_file", "closed"}
LeafRight == leaf \in DOMAIN leaves => leaves[leaf] = records
HeaderRight ==
    header.sum =>
        /\ header.root # NoAddr /\ header.num = Len(records) % CountLimit
        /\ header.root \in DOMAIN leaves => leaves[header.root] = records
ArrayWhole == \A b \in Blocks : blocks[b] = Image(b)

Order ==
    /\ issued > 0 => pc \notin {"open", "flush_array", "flush_tree"}
    /\ pc \in {"close_file", "closed"} => issued > 0
    /\ pc = "closed" => Synced
ArrayOnDisk ==
    /\ pc = "close_array" => \A b \in Blocks \ arrayDirty : blocks[b] = Image(b)
    /\ Frozen => ArrayWhole /\ fresh = {}
TreeOnDisk ==
    /\ Frozen => leaf \in Addr /\ LeafRight
    /\ issued > 0 => HeaderRight
    /\ pc = "close_tree" =>
        /\ "leaf" \notin treeDirty => leaf \in DOMAIN leaves
        /\ "header" \notin treeDirty => header = HeaderNow
    /\ pc \in {"close_file", "closed"} =>
        treeDirty = {} /\ leaf \in DOMAIN leaves /\ header = HeaderNow
FileOnDisk ==
    /\ super <= issued /\ \A r \in roots : r <= issued
    /\ pc = "close_file" =>
        /\ "root" \notin fileDirty => issued \in roots
        /\ "super" \notin fileDirty => super = issued
    /\ pc = "closed" => super = issued /\ issued \in roots

IInv ==
    /\ ArrayTypes /\ TreeTypes /\ FileTypes
    /\ Kept /\ Recorded /\ Allocated
    /\ Order /\ ArrayOnDisk /\ TreeOnDisk /\ FileOnDisk

-----------------------------------------------------------------------------
\* Initially nothing was accepted and nothing is on disk.

LEMMA Initially == Init => IInv
<1>. SUFFICES ASSUME Init PROVE IInv
  OBVIOUS
<1>. USE DEF Init, ArrayInit, TreeInit
<1>1. ArrayTypes /\ Kept
  <2>1. Empty \in Cell
    BY DEF Empty, Cell, Undef
  <2>. QED
    BY <2>1 DEF ArrayTypes, Kept
<1>2. TreeTypes /\ Recorded /\ Allocated
  <2>1. records \in Seq([c : Coords, a : Addr]) /\ DOMAIN records = {}
    OBVIOUS
  <2>2. leaves = [x \in DOMAIN leaves |-> leaves[x]] /\ DOMAIN leaves = {}
    OBVIOUS
  <2>3. header \in [sum : BOOLEAN, root : Addr \cup {NoAddr}, num : Nat]
    OBVIOUS
  <2>4. placed \in [Coords -> Addr \cup {NoAddr}] /\ \A c \in Coords : placed[c] = NoAddr
    OBVIOUS
  <2>. QED
    BY <2>1, <2>2, <2>3, <2>4 DEF TreeTypes, Recorded, Allocated, NoAddr
<1>3. FileTypes /\ FileOnDisk
  <2>1. pc = "open" /\ retried = FALSE
    OBVIOUS
  <2>2. next = 0 /\ fresh = {} /\ issued = 0 /\ super = 0 /\ roots = {} /\ fileDirty = {}
    OBVIOUS
  <2>3. FileTypes
    <3>1. pc \in Phase /\ retried \in BOOLEAN
      BY <2>1, Zenon DEF Phase
    <3>2. next \in Nat /\ fresh \subseteq Addr /\ issued \in Nat /\ super \in Nat
          /\ roots \subseteq Nat /\ fileDirty \subseteq {"root", "super"}
      BY <2>2
    <3>. QED
      BY <3>1, <3>2 DEF FileTypes
  <2>. QED
    BY <2>1, <2>2, <2>3 DEF FileOnDisk
<1>4. issued = 0 /\ pc = "open"
  OBVIOUS
<1>5. Order /\ ArrayOnDisk /\ TreeOnDisk
  BY <1>4 DEF Order, ArrayOnDisk, TreeOnDisk, Frozen
<1>. QED
  BY <1>1, <1>2, <1>3, <1>5 DEF IInv

-----------------------------------------------------------------------------
\* What does not change.

LEMMA ArraySame ==
    ASSUME ArrayTypes, Kept, UNCHANGED arrayVars
    PROVE  /\ ArrayTypes' /\ Kept' /\ Ids' = Ids /\ Blocks' = Blocks
           /\ (\A b : Image(b)' = Image(b)) /\ ArrayWhole' = ArrayWhole
BY DEF arrayVars, ArrayTypes, Kept, Ids, Blocks, Pages, IsPaged, NPages, Element, Image, ArrayWhole,
       HeaderImage, PrefixImage, PageImage, InUse, IdsOf, First, End

LEMMA TreeSame ==
    ASSUME TreeTypes, Recorded, UNCHANGED treeVars
    PROVE  /\ TreeTypes' /\ Recorded' /\ LeafRight' = LeafRight
           /\ HeaderRight' = HeaderRight /\ HeaderNow' = HeaderNow
BY DEF treeVars, TreeTypes, Recorded, LeafRight, HeaderRight, HeaderNow

LEMMA AddressesSame ==
    ASSUME TreeTypes, Allocated, next \in Nat, UNCHANGED <<leaf, leaves, treeDirty>>, next' \in Nat, next <= next'
    PROVE  Allocated'
BY DEF TreeTypes, Allocated, Addr, NoAddr

\* While the file is open nothing of it can be reached.
LEMMA OpenIsHidden ==
    ASSUME IInv, pc \in {"open", "flush_array", "flush_tree"}
    PROVE  issued = 0 /\ super = 0
BY DEF IInv, Order, FileTypes, FileOnDisk

-----------------------------------------------------------------------------
\* Chunks are written.

LEMMA StoreKeeps ==
    ASSUME IInv, pc = "open", Store, UNCHANGED <<pc, retried, fileVars>>
    PROVE  /\ FileTypes' /\ FileOnDisk' /\ Order' /\ ArrayOnDisk' /\ TreeOnDisk'
           /\ next \in Nat /\ next' = next + 1
<1>1. FileTypes' /\ FileOnDisk' /\ next \in Nat /\ next' = next + 1
  BY DEF IInv, FileTypes, FileOnDisk, Store, fileVars, Addr
<1>2. issued' = 0 /\ pc' = "open"
  BY OpenIsHidden DEF fileVars
<1>3. (Order /\ ArrayOnDisk /\ TreeOnDisk)'
  BY <1>2 DEF Order, ArrayOnDisk, TreeOnDisk, Frozen
<1>. QED
  BY <1>1, <1>3

LEMMA WriteFixedKeeps ==
    ASSUME IInv, NEW i \in Ids, NEW n \in Lengths, WriteFixed(i, n)
    PROVE  IInv'
<1>1. /\ FileTypes' /\ FileOnDisk' /\ Order' /\ ArrayOnDisk' /\ TreeOnDisk'
      /\ next \in Nat /\ next' = next + 1
  BY StoreKeeps DEF WriteFixed
<1>2. TreeTypes' /\ Recorded' /\ Allocated'
  BY <1>1, TreeSame, AddressesSame DEF IInv, WriteFixed, treeVars
<1>3. n \in Nat /\ shape \in Shapes /\ shape' = shape /\ Ids' = Ids /\ Blocks' = Blocks
  BY LengthAssumption DEF IInv, ArrayTypes, WriteFixed, Accept, Ids, Blocks, Pages, IsPaged, NPages
<1>4. elements' = [elements EXCEPT ![i] = Element(next, n)] /\ given' = [given EXCEPT ![i] = [a |-> next, n |-> n]]
      /\ (shape.filtered \/ n = ChunkBytes) /\ UNCHANGED <<blocks, arrayDirty>>
  BY DEF WriteFixed, Accept
<1>5. Element(next, n) \in Cell /\ [a |-> next, n |-> n] \in Cell
  BY <1>1, <1>3 DEF Element, Cell, Addr
<1>6. ArrayTypes'
  BY <1>3, <1>4, <1>5 DEF IInv, ArrayTypes
<1>7. \A a, m : Element(a, m)' = Element(a, m)
  BY <1>3 DEF Element
<1>8. Kept'
  <2>. SUFFICES ASSUME NEW j \in Ids
                PROVE  \/ elements'[j] = Empty /\ given'[j] = Empty
                       \/ /\ given'[j].a \in Addr /\ elements'[j] = Element(given'[j].a, given'[j].n)
                          /\ shape.filtered \/ given'[j].n = ChunkBytes
    BY <1>3 DEF Kept, Element
  <2>1. CASE j = i
    BY <1>1, <1>4, <2>1 DEF IInv, ArrayTypes, Addr
  <2>2. CASE j # i
    BY <1>4, <2>2 DEF IInv, ArrayTypes, Kept
  <2>. QED
    BY <2>1, <2>2
<1>. QED
  BY <1>1, <1>2, <1>6, <1>8 DEF IInv

LEMMA RefuseFixedKeeps ==
    ASSUME IInv, NEW n \in Lengths, RefuseFixed(n)
    PROVE  IInv'
<1>1. /\ FileTypes' /\ FileOnDisk' /\ Order' /\ ArrayOnDisk' /\ TreeOnDisk'
      /\ next \in Nat /\ next' = next + 1
  BY StoreKeeps DEF RefuseFixed
<1>2. TreeTypes' /\ Recorded' /\ Allocated'
  BY <1>1, TreeSame, AddressesSame DEF IInv, RefuseFixed, treeVars
<1>3. ArrayTypes' /\ Kept'
  BY ArraySame DEF IInv, RefuseFixed
<1>. QED
  BY <1>1, <1>2, <1>3 DEF IInv

Unique(s) == \A j, k \in DOMAIN s : s[j].c = s[k].c => j = k
Record == [c : Coords, a : Addr]

\* The list of records is a map from places to addresses.
LEMMA InsertedRight ==
    ASSUME NEW s \in Seq(Record), Unique(s), NEW c \in Coords, NEW a \in Addr,
           NEW t, t = Inserted(s, c, a)
    PROVE  /\ t \in Seq(Record) /\ Unique(t) /\ DOMAIN s \subseteq DOMAIN t
           /\ \A k \in DOMAIN s : t[k].c = s[k].c /\ (s[k].c # c => t[k] = s[k])
           /\ \A k \in DOMAIN t : t[k].c # c => k \in DOMAIN s
           /\ \A k \in DOMAIN t : t[k].c = c => t[k].a = a
           /\ \E k \in DOMAIN t : t[k].c = c
<1>1. CASE Places(s, c) = {}
  <2>. DEFINE r == [c |-> c, a |-> a]
  <2>1. t = Append(s, r) /\ \A k \in DOMAIN s : s[k].c # c
    BY <1>1 DEF Inserted, Places
  <2>2. r \in Record /\ r.c = c /\ r.a = a
    BY DEF Record
  <2>. HIDE DEF r
  <2>3. t \in Seq(Record) /\ Len(t) = Len(s) + 1 /\ t[Len(s) + 1] = r
        /\ \A k \in 1..Len(s) : t[k] = s[k]
    BY <2>1, <2>2
  <2>4. DOMAIN s = 1..Len(s) /\ DOMAIN t = 1..(Len(s) + 1) /\ Len(s) \in Nat
    BY <2>3
  <2>. QED
    BY <2>1, <2>2, <2>3, <2>4 DEF Unique
<1>2. CASE Places(s, c) # {}
  <2>. DEFINE k == CHOOSE k \in Places(s, c) : \A j \in Places(s, c) : k <= j
  <2>1. k \in DOMAIN s /\ s[k].c = c
    <3>1. PICK m \in Places(s, c) : TRUE
      BY <1>2
    <3>2. m \in Nat /\ \A j \in Places(s, c) : j = m
      BY <3>1 DEF Places, Unique
    <3>3. \E m2 \in Places(s, c) : \A j \in Places(s, c) : m2 <= j
      BY <3>1, <3>2
    <3>4. k \in Places(s, c)
      BY <3>3
    <3>. QED
      BY <3>4 DEF Places
  <2>2. t = [s EXCEPT ![k].a = a]
    BY <1>2 DEF Inserted
  <2>. HIDE DEF k
  <2>3. t = [s EXCEPT ![k] = [s[k] EXCEPT !.a = a]]
    BY <2>1, <2>2
  <2>. DEFINE r == [s[k] EXCEPT !.a = a]
  <2>4. r \in Record /\ r.c = c /\ r.a = a
    <3>1. s[k] \in Record
      BY <2>1
    <3>. QED
      BY <2>1, <3>1 DEF Record
  <2>5. t = [s EXCEPT ![k] = r]
    BY <2>3
  <2>. HIDE DEF r
  <2>7. t \in Seq(Record) /\ DOMAIN t = DOMAIN s /\ t[k] = r
        /\ \A j \in DOMAIN s : j # k => t[j] = s[j]
    BY <2>1, <2>4, <2>5
  <2>6. \A j \in DOMAIN s : s[j].c = c => j = k
    BY <2>1 DEF Unique
  <2>. QED
    BY <2>1, <2>4, <2>6, <2>7 DEF Unique
<1>. QED
  BY <1>1, <1>2

LEMMA WriteTreeKeeps ==
    ASSUME IInv, NEW c \in Coords, WriteTree(c)
    PROVE  IInv'
<1>1. /\ FileTypes' /\ FileOnDisk' /\ Order' /\ ArrayOnDisk' /\ TreeOnDisk'
      /\ next \in Nat /\ next' = next + 1
  BY StoreKeeps DEF WriteTree
<1>2. ArrayTypes' /\ Kept'
  BY ArraySame DEF IInv, WriteTree
<1>3. records \in Seq(Record) /\ Unique(records) /\ next \in Addr
      /\ records' = Inserted(records, c, next) /\ placed' = [placed EXCEPT ![c] = next]
      /\ UNCHANGED <<leaf, leaves, header, treeDirty>>
  BY <1>1 DEF IInv, TreeTypes, Recorded, Record, Unique, WriteTree, Insert, Addr
<1>4. Allocated'
  BY <1>1, <1>3, AddressesSame DEF IInv
<1>. DEFINE t == records'
<1>5. /\ t \in Seq(Record) /\ Unique(t) /\ DOMAIN records \subseteq DOMAIN t
      /\ \A k \in DOMAIN records : t[k].c = records[k].c /\ (records[k].c # c => t[k] = records[k])
      /\ \A k \in DOMAIN t : t[k].c # c => k \in DOMAIN records
      /\ \A k \in DOMAIN t : t[k].c = c => t[k].a = next
      /\ \E k \in DOMAIN t : t[k].c = c
  BY <1>3, InsertedRight
<1>6. TreeTypes'
  <2>1. records' \in Seq([c : Coords, a : Addr])
    BY <1>5 DEF Record
  <2>2. placed' \in [Coords -> Addr \cup {NoAddr}]
    BY <1>3 DEF IInv, TreeTypes
  <2>3. leaves' = [x \in DOMAIN leaves' |-> leaves'[x]]
    BY <1>3 DEF IInv, TreeTypes
  <2>4. leaf' \in Addr \cup {NoAddr} /\ treeDirty' \subseteq {"leaf", "header"}
        /\ header' \in [sum : BOOLEAN, root : Addr \cup {NoAddr}, num : Nat]
    BY <1>3 DEF IInv, TreeTypes
  <2>. QED
    BY <2>1, <2>2, <2>3, <2>4 DEF TreeTypes
<1>7. Recorded'
  <2>. HIDE DEF t
  <2>1. placed \in [Coords -> Addr \cup {NoAddr}] /\ \A k \in DOMAIN t : t[k].c \in Coords
    <3>1. placed \in [Coords -> Addr \cup {NoAddr}]
      BY DEF IInv, TreeTypes
    <3>2. \A k \in DOMAIN t : t[k] \in Record
      BY <1>5
    <3>. QED
      BY <3>1, <3>2 DEF Record
  <2>2. \A k \in DOMAIN t : placed'[t[k].c] = t[k].a
    <3>. SUFFICES ASSUME NEW k \in DOMAIN t PROVE placed'[t[k].c] = t[k].a
      OBVIOUS
    <3>1. CASE t[k].c = c
      BY <1>3, <1>5, <2>1, <3>1
    <3>2. CASE t[k].c # c
      <4>1. k \in DOMAIN records /\ t[k].c = records[k].c /\ records[k].c # c /\ t[k] = records[k]
        BY <1>5, <3>2
      <4>. QED
        BY <1>3, <2>1, <4>1 DEF IInv, Recorded
    <3>. QED
      BY <3>1, <3>2
  <2>3. ASSUME NEW d \in Coords, placed'[d] # NoAddr PROVE \E k \in DOMAIN t : t[k].c = d
    <3>1. CASE d = c
      BY <1>5, <3>1
    <3>2. CASE d # c
      <4>1. placed[d] # NoAddr
        BY <1>3, <2>1, <2>3, <3>2
      <4>2. PICK k \in DOMAIN records : records[k].c = d
        BY <4>1 DEF IInv, Recorded
      <4>. QED
        BY <1>5, <4>2
    <3>. QED
      BY <3>1, <3>2
  <2>. QED
    BY <1>5, <2>2, <2>3 DEF Recorded, Unique, t
<1>. QED
  BY <1>1, <1>2, <1>4, <1>6, <1>7 DEF IInv

-----------------------------------------------------------------------------
\* The indexes are flushed, and the file is finalized.

LEMMA DirtySame ==
    ASSUME ArrayTypes, Kept, UNCHANGED <<shape, elements, blocks, given>>, arrayDirty' \subseteq Blocks
    PROVE  /\ ArrayTypes' /\ Kept' /\ Blocks' = Blocks
           /\ (\A b : Image(b)' = Image(b)) /\ ArrayWhole' = ArrayWhole
BY DEF ArrayTypes, Kept, Ids, Blocks, Pages, IsPaged, NPages, Element, Image, ArrayWhole,
       HeaderImage, PrefixImage, PageImage, InUse, IdsOf, First, End

LEMMA FlushArrayKeeps == IInv /\ FlushArray => IInv'
<1>. SUFFICES ASSUME IInv, FlushArray PROVE IInv'
  OBVIOUS
<1>1. issued' = 0 /\ pc' = "flush_array"
  BY OpenIsHidden DEF FlushArray, fileVars
<1>2. (Order /\ ArrayOnDisk /\ TreeOnDisk)'
  BY <1>1 DEF Order, ArrayOnDisk, TreeOnDisk, Frozen
<1>3. ArrayTypes' /\ Kept'
  BY DirtySame DEF IInv, FlushArray, IssueArray
<1>4. TreeTypes' /\ Recorded' /\ Allocated'
  BY TreeSame, AddressesSame DEF IInv, FlushArray, FileTypes, treeVars
<1>5. FileTypes' /\ FileOnDisk'
  BY <1>1 DEF IInv, FlushArray, FileTypes, Phase, FileOnDisk, fileVars
<1>. QED
  BY <1>2, <1>3, <1>4, <1>5 DEF IInv

\* A leaf goes where nothing was.
LEMMA IssueKeeps ==
    ASSUME TreeTypes, Recorded, Allocated, next \in Nat, IssueTree(next), next' = next + 1
    PROVE  TreeTypes' /\ Recorded' /\ Allocated' /\ leaf' \in Addr /\ leaf' \notin DOMAIN leaves'
BY DEF TreeTypes, Recorded, Allocated, IssueTree, Addr, NoAddr

LEMMA FlushTreeKeeps == IInv /\ FlushTree => IInv'
<1>. SUFFICES ASSUME IInv, FlushTree PROVE IInv'
  OBVIOUS
<1>1. issued' = 0 /\ pc' = "flush_tree"
  BY OpenIsHidden DEF FlushTree, fileVars
<1>2. (Order /\ ArrayOnDisk /\ TreeOnDisk)'
  BY <1>1 DEF Order, ArrayOnDisk, TreeOnDisk, Frozen
<1>3. ArrayTypes' /\ Kept'
  BY ArraySame DEF IInv, FlushTree
<1>4. TreeTypes' /\ Recorded' /\ Allocated'
  BY IssueKeeps DEF IInv, FlushTree, FileTypes
<1>5. FileTypes' /\ FileOnDisk'
  BY <1>1 DEF IInv, FlushTree, FileTypes, Phase, FileOnDisk, fileVars
<1>. QED
  BY <1>2, <1>3, <1>4, <1>5 DEF IInv

LEMMA FlushEndsKeeps == IInv /\ FlushEnds => IInv'
<1>. SUFFICES ASSUME IInv, FlushEnds PROVE IInv'
  OBVIOUS
<1>1. issued' = 0 /\ pc' = "open"
  BY OpenIsHidden DEF FlushEnds, fileVars
<1>2. (Order /\ ArrayOnDisk /\ TreeOnDisk)'
  BY <1>1 DEF Order, ArrayOnDisk, TreeOnDisk, Frozen
<1>3. ArrayTypes' /\ Kept'
  BY ArraySame DEF IInv, FlushEnds
<1>4. TreeTypes' /\ Recorded' /\ Allocated'
  BY TreeSame, AddressesSame DEF IInv, FlushEnds, FileTypes, treeVars
<1>5. FileTypes' /\ FileOnDisk'
  BY <1>1 DEF IInv, FlushEnds, FileTypes, Phase, FileOnDisk, fileVars
<1>. QED
  BY <1>2, <1>3, <1>4, <1>5 DEF IInv

\* A file that is finalized again has all of the array on disk already.
LEMMA FinalizeKeeps == IInv /\ Finalize => IInv'
<1>. SUFFICES ASSUME IInv, Finalize PROVE IInv'
  OBVIOUS
<1>1. /\ pc' = "close_array" /\ pc \in {"open", "dropped"} /\ arrayDirty' = Blocks
      /\ UNCHANGED <<shape, elements, blocks, given, treeVars, next, fresh, fileVars>>
  BY DEF Finalize, IssueArray
<1>2. ArrayTypes' /\ Kept' /\ Blocks' = Blocks /\ ArrayWhole' = ArrayWhole
  BY <1>1, DirtySame DEF IInv
<1>3. TreeTypes' /\ Recorded' /\ Allocated' /\ LeafRight' = LeafRight /\ HeaderRight' = HeaderRight
  BY <1>1, TreeSame, AddressesSame DEF IInv, FileTypes, treeVars
<1>4. retried' \in BOOLEAN
  <2>1. (pc = "dropped") \in BOOLEAN
    OBVIOUS
  <2>. QED
    BY <2>1 DEF Finalize
<1>5. FileTypes' /\ FileOnDisk'
  BY <1>1, <1>4 DEF IInv, FileTypes, Phase, FileOnDisk, fileVars
<1>6. Order' /\ (Frozen' => Frozen /\ issued > 0)
  BY <1>1 DEF Order, Frozen, fileVars
<1>7. ArrayOnDisk'
  BY <1>1, <1>2, <1>6 DEF IInv, ArrayOnDisk
<1>8. TreeOnDisk'
  BY <1>1, <1>3, <1>6 DEF IInv, TreeOnDisk, treeVars, fileVars
<1>. QED
  BY <1>2, <1>3, <1>5, <1>6, <1>7, <1>8 DEF IInv

LEMMA FinalizeTreeKeeps == IInv /\ FinalizeTree => IInv'
<1>. SUFFICES ASSUME IInv, FinalizeTree PROVE IInv'
  OBVIOUS
<1>1. /\ pc' = "close_tree" /\ pc = "close_array" /\ Synced /\ IssueTree(next) /\ next' = next + 1
      /\ UNCHANGED <<arrayVars, retried, fresh, fileVars>>
  BY DEF FinalizeTree
<1>2. ArrayTypes' /\ Kept' /\ ArrayWhole' = ArrayWhole
  BY <1>1, ArraySame DEF IInv
<1>3. TreeTypes' /\ Recorded' /\ Allocated' /\ leaf' \in Addr /\ leaf' \notin DOMAIN leaves'
  BY <1>1, IssueKeeps DEF IInv, FileTypes
<1>4. FileTypes' /\ FileOnDisk' /\ Order'
  BY <1>1 DEF IInv, FileTypes, Phase, FileOnDisk, Order, fileVars
<1>5. ArrayOnDisk'
  <2>1. ArrayWhole /\ fresh = {}
    BY <1>1 DEF IInv, ArrayOnDisk, ArrayWhole, Synced
  <2>. QED
    BY <1>1, <1>2, <2>1 DEF ArrayOnDisk
<1>6. TreeOnDisk'
  <2>1. UNCHANGED <<records, leaves, header>> /\ treeDirty' = {"leaf", "header"}
    BY <1>1 DEF IssueTree
  <2>2. LeafRight'
    BY <1>3 DEF LeafRight
  <2>3. issued' > 0 => HeaderRight'
    BY <1>1, <2>1 DEF IInv, TreeOnDisk, HeaderRight, fileVars
  <2>. QED
    BY <1>1, <1>3, <2>1, <2>2, <2>3 DEF TreeOnDisk
<1>. QED
  BY <1>2, <1>3, <1>4, <1>5, <1>6 DEF IInv

LEMMA FinalizeFileKeeps == IInv /\ FinalizeFile => IInv'
<1>. SUFFICES ASSUME IInv, FinalizeFile PROVE IInv'
  OBVIOUS
<1>1. /\ pc' = "close_file" /\ pc = "close_tree" /\ Synced /\ issued' = issued + 1
      /\ fileDirty' = {"root", "super"}
      /\ UNCHANGED <<arrayVars, treeVars, retried, next, fresh, roots, super>>
  BY DEF FinalizeFile
<1>2. ArrayTypes' /\ Kept' /\ ArrayWhole' = ArrayWhole
  BY <1>1, ArraySame DEF IInv
<1>3. TreeTypes' /\ Recorded' /\ Allocated' /\ LeafRight' = LeafRight /\ HeaderRight' = HeaderRight
      /\ HeaderNow' = HeaderNow
  BY <1>1, TreeSame, AddressesSame DEF IInv, FileTypes, treeVars
<1>4. FileTypes' /\ FileOnDisk' /\ Order'
  BY <1>1 DEF IInv, FileTypes, Phase, FileOnDisk, Order
<1>5. ArrayOnDisk'
  BY <1>1, <1>2 DEF IInv, ArrayOnDisk, Frozen
<1>6. TreeOnDisk'
  <2>1. leaf \in DOMAIN leaves /\ header = HeaderNow /\ treeDirty = {} /\ leaf \in Addr /\ LeafRight
    BY <1>1 DEF IInv, TreeOnDisk, Synced, Frozen
  <2>2. HeaderRight
    BY <2>1 DEF HeaderRight, HeaderNow, LeafRight, Addr, NoAddr
  <2>. QED
    BY <1>1, <1>3, <2>1, <2>2 DEF TreeOnDisk, treeVars
<1>. QED
  BY <1>2, <1>3, <1>4, <1>5, <1>6 DEF IInv

LEMMA ClosedKeeps == IInv /\ Closed => IInv'
<1>. SUFFICES ASSUME IInv, Closed PROVE IInv'
  OBVIOUS
<1>1. /\ pc' = "closed" /\ pc = "close_file" /\ Synced
      /\ UNCHANGED <<arrayVars, treeVars, retried, next, fresh, fileVars>>
  BY DEF Closed
<1>2. ArrayTypes' /\ Kept' /\ ArrayWhole' = ArrayWhole
  BY <1>1, ArraySame DEF IInv
<1>3. TreeTypes' /\ Recorded' /\ Allocated' /\ LeafRight' = LeafRight /\ HeaderRight' = HeaderRight
      /\ HeaderNow' = HeaderNow
  BY <1>1, TreeSame, AddressesSame DEF IInv, FileTypes, treeVars
<1>4. FileTypes' /\ FileOnDisk'
  BY <1>1 DEF IInv, FileTypes, Phase, FileOnDisk, Synced, fileVars
<1>5. Order'
  BY <1>1 DEF IInv, Order, Synced, arrayVars, treeVars, fileVars
<1>6. ArrayOnDisk'
  BY <1>1, <1>2 DEF IInv, ArrayOnDisk, Frozen
<1>7. TreeOnDisk'
  BY <1>1, <1>3 DEF IInv, TreeOnDisk, Frozen, treeVars, fileVars
<1>. QED
  BY <1>2, <1>3, <1>4, <1>5, <1>6, <1>7 DEF IInv

LEMMA FailKeeps == IInv /\ Fail => IInv'
<1>. SUFFICES ASSUME IInv, Fail PROVE IInv'
  OBVIOUS
<1>1. /\ UNCHANGED <<arrayVars, treeVars, retried, next, fresh, fileVars>>
      /\ \/ pc \in {"flush_array", "flush_tree"} /\ pc' = "open"
         \/ pc \in {"close_array", "close_tree", "close_file"} /\ pc' \in {"dropped", "gone"}
  BY DEF Fail
<1>2. ArrayTypes' /\ Kept' /\ ArrayWhole' = ArrayWhole
  BY <1>1, ArraySame DEF IInv
<1>3. TreeTypes' /\ Recorded' /\ Allocated' /\ LeafRight' = LeafRight /\ HeaderRight' = HeaderRight
  BY <1>1, TreeSame, AddressesSame DEF IInv, FileTypes, treeVars
<1>4. FileTypes' /\ FileOnDisk'
  BY <1>1 DEF IInv, FileTypes, Phase, FileOnDisk, fileVars
<1>5. Order'
  BY <1>1 DEF IInv, Order, fileVars
<1>6. Frozen' => Frozen /\ issued > 0
  BY <1>1 DEF Frozen, fileVars
<1>7. ArrayOnDisk'
  BY <1>1, <1>2, <1>6 DEF IInv, ArrayOnDisk
<1>8. TreeOnDisk'
  BY <1>1, <1>3, <1>6 DEF IInv, TreeOnDisk, treeVars, fileVars
<1>. QED
  BY <1>2, <1>3, <1>4, <1>5, <1>7, <1>8 DEF IInv

-----------------------------------------------------------------------------
\* Something gets to the disk.

\* A block of an array that is on disk stays as it is.
LEMMA ArrayDiskKeeps ==
    ASSUME IInv, NEW b \in Blocks, ArrayWritten(b) \/ ArrayTorn(b),
           UNCHANGED <<treeVars, pc, retried, next, fresh, fileVars>>
    PROVE  IInv'
<1>1. b \in arrayDirty /\ UNCHANGED <<shape, elements, given>> /\ arrayDirty' \subseteq arrayDirty
  BY DEF ArrayWritten, ArrayTorn
<1>2. /\ Ids' = Ids /\ Blocks' = Blocks /\ (\A c : Image(c)' = Image(c))
      /\ \A a, m : Element(a, m)' = Element(a, m)
  BY <1>1 DEF Ids, Blocks, Pages, IsPaged, NPages, Element, Image, HeaderImage, PrefixImage, PageImage,
              InUse, IdsOf, First, End
<1>3. ArrayTypes' /\ Kept'
  <2>1. blocks' = [c \in Blocks |-> blocks'[c]]
    BY DEF IInv, ArrayTypes, ArrayWritten, ArrayTorn
  <2>. QED
    BY <1>1, <1>2, <2>1 DEF IInv, ArrayTypes, Kept
<1>4. \A c \in Blocks : blocks[c] = Image(c) \/ c \notin arrayDirty' =>
          blocks'[c] = Image(c) \/ (blocks'[c] = blocks[c] /\ c \notin arrayDirty)
  BY DEF IInv, ArrayTypes, ArrayWritten, ArrayTorn
<1>5. ArrayWhole => ArrayWhole'
  BY <1>2, <1>4 DEF ArrayWhole
<1>6. TreeTypes' /\ Recorded' /\ Allocated' /\ LeafRight' = LeafRight /\ HeaderRight' = HeaderRight
      /\ HeaderNow' = HeaderNow
  BY TreeSame, AddressesSame DEF IInv, FileTypes, treeVars
<1>7. FileTypes' /\ FileOnDisk'
  BY DEF IInv, FileTypes, FileOnDisk, fileVars
<1>8. Order' /\ (Frozen' = Frozen)
  BY <1>1 DEF IInv, Order, Synced, Frozen, treeVars, fileVars
<1>9. ArrayOnDisk'
  BY <1>2, <1>4, <1>5, <1>8 DEF IInv, ArrayOnDisk
<1>10. TreeOnDisk'
  BY <1>6, <1>8 DEF IInv, TreeOnDisk, treeVars, fileVars
<1>. QED
  BY <1>3, <1>6, <1>7, <1>8, <1>9, <1>10 DEF IInv

LEMMA TreeDiskKeeps ==
    ASSUME IInv, LeafWritten \/ HeaderWritten \/ HeaderTorn,
           UNCHANGED <<arrayVars, pc, retried, next, fresh, fileVars>>
    PROVE  IInv'
<1>1. ArrayTypes' /\ Kept' /\ ArrayWhole' = ArrayWhole /\ Blocks' = Blocks /\ \A b : Image(b)' = Image(b)
  BY ArraySame DEF IInv
<1>2. UNCHANGED <<records, leaf, placed>> /\ treeDirty' \subseteq treeDirty /\ treeDirty # {}
  BY DEF LeafWritten, HeaderWritten, HeaderTorn
<1>3. FileTypes' /\ FileOnDisk'
  BY DEF IInv, FileTypes, FileOnDisk, fileVars
<1>4. pc # "closed" /\ pc # "close_file" /\ pc' = pc /\ issued' = issued
  BY <1>2 DEF IInv, TreeOnDisk, fileVars
<1>5. Order' /\ (Frozen' = Frozen)
  BY <1>4 DEF IInv, Order, Frozen, fileVars
<1>6. ArrayOnDisk'
  BY <1>1, <1>5 DEF IInv, ArrayOnDisk, arrayVars
<1>7. Recorded'
  BY <1>2 DEF IInv, Recorded
<1>8. HeaderNow' = HeaderNow /\ HeaderNow \in [sum : BOOLEAN, root : Addr \cup {NoAddr}, num : Nat]
  <2>1. Len(records) % CountLimit \in Nat
    BY CountAssumption DEF IInv, TreeTypes
  <2>. QED
    BY <1>2, <2>1 DEF IInv, TreeTypes, HeaderNow
<1>9. CASE LeafWritten
  <2>1. "leaf" \in treeDirty /\ treeDirty' = treeDirty \ {"leaf"} /\ header' = header
        /\ leaves' = [x \in DOMAIN leaves \cup {leaf} |-> IF x = leaf THEN records ELSE leaves[x]]
    BY <1>9 DEF LeafWritten
  <2>. HIDE DEF LeafWritten
  <2>2. DOMAIN leaves' = DOMAIN leaves \cup {leaf} /\ leaves'[leaf] = records
        /\ \A x \in DOMAIN leaves : x # leaf => leaves'[x] = leaves[x]
    BY <2>1
  <2>3. leaf \in Addr
    BY <1>2 DEF IInv, Allocated
  <2>4. TreeTypes'
    <3>1. leaves' = [x \in DOMAIN leaves' |-> leaves'[x]]
      BY <2>1, <2>2
    <3>. QED
      BY <1>2, <2>1, <3>1 DEF IInv, TreeTypes
  <2>5. Allocated'
    BY <1>2, <2>2, <2>3 DEF IInv, Allocated
  <2>6. LeafRight' /\ (HeaderRight => HeaderRight')
    BY <1>2, <2>1, <2>2 DEF LeafRight, HeaderRight
  <2>7. TreeOnDisk'
    BY <1>2, <1>4, <1>5, <1>8, <2>1, <2>2, <2>3, <2>6 DEF IInv, TreeOnDisk
  <2>. QED
    BY <1>1, <1>3, <1>5, <1>6, <1>7, <2>4, <2>5, <2>7 DEF IInv
<1>10. CASE HeaderWritten
  <2>1. "header" \in treeDirty /\ treeDirty' = treeDirty \ {"header"} /\ header' = HeaderNow /\ leaves' = leaves
    BY <1>10 DEF HeaderWritten
  <2>2. TreeTypes' /\ Allocated'
    BY <1>2, <1>8, <2>1 DEF IInv, TreeTypes, Allocated
  <2>3. LeafRight' = LeafRight
    BY <1>2, <2>1 DEF LeafRight
  <2>4. ASSUME LeafRight, leaf \in Addr PROVE HeaderRight'
    BY <1>2, <1>8, <2>1, <2>4 DEF HeaderRight, HeaderNow, LeafRight, Addr, NoAddr
  <2>5. TreeOnDisk'
    <3>1. issued > 0 => HeaderRight'
      BY <2>4 DEF IInv, TreeOnDisk, Frozen
    <3>. QED
      BY <1>2, <1>4, <1>5, <1>8, <2>1, <2>3, <3>1 DEF IInv, TreeOnDisk
  <2>. QED
    BY <1>1, <1>3, <1>5, <1>6, <1>7, <2>2, <2>5 DEF IInv
<1>11. CASE HeaderTorn
  <2>1. "header" \in treeDirty /\ header' = [header EXCEPT !.sum = FALSE] /\ UNCHANGED <<leaves, treeDirty>>
    BY <1>11 DEF HeaderTorn
  <2>2. header' \in [sum : BOOLEAN, root : Addr \cup {NoAddr}, num : Nat] /\ ~header'.sum
    BY <2>1 DEF IInv, TreeTypes
  <2>3. TreeTypes' /\ Allocated'
    BY <1>2, <2>1, <2>2 DEF IInv, TreeTypes, Allocated
  <2>4. LeafRight' = LeafRight /\ HeaderRight'
    BY <1>2, <2>1, <2>2 DEF LeafRight, HeaderRight
  <2>5. TreeOnDisk'
    BY <1>2, <1>4, <1>5, <2>1, <2>4 DEF IInv, TreeOnDisk
  <2>. QED
    BY <1>1, <1>3, <1>5, <1>6, <1>7, <2>3, <2>5 DEF IInv
<1>. QED
  BY <1>9, <1>10, <1>11

LEMMA FileDiskKeeps ==
    ASSUME IInv, RootWritten \/ SuperWritten \/ \E a \in fresh : DataWritten(a)
    PROVE  IInv'
<1>1. UNCHANGED <<arrayVars, treeVars, pc, retried, next, issued>> /\ fresh' \subseteq fresh
      /\ fileDirty' \subseteq fileDirty
  BY DEF RootWritten, SuperWritten, DataWritten, fileVars
<1>2. ArrayTypes' /\ Kept' /\ ArrayWhole' = ArrayWhole /\ Blocks' = Blocks /\ \A b : Image(b)' = Image(b)
  BY <1>1, ArraySame DEF IInv
<1>3. TreeTypes' /\ Recorded' /\ Allocated' /\ LeafRight' = LeafRight /\ HeaderRight' = HeaderRight
      /\ HeaderNow' = HeaderNow
  BY <1>1, TreeSame, AddressesSame DEF IInv, FileTypes, treeVars
<1>4. FileTypes'
  BY <1>1 DEF IInv, FileTypes, RootWritten, SuperWritten, DataWritten, fileVars
<1>5. Order' /\ (Frozen' = Frozen)
  BY <1>1 DEF IInv, Order, Frozen, Synced, arrayVars, treeVars
<1>6. ArrayOnDisk'
  BY <1>1, <1>2, <1>5 DEF IInv, ArrayOnDisk, arrayVars
<1>7. TreeOnDisk'
  BY <1>1, <1>3, <1>5 DEF IInv, TreeOnDisk, treeVars
<1>8. FileOnDisk'
  <2>1. CASE RootWritten
    BY <1>1, <2>1 DEF IInv, FileOnDisk, FileTypes, Order, Synced, RootWritten
  <2>2. CASE SuperWritten
    BY <1>1, <2>2 DEF IInv, FileOnDisk, FileTypes, Order, Synced, SuperWritten
  <2>3. CASE \E a \in fresh : DataWritten(a)
    BY <1>1, <2>3 DEF IInv, FileOnDisk, DataWritten, fileVars
  <2>. QED
    BY <2>1, <2>2, <2>3
<1>. QED
  BY <1>2, <1>3, <1>4, <1>5, <1>6, <1>7, <1>8 DEF IInv

-----------------------------------------------------------------------------
LEMMA NextKeeps == IInv /\ [Next]_vars => IInv'
<1>. SUFFICES ASSUME IInv, [Next]_vars PROVE IInv'
  OBVIOUS
<1>1. CASE UNCHANGED vars
  <2>1. ArrayTypes' /\ Kept' /\ ArrayWhole' = ArrayWhole /\ Blocks' = Blocks /\ \A b : Image(b)' = Image(b)
    BY <1>1, ArraySame DEF IInv, vars
  <2>2. TreeTypes' /\ Recorded' /\ Allocated' /\ LeafRight' = LeafRight /\ HeaderRight' = HeaderRight
        /\ HeaderNow' = HeaderNow
    BY <1>1, TreeSame, AddressesSame DEF IInv, FileTypes, vars, treeVars
  <2>3. FileTypes' /\ FileOnDisk'
    BY <1>1 DEF IInv, FileTypes, FileOnDisk, vars
  <2>4. Order' /\ Frozen' = Frozen
    BY <1>1 DEF IInv, Order, Frozen, Synced, vars, arrayVars, treeVars
  <2>5. ArrayOnDisk'
    BY <1>1, <2>1, <2>4 DEF IInv, ArrayOnDisk, vars, arrayVars
  <2>6. TreeOnDisk'
    BY <1>1, <2>2, <2>4 DEF IInv, TreeOnDisk, vars, treeVars
  <2>. QED
    BY <2>1, <2>2, <2>3, <2>4, <2>5, <2>6 DEF IInv
<1>2. CASE Disk
  BY <1>2, ArrayDiskKeeps, TreeDiskKeeps, FileDiskKeeps DEF Disk
<1>3. CASE Next /\ ~Disk
  BY <1>3, WriteFixedKeeps, RefuseFixedKeeps, WriteTreeKeeps, FlushArrayKeeps, FlushTreeKeeps, FlushEndsKeeps,
     FinalizeKeeps, FinalizeTreeKeeps, FinalizeFileKeeps, ClosedKeeps, FailKeeps DEF Next
<1>. QED
  BY <1>1, <1>2, <1>3

THEOREM Invariance == Spec => []IInv
<1>1. Init => IInv
  BY Initially
<1>2. IInv /\ [Next]_vars => IInv'
  BY NextKeeps
<1>. QED
  BY <1>1, <1>2, PTL DEF Spec

-----------------------------------------------------------------------------
\* What a reader finds.

\* An array all of which is on disk is read as it was written.
LEMMA WholeIsExact ==
    ASSUME ArrayTypes, Kept, ArrayWhole, fresh = {}
    PROVE  ArrayExact
<1>1. Shaped(shape) /\ shape.filtered \in BOOLEAN
  BY ShapeAssumption DEF ArrayTypes, Shaped
<1>2. Header \in Blocks /\ blocks[Header] = HeaderImage
  BY DEF Blocks, ArrayWhole, Image
<1>3. Described = shape
  BY <1>2 DEF Described, HeaderImage
<1>4. \A p \in Pages(shape) : p \in Nat /\ p \in Blocks /\ blocks[p] = PageImage(p)
  <2>. SUFFICES ASSUME NEW p \in Pages(shape) PROVE p \in Nat /\ p \in Blocks /\ blocks[p] = PageImage(p)
    OBVIOUS
  <2>1. p \in Nat
    BY <1>1, PageLengths
  <2>2. p \in Blocks /\ p # Header /\ p # Prefix
    BY <2>1 DEF Blocks, Header, Prefix
  <2>. QED
    BY <2>1, <2>2 DEF ArrayWhole, Image
<1>5. IsPaged(shape) => blocks[Prefix] = PrefixImage
  BY DEF Blocks, ArrayWhole, Image, Header, Prefix
<1>6. PagesRead \subseteq Pages(shape)
  BY <1>3, <1>5 DEF PagesRead, PrefixImage, Pages
<1>7. ArrayReadable
  <2>1. ASSUME NEW p \in PagesRead PROVE PageSound(p)
    <3>1. p \in Pages(shape)
      BY <1>6
    <3>2. End(shape, p) - First(shape, p) = PageNelmts(shape, p)
      BY <1>1, <3>1, PageLengths
    <3>3. blocks[p] = PageImage(p)
      BY <1>4, <3>1
    <3>4. blocks[p].sum /\ DOMAIN blocks[p].elems = 0..(End(shape, p) - First(shape, p) - 1)
      BY <3>3 DEF PageImage
    <3>. QED
      BY <1>3, <3>2, <3>4 DEF PageSound
  <2>2. blocks[Header].sum /\ (IsPaged(Described) => blocks[Prefix].sum)
    BY <1>2, <1>3, <1>5 DEF HeaderImage, PrefixImage
  <2>. QED
    BY <2>1, <2>2 DEF ArrayReadable
<1>8. ASSUME NEW i \in Ids PROVE ElementRead(i) = elements[i]
  <2>. DEFINE p == i \div shape.page
  <2>1. i \in 0..(shape.n - 1)
    BY DEF Ids
  <2>2. /\ p \in Nat /\ First(shape, p) <= i /\ i < First(shape, p) + shape.page
        /\ ~IsPaged(shape) => p = 0
        /\ IsPaged(shape) => p \in Pages(shape)
    BY <1>1, <2>1, PageOf
  <2>3. p \in Pages(shape)
    BY <2>2 DEF Pages
  <2>. HIDE DEF p
  <2>4. First(shape, p) \in Nat /\ End(shape, p) = Smaller(First(shape, p) + shape.page, shape.n)
    BY <1>1, <2>3, PageLengths
  <2>5. i \in First(shape, p)..(End(shape, p) - 1)
    BY <1>1, <2>1, <2>2, <2>4 DEF Smaller, Shaped
  <2>6. blocks[p].elems[i - First(shape, p)] = elements[i]
    <3>. DEFINE k == i - First(shape, p)
    <3>1. k \in 0..(End(shape, p) - First(shape, p) - 1) /\ First(shape, p) + k = i
      BY <1>1, <2>1, <2>4, <2>5 DEF Shaped, Smaller
    <3>. HIDE DEF k
    <3>2. PageImage(p).elems[k] = elements[First(shape, p) + k]
      BY <3>1 DEF PageImage
    <3>3. blocks[p] = PageImage(p)
      BY <1>4, <2>3
    <3>. QED
      BY <3>1, <3>2, <3>3 DEF k
  <2>7. ElementRead(i) = IF IsPaged(shape) /\ p \notin PagesRead THEN Empty
                         ELSE blocks[p].elems[i - First(shape, p)]
    <3>1. (IF IsPaged(shape) THEN p ELSE 0) = p
      BY <2>2
    <3>2. ElementRead(i) = IF IsPaged(shape) /\ p \notin PagesRead THEN Empty
                           ELSE blocks[IF IsPaged(shape) THEN p ELSE 0].elems[i - First(shape, p)]
      BY <1>3 DEF ElementRead, p
    <3>. QED
      BY <3>1, <3>2
  <2>8. ASSUME IsPaged(shape), p \notin PagesRead PROVE elements[i] = Empty
    <3>1. PagesRead = {q \in Pages(shape) : InUse(q)}
      BY <1>3, <1>5, <2>8 DEF PagesRead, PrefixImage
    <3>2. ~InUse(p)
      BY <2>3, <2>8, <3>1
    <3>3. elements[i].a = Undef
      BY <2>5, <3>2 DEF InUse, IdsOf
    <3>4. ASSUME given[i].a \in Addr, elements[i] = Element(given[i].a, given[i].n) PROVE FALSE
      <4>1. elements[i].a = given[i].a
        BY <3>4 DEF Element
      <4>. QED
        BY <3>3, <3>4, <4>1 DEF Addr, Undef
    <3>. QED
      BY <3>4 DEF Kept
  <2>. QED
    BY <2>6, <2>7, <2>8
<1>9. ASSUME NEW i \in Ids PROVE ChunkRead(i) = given[i]
  <2>1. ChunkRead(i) = IF elements[i].a = Undef THEN Empty
                       ELSE [a |-> elements[i].a, n |-> IF shape.filtered THEN elements[i].n ELSE ChunkBytes]
    BY <1>3, <1>8 DEF ChunkRead
  <2>2. CASE elements[i] = Empty /\ given[i] = Empty
    BY <2>1, <2>2 DEF Empty
  <2>3. CASE /\ given[i].a \in Addr /\ elements[i] = Element(given[i].a, given[i].n)
             /\ shape.filtered \/ given[i].n = ChunkBytes
    <3>1. given[i] \in Cell
      BY DEF ArrayTypes
    <3>2. given[i] = [a |-> given[i].a, n |-> given[i].n]
      BY <3>1 DEF Cell
    <3>3. given[i].a # Undef
      BY <2>3 DEF Addr, Undef
    <3>. DEFINE x == given[i].a
                y == given[i].n
    <3>4. elements[i].a = x /\ elements[i].n = IF shape.filtered THEN y ELSE 0
      BY <2>3 DEF Element
    <3>5. ChunkRead(i) = [a |-> x, n |-> IF shape.filtered THEN elements[i].n ELSE ChunkBytes]
      BY <2>1, <3>3, <3>4
    <3>. HIDE DEF x, y
    <3>6. (IF shape.filtered THEN elements[i].n ELSE ChunkBytes) = y
      BY <2>3, <3>4 DEF y
    <3>. QED
      BY <3>2, <3>5, <3>6 DEF x, y
  <2>. QED
    BY <2>2, <2>3 DEF Kept
<1>. QED
  BY <1>7, <1>9 DEF ArrayExact

\* A tree whose header and leaf are right is read as it was written.
LEMMA RightIsExact ==
    ASSUME TreeTypes, Recorded, LeafRight, HeaderRight, fresh = {}, Len(records) < CountLimit, TreeReadable
    PROVE  \A c \in Coords : PlaceRead(c) = placed[c] /\ placed[c] \notin fresh
<1>1. header.sum /\ header.root # NoAddr
  BY DEF TreeReadable, HeaderRight
<1>2. Len(records) \in Nat /\ DOMAIN records = 1..Len(records)
  BY DEF TreeTypes
<1>3. header.num = Len(records)
  <2>. DEFINE l == Len(records)
  <2>1. header.num = l % CountLimit /\ l \in Nat /\ l < CountLimit /\ CountLimit \in Nat \ {0}
    BY <1>1, <1>2, CountAssumption DEF HeaderRight
  <2>. HIDE DEF l
  <2>2. header.num = l
    BY <2>1, SMT
  <2>. QED
    BY <2>2 DEF l
<1>. SUFFICES ASSUME NEW c \in Coords PROVE PlaceRead(c) = placed[c]
  OBVIOUS
<1>4. CASE NoRecords
  <2>1. DOMAIN records = {}
    BY <1>1, <1>2, <1>3, <1>4 DEF NoRecords
  <2>2. placed[c] = NoAddr
    BY <2>1 DEF Recorded
  <2>. QED
    BY <1>4, <2>2 DEF PlaceRead
<1>5. CASE ~NoRecords
  <2>1. leaves[header.root] = records
    BY <1>1, <1>5 DEF TreeReadable, LeafReadable, HeaderRight
  <2>. DEFINE at == Places(records, c)
  <2>2. PlaceRead(c) = IF at = {} THEN NoAddr ELSE records[CHOOSE k \in at : \A j \in at : j <= k].a
    BY <1>5, <2>1 DEF PlaceRead
  <2>3. CASE at = {}
    <3>1. placed[c] = NoAddr
      BY <2>3 DEF Recorded, Places
    <3>. QED
      BY <2>2, <2>3, <3>1
  <2>4. CASE at # {}
    <3>1. PICK k \in at : TRUE
      BY <2>4
    <3>2. k \in DOMAIN records /\ records[k].c = c
      BY <3>1 DEF Places
    <3>3. at = {k}
      BY <3>2 DEF Places, Recorded
    <3>4. k \in Nat /\ k <= k
      BY <1>2, <3>2
    <3>5. (CHOOSE x \in at : \A j \in at : j <= x) = k
      BY <3>3, <3>4
    <3>6. PlaceRead(c) = records[k].a
      BY <2>2, <2>4, <3>5
    <3>. QED
      BY <3>2, <3>6 DEF Recorded
  <2>. QED
    BY <2>3, <2>4
<1>. QED
  BY <1>4, <1>5

(* Wherever the power fails, whatever write fails, and however often the   *)
(* file is finalized: what a file that can be opened has in its indexes is *)
(* what was accepted, and a file that was closed can be opened             *)
(* (flush_dataset, finalize, encode_fixed_array_dblk, the decoders).       *)
THEOREM Exact == Spec => []IndexesExact
<1>1. IInv => IndexesExact
  <2>. SUFFICES ASSUME IInv PROVE IndexesExact
    OBVIOUS
  <2>1. Openable => issued > 0
    BY DEF IInv, Openable, FileOnDisk, FileTypes
  <2>2. Openable => ArrayExact
    BY <2>1, WholeIsExact DEF IInv, ArrayOnDisk, Frozen
  <2>3. Openable => TreeExact
    BY <2>1, RightIsExact DEF IInv, ArrayOnDisk, TreeOnDisk, Frozen, TreeExact
  <2>4. ASSUME pc = "closed" PROVE Openable
    BY <2>4 DEF IInv, FileOnDisk, FileTypes, Order, Openable
  <2>5. ASSUME pc = "closed", Len(records) < CountLimit PROVE TreeReadable
    <3>1. leaf \in DOMAIN leaves /\ leaves[leaf] = records /\ header = HeaderNow
      BY <2>5 DEF IInv, TreeOnDisk, Frozen, LeafRight
    <3>2. header.sum /\ header.root = leaf /\ header.num = Len(records) % CountLimit
      BY <3>1 DEF HeaderNow
    <3>. DEFINE l == Len(records)
    <3>3. l \in Nat /\ l < CountLimit /\ CountLimit \in Nat \ {0}
      BY <2>5, CountAssumption DEF IInv, TreeTypes
    <3>. HIDE DEF l
    <3>4. l % CountLimit = l
      BY <3>3, SMT
    <3>. QED
      BY <3>1, <3>2, <3>4 DEF TreeReadable, LeafReadable, l
  <2>6. Encoded(shape) = DiskSize(shape) /\ \A p \in Pages(shape) : WrittenAt(shape, p) = ReadAt(shape, p)
    BY LayoutExact DEF IInv, ArrayTypes
  <2>. QED
    BY <2>2, <2>3, <2>4, <2>5, <2>6 DEF IndexesExact
<1>. QED
  BY <1>1, Invariance, PTL

=============================================================================
