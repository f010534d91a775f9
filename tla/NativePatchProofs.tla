------------------------- MODULE NativePatchProofs --------------------------
(***************************************************************************)
(* Proofs about the stages of the native driver that read the inputs of a  *)
(* patch: stage 1 for any candidates, dates and SNAP files, stage 2 for    *)
(* any number of candidates and interferograms, any positions, window      *)
(* lengths, baselines and limits of the iterations, and any histogram.     *)
(***************************************************************************)
EXTENDS NativeStage1, NativeStage2, FiniteSetTheorems, SequenceTheorems,
        WellFoundedInduction, TLAPS

-----------------------------------------------------------------------------
(* Stage 1.                                                                *)

LEMMA UpTo ==
    ASSUME NEW n \in Nat
    PROVE  IsFiniteSet(1..n) /\ Cardinality(1..n) = n
BY FS_Interval

\* Sorted by an order in which any two indices are different, a list has
\* every index: the number of those before it is the place of each.
LEMMA SortedPermutes ==
    ASSUME NEW n \in Nat, NEW after \in [1..n -> SUBSET (1..n)],
           \A i \in 1..n : i \notin after[i],
           \A i, j \in 1..n : i # j => i \in after[j] \/ j \in after[i],
           \A i, j \in 1..n : j \in after[i] => after[j] \subseteq after[i]
    PROVE  Sorted(after) \in [1..n -> 1..n]
<1>. DEFINE rank == [i \in 1..n |-> Cardinality(after[i]) + 1]
<1>0. IsFiniteSet(1..n) /\ Cardinality(1..n) = n
  BY UpTo
<1>1. ASSUME NEW i \in 1..n
      PROVE  IsFiniteSet(after[i]) /\ Cardinality(after[i]) \in 0..n - 1
  <2>1. IsFiniteSet((1..n) \ {i}) /\ Cardinality((1..n) \ {i}) = n - 1
    BY <1>0, FS_RemoveElement
  <2>2. after[i] \in SUBSET ((1..n) \ {i})
    OBVIOUS
  <2>3. IsFiniteSet(after[i]) /\ Cardinality(after[i]) <= n - 1
    BY <2>1, <2>2, FS_Subset
  <2>. QED
    BY <2>3, FS_CardinalityType
<1>2. ASSUME NEW i \in 1..n, NEW j \in 1..n, j \in after[i]
      PROVE  Cardinality(after[i]) # Cardinality(after[j])
  <2>1. after[j] \in SUBSET after[i] /\ after[j] # after[i]
    BY <1>2
  <2>. QED
    BY <1>1, <2>1, FS_Subset
<1>3. rank \in Injection(1..n, 1..n)
  <2>1. rank \in [1..n -> 1..n]
    BY <1>1
  <2>2. ASSUME NEW i \in 1..n, NEW j \in 1..n, rank[i] = rank[j]
        PROVE  i = j
    <3>1. Cardinality(after[i]) = Cardinality(after[j])
      BY <1>1, <2>2
    <3>. QED
      BY <1>2, <3>1
  <2>. HIDE DEF rank
  <2>. QED
    BY <2>1, <2>2 DEF Injection, IsInjective
<1>4. rank \in Surjection(1..n, 1..n)
  <2>. HIDE DEF rank
  <2>. QED
    BY <1>0, <1>3, FS_Injection
<1>5. \A r \in 1..n : \E i \in 1..n : Cardinality(after[i]) = r - 1
  <2>1. SUFFICES ASSUME NEW r \in 1..n PROVE \E i \in 1..n : Cardinality(after[i]) = r - 1
    OBVIOUS
  <2>2. PICK i \in 1..n : rank[i] = r
    <3>. HIDE DEF rank
    <3>. QED
      BY <1>4 DEF Surjection
  <2>. QED
    BY <1>1, <2>2
<1>. QED
  BY <1>5 DEF Sorted

LEMMA InputsAre ==
    /\ NPs \in Nat /\ NPs > 0
    /\ Xs \in [1..NPs -> Int] /\ Ys \in [1..NPs -> Int]
    /\ Slaves \in [1..Len(Slaves) -> Nat] /\ Len(Slaves) \in Nat /\ Master \in Nat
BY CandidatesAssumption DEF NPs

\* SortIx and day_ix are permutations: every row and every column of the
\* candidate files is in the products once.
LEMMA RowsPermuted == SortIx \in [1..NPs -> 1..NPs]
<1>. DEFINE after == [i \in 1..NPs |-> {j \in 1..NPs : RowFirst(j, i)}]
<1>1. \A i \in 1..NPs : i \notin after[i]
  BY InputsAre DEF RowFirst
<1>2. \A i, j \in 1..NPs : i # j => i \in after[j] \/ j \in after[i]
  BY InputsAre DEF RowFirst
<1>3. \A i, j \in 1..NPs : j \in after[i] => after[j] \subseteq after[i]
  <2>1. \A i, j, h \in 1..NPs : RowFirst(j, i) /\ RowFirst(h, j) => RowFirst(h, i)
    BY InputsAre DEF RowFirst
  <2>. QED
    BY <2>1
<1>4. after \in [1..NPs -> SUBSET (1..NPs)]
  OBVIOUS
<1>5. SortIx = Sorted(after)
  BY DEF SortIx
<1>. HIDE DEF after
<1>. QED
  BY <1>1, <1>2, <1>3, <1>4, <1>5, InputsAre, SortedPermutes

LEMMA DaysPermuted == DayIx(Slaves) \in [1..Len(Slaves) -> 1..Len(Slaves)]
<1>. DEFINE n == Len(Slaves)
            after == [i \in 1..n |-> {j \in 1..n : DayFirst(Slaves, j, i)}]
<1>0. \A i \in 1..n : Slaves[i] \in Nat
  BY InputsAre
<1>1. \A i \in 1..n : i \notin after[i]
  BY <1>0 DEF DayFirst
<1>2. \A i, j \in 1..n : i # j => i \in after[j] \/ j \in after[i]
  BY <1>0 DEF DayFirst
<1>3. \A i, j \in 1..n : j \in after[i] => after[j] \subseteq after[i]
  <2>1. \A i, j, h \in 1..n : DayFirst(Slaves, j, i) /\ DayFirst(Slaves, h, j) => DayFirst(Slaves, h, i)
    BY <1>0 DEF DayFirst
  <2>. QED
    BY <2>1
<1>4. after \in [1..n -> SUBSET (1..n)]
  OBVIOUS
<1>5. DayIx(Slaves) = Sorted(after)
  BY DEF DayIx
<1>6. n \in Nat
  BY InputsAre
<1>. HIDE DEF after, n
<1>7. Sorted(after) \in [1..n -> 1..n]
  BY <1>1, <1>2, <1>3, <1>4, <1>6, SortedPermutes
<1>. QED
  BY <1>5, <1>7 DEF n

\* What is inserted at a place and taken out there leaves the list as it was.
LEMMA InsertedAndRemoved ==
    ASSUME NEW s \in Seq(Nat), NEW e \in Nat, NEW i \in 1..Len(s) + 1
    PROVE  /\ DOMAIN InsertAt(s, i, e) = 1..Len(s) + 1
           /\ \A c \in 1..Len(s) + 1 :
                InsertAt(s, i, e)[c] = IF c < i THEN s[c] ELSE IF c = i THEN e ELSE s[c - 1]
           /\ DOMAIN RemoveAt(InsertAt(s, i, e), i) = 1..Len(s)
           /\ \A c \in 1..Len(s) : RemoveAt(InsertAt(s, i, e), i)[c] = s[c]
<1>. DEFINE a == SubSeq(s, 1, i - 1)
            b == SubSeq(s, i, Len(s))
            m == a \o <<e>>
            t == InsertAt(s, i, e)
<1>0. Len(s) \in Nat /\ i \in Nat /\ 0 < i /\ i <= Len(s) + 1
  OBVIOUS
<1>1. a \in Seq(Nat) /\ Len(a) = i - 1 /\ \A c \in 1..i - 1 : a[c] = s[c]
  OBVIOUS
<1>2. b \in Seq(Nat) /\ Len(b) = Len(s) - i + 1 /\ \A c \in 1..Len(s) - i + 1 : b[c] = s[c + i - 1]
  OBVIOUS
<1>3. m \in Seq(Nat) /\ Len(m) = i /\ \A c \in 1..i : m[c] = IF c < i THEN s[c] ELSE e
  <2>. HIDE DEF a
  <2>. QED
    BY <1>1
<1>4. t = m \o b
  BY DEF InsertAt
<1>5. /\ t \in Seq(Nat) /\ Len(t) = Len(s) + 1
      /\ \A c \in 1..Len(s) + 1 : t[c] = IF c < i THEN s[c] ELSE IF c = i THEN e ELSE s[c - 1]
  <2>. HIDE DEF m, b, t
  <2>1. /\ t \in Seq(Nat) /\ Len(t) = Len(m) + Len(b)
        /\ \A c \in 1..Len(m) + Len(b) : t[c] = IF c <= Len(m) THEN m[c] ELSE b[c - Len(m)]
    BY <1>2, <1>3, <1>4, ConcatProperties
  <2>2. ASSUME NEW c \in 1..Len(s) + 1, c > i
        PROVE  b[c - i] = s[c - 1]
    <3>1. c - i \in 1..Len(s) - i + 1 /\ c - i + i - 1 = c - 1
      BY <1>0, <2>2
    <3>. QED
      BY <1>2, <3>1
  <2>3. ASSUME NEW c \in 1..Len(s) + 1
        PROVE  t[c] = IF c < i THEN s[c] ELSE IF c = i THEN e ELSE s[c - 1]
    <3>1. t[c] = IF c <= i THEN m[c] ELSE b[c - i]
      <4>1. c \in 1..Len(m) + Len(b)
        BY <1>0, <1>2, <1>3
      <4>. QED
        BY <1>3, <2>1, <4>1
    <3>2. CASE c <= i
      <4>1. c \in 1..i
        BY <1>0, <3>2
      <4>. QED
        BY <1>0, <1>3, <3>1, <3>2, <4>1
    <3>3. CASE c > i
      BY <1>0, <2>2, <3>1, <3>3
    <3>. QED
      BY <1>0, <3>2, <3>3
  <2>4. Len(t) = Len(s) + 1
    BY <1>0, <1>2, <1>3, <2>1
  <2>. QED
    BY <2>1, <2>3, <2>4
<1>. DEFINE p == SubSeq(t, 1, i - 1)
            q == SubSeq(t, i + 1, Len(t))
            u == RemoveAt(t, i)
<1>6. u = p \o q
  BY DEF RemoveAt
<1>7. p \in Seq(Nat) /\ Len(p) = i - 1 /\ \A c \in 1..i - 1 : p[c] = s[c]
  <2>. HIDE DEF t
  <2>. QED
    BY <1>0, <1>5
<1>8. q \in Seq(Nat) /\ Len(q) = Len(s) - i + 1 /\ \A c \in 1..Len(s) - i + 1 : q[c] = t[c + i]
  <2>. HIDE DEF t
  <2>. QED
    BY <1>0, <1>5
<1>9. DOMAIN u = 1..Len(s) /\ \A c \in 1..Len(s) : u[c] = s[c]
  <2>. HIDE DEF p, q, u, t
  <2>1. /\ u \in Seq(Nat) /\ Len(u) = Len(p) + Len(q)
        /\ \A c \in 1..Len(p) + Len(q) : u[c] = IF c <= Len(p) THEN p[c] ELSE q[c - Len(p)]
    BY <1>6, <1>7, <1>8, ConcatProperties
  <2>2. ASSUME NEW c \in 1..Len(s), c >= i
        PROVE  q[c - (i - 1)] = s[c]
    <3>1. c - (i - 1) \in 1..Len(s) - i + 1 /\ c - (i - 1) + i = c + 1
      BY <1>0, <2>2
    <3>2. q[c - (i - 1)] = t[c + 1]
      BY <1>8, <3>1
    <3>3. PICK d \in 1..Len(s) + 1 : d = c + 1 /\ ~(d < i) /\ d # i /\ d - 1 = c
      BY <1>0, <2>2
    <3>4. t[d] = s[d - 1]
      BY <1>5, <3>3
    <3>. QED
      BY <3>2, <3>3, <3>4
  <2>3. ASSUME NEW c \in 1..Len(s)
        PROVE  u[c] = s[c]
    <3>1. u[c] = IF c <= i - 1 THEN p[c] ELSE q[c - (i - 1)]
      <4>1. c \in 1..Len(p) + Len(q)
        BY <1>0, <1>7, <1>8
      <4>. QED
        BY <1>7, <2>1, <4>1
    <3>2. CASE c <= i - 1
      <4>1. c \in 1..i - 1
        BY <1>0, <3>2
      <4>. QED
        BY <1>7, <3>1, <3>2, <4>1
    <3>3. CASE c >= i
      BY <1>0, <2>2, <3>1, <3>3
    <3>. QED
      BY <1>0, <3>2, <3>3
  <2>. QED
    BY <1>0, <1>7, <1>8, <2>1, <2>3
<1>10. DOMAIN t = 1..Len(s) + 1
  <2>. HIDE DEF t
  <2>. QED
    BY <1>5
<1>. QED
  BY <1>5, <1>9, <1>10

\* The dates in order, without the master's and with it.
SortedDays == [c \in 1..Len(Slaves) |-> Slaves[DayIx(Slaves)[c]]]
Dates == RemoveAt(DayFull(Slaves), MasterIx(Slaves))

LEMMA DaysAre ==
    /\ MasterIx(Slaves) \in 1..Len(Slaves) + 1
    /\ DOMAIN DayFull(Slaves) = 1..Len(Slaves) + 1
    /\ \A c \in 1..Len(Slaves) + 1 :
         DayFull(Slaves)[c] = IF c < MasterIx(Slaves) THEN SortedDays[c]
                              ELSE IF c = MasterIx(Slaves) THEN Master ELSE SortedDays[c - 1]
    /\ DOMAIN Dates = 1..Len(Slaves)
    /\ \A c \in 1..Len(Slaves) : Dates[c] = SortedDays[c]
<1>1. SortedDays \in Seq(Nat) /\ Len(SortedDays) = Len(Slaves)
  BY InputsAre, DaysPermuted DEF SortedDays
<1>2. MasterIx(Slaves) \in 1..Len(Slaves) + 1
  <2>. DEFINE early == {i \in DOMAIN Slaves : Slaves[i] < Master}
  <2>1. early \in SUBSET (1..Len(Slaves))
    BY InputsAre
  <2>2. IsFiniteSet(1..Len(Slaves)) /\ Cardinality(1..Len(Slaves)) = Len(Slaves)
    <3>1. Len(Slaves) \in Nat
      BY InputsAre
    <3>. QED
      BY <3>1, UpTo
  <2>3. Cardinality(early) \in Nat /\ Cardinality(early) <= Len(Slaves)
    <3>. HIDE DEF early
    <3>. QED
      BY <2>1, <2>2, FS_Subset, FS_CardinalityType
  <2>. QED
    BY <2>3, InputsAre DEF MasterIx
<1>3. DayFull(Slaves) = InsertAt(SortedDays, MasterIx(Slaves), Master)
  BY DEF DayFull, SortedDays
<1>4. Master \in Nat
  BY InputsAre
<1>. DEFINE days == SortedDays
            mi == MasterIx(Slaves)
<1>5. days \in Seq(Nat) /\ Len(days) = Len(Slaves) /\ mi \in 1..Len(days) + 1
  BY <1>1, <1>2
<1>6. DayFull(Slaves) = InsertAt(days, mi, Master) /\ Dates = RemoveAt(InsertAt(days, mi, Master), mi)
  BY <1>3 DEF Dates
<1>7. /\ DOMAIN InsertAt(days, mi, Master) = 1..Len(days) + 1
      /\ \A c \in 1..Len(days) + 1 :
           InsertAt(days, mi, Master)[c] = IF c < mi THEN days[c] ELSE IF c = mi THEN Master ELSE days[c - 1]
      /\ DOMAIN RemoveAt(InsertAt(days, mi, Master), mi) = 1..Len(days)
      /\ \A c \in 1..Len(days) : RemoveAt(InsertAt(days, mi, Master), mi)[c] = days[c]
  <2>. HIDE DEF days, mi
  <2>. QED
    BY <1>4, <1>5, InsertedAndRemoved
<1>. QED
  BY <1>2, <1>5, <1>6, <1>7, Zenon

\* What text files and SNAP files say; they differ in the baselines only.
FromText == MetadataFromText(NoMat)
FromSnap == MetadataFromText(SnapBperp)

LEMMA MetadataAre ==
    /\ FromText.day_full = DayFull(Slaves) /\ FromText.master_ix = MasterIx(Slaves)
    /\ FromText.day_ix = DayIx(Slaves) /\ FromText.mat = NoMat
    /\ FromSnap.day_full = DayFull(Slaves) /\ FromSnap.master_ix = MasterIx(Slaves)
    /\ FromSnap.day_ix = DayIx(Slaves) /\ FromSnap.mat = SnapBperp
    /\ SnapBperp # NoMat
<1>1. DOMAIN SnapBperp = 1..NPs
  BY DEF SnapBperp
<1>2. 1 \in DOMAIN SnapBperp /\ 1 \notin DOMAIN NoMat
  BY <1>1, InputsAre DEF NoMat
<1>3. SnapBperp # NoMat
  BY <1>2
<1>. QED
  BY <1>3 DEF FromText, FromSnap, MetadataFromText, BuildMetadata

LEMMA PhaseCells ==
    \A r \in 1..NPs : \A c \in 1..Len(Slaves) + 1 :
        About(Ph1(FromText)[r][c], SortIx[r], DayFull(Slaves)[c])
<1>1. SUFFICES ASSUME NEW r \in 1..NPs, NEW c \in 1..Len(Slaves) + 1
               PROVE  About(Ph1(FromText)[r][c], SortIx[r], DayFull(Slaves)[c])
  OBVIOUS
<1>2. Ph1(FromText)[r][c] = PhaseCell(FromText, SortIx[r], c)
  BY DaysAre, MetadataAre DEF Ph1
<1>3. CASE c = MasterIx(Slaves)
  BY <1>2, <1>3, DaysAre, MetadataAre DEF PhaseCell, About
<1>4. CASE c < MasterIx(Slaves)
  <2>1. c \in 1..Len(Slaves)
    BY <1>4, DaysAre, InputsAre
  <2>2. DayFull(Slaves)[c] = Slaves[DayIx(Slaves)[c]]
    BY <1>4, <2>1, DaysAre DEF SortedDays
  <2>. QED
    BY <1>2, <1>4, <2>2, DaysAre, MetadataAre DEF PhaseCell, About
<1>5. CASE c > MasterIx(Slaves)
  <2>1. c - 1 \in 1..Len(Slaves)
    BY <1>5, DaysAre, InputsAre
  <2>2. DayFull(Slaves)[c] = SortedDays[c - 1]
    BY <1>5, DaysAre
  <2>3. SortedDays[c - 1] = Slaves[DayIx(Slaves)[c - 1]]
    BY <2>1 DEF SortedDays
  <2>. QED
    BY <1>2, <1>5, <2>2, <2>3, DaysAre, MetadataAre DEF PhaseCell, About
<1>. QED
  BY <1>3, <1>4, <1>5, DaysAre, InputsAre

\* The cells of bp1: means from text, per-candidate baselines from SNAP.
LEMMA BaselineCells ==
    \A r \in 1..NPs :
        /\ DOMAIN Bp1(FromText)[r] = 1..Len(Slaves) /\ DOMAIN Bp1(FromSnap)[r] = 1..Len(Slaves)
        /\ \A c \in 1..Len(Slaves) :
              /\ Bp1(FromText)[r][c] = <<0, Dates[c]>>
              /\ Bp1(FromSnap)[r][c] = <<SortIx[r], Dates[c]>>
<1>1. SUFFICES ASSUME NEW r \in 1..NPs
               PROVE  /\ DOMAIN Bp1(FromText)[r] = 1..Len(Slaves)
                      /\ DOMAIN Bp1(FromSnap)[r] = 1..Len(Slaves)
                      /\ \A c \in 1..Len(Slaves) :
                            /\ Bp1(FromText)[r][c] = <<0, Dates[c]>>
                            /\ Bp1(FromSnap)[r][c] = <<SortIx[r], Dates[c]>>
  OBVIOUS
<1>2. DOMAIN DayIx(Slaves) = 1..Len(Slaves)
  BY DaysPermuted
<1>3. Bp1(FromText)[r] = [c \in 1..Len(Slaves) |-> <<0, Dates[c]>>]
  BY <1>2, MetadataAre DEF Bp1, Dates
<1>4. Bp1(FromSnap)[r] = [c \in 1..Len(Slaves) |-> SnapBperp[SortIx[r]][DayIx(Slaves)[c]]]
  BY <1>2, MetadataAre DEF Bp1
<1>5. ASSUME NEW c \in 1..Len(Slaves)
      PROVE  SnapBperp[SortIx[r]][DayIx(Slaves)[c]] = <<SortIx[r], Dates[c]>>
  <2>1. SortIx[r] \in 1..NPs /\ DayIx(Slaves)[c] \in DOMAIN Slaves
    BY RowsPermuted, DaysPermuted, InputsAre
  <2>2. SnapBperp[SortIx[r]][DayIx(Slaves)[c]] = <<SortIx[r], Slaves[DayIx(Slaves)[c]]>>
    BY <2>1 DEF SnapBperp
  <2>. QED
    BY <2>2, DaysAre DEF SortedDays
<1>. QED
  BY <1>3, <1>4, <1>5

LEMMA SamePhase == Ph1(FromSnap) = Ph1(FromText)
BY MetadataAre DEF Ph1, PhaseCell

-----------------------------------------------------------------------------
\* The three text files are there: near the patch, or whole inside it.
TextDone == inputs.kind = "text" \/ \A f \in Text : Whole(f)

Baselines(x) == x = Bp1(FromText) \/ (SnapRecords /\ x = Bp1(FromSnap))

\* A stage that runs will have the text files, since those that are missing are still to be
\* written; it may know the baselines of the candidates only in a first run.
Promises ==
    /\ \A f \in Text : inputs.kind = "text" \/ f \in todo \/ Whole(f)
    /\ metadata = FromText \/ (SnapRecords /\ metadata = FromSnap)
    /\ last # NoResult => metadata = FromText
    /\ "ph1" \in todo \/ disk["ph1"] = Holds(Ph1(FromText))
    /\ "bp1" \in todo \/ disk["bp1"] = Holds(Bp1(metadata))

\* Without products of another implementation, ps1 comes after the text files.
Sources ==
    /\ Exists("ps1") => TextDone
    /\ \A f \in Text : f \in todo => ~Whole(f)
    /\ result = "refusing" => todo \subseteq Text
    /\ result = "running" => Promises
    /\ Whole("ph1") => disk["ph1"].v = Ph1(FromText)
    /\ Whole("bp1") => Baselines(disk["bp1"].v)
    /\ last # NoResult =>
         TextDone /\ last.ph1 = Ph1(FromText) /\ Baselines(last.bp1)

Files == Products \cup Text \cup Optional
Stage1Inv ==
    /\ Stage1TypeOK
    /\ DOMAIN disk = Files /\ \A f \in Files : disk[f] \in {Absent, Torn} \/ Whole(f)
    /\ inputs.kind = "old" \/ Sources

LEMMA Distinct ==
    /\ "ps1" \notin Text /\ "ph1" \notin Text /\ "bp1" \notin Text
    /\ Text \cap Optional = {} /\ Products \cap Text = {}
    /\ \A f \in Products \cup Optional, g \in Text : WriteOrder[g] < WriteOrder[f]
    /\ \A f \in Products \cup Text \cup Optional : WriteOrder[f] \in Nat
BY DEF Text, Optional, Products, WriteOrder

LEMMA ContentsAre ==
    /\ Contents("ph1") = Ph1(metadata) /\ Contents("bp1") = Bp1(metadata)
    /\ DOMAIN Ph1(metadata) = 1..NPs /\ DOMAIN Bp1(metadata) = 1..NPs
<1>1. Contents("ph1") = Ph1(metadata) /\ Contents("bp1") = Bp1(metadata)
  BY DEF Contents, Text, Optional
<1>. QED
  BY <1>1 DEF Ph1, Bp1

LEMMA Stage1Starts == Stage1Init => Stage1Inv
<1>1. SUFFICES ASSUME Stage1Init PROVE Stage1Inv
  OBVIOUS
<1>2. /\ todo = {} /\ result = "none" /\ last = NoResult /\ inputs.optional \subseteq Optional
      /\ disk = [f \in Products \cup Text \cup Optional |->
                   IF inputs.kind = "old" THEN OldProducts(f) ELSE Absent]
  BY <1>1 DEF Stage1Init
<1>3. ASSUME NEW f \in Products \cup Text \cup Optional
      PROVE  disk[f] = Absent \/ (inputs.kind = "old" /\ disk[f] = OldProducts(f))
  BY <1>2
<1>4. ASSUME NEW f \in Products \cup Text \cup Optional
      PROVE  disk[f] = Absent \/ Whole(f)
  <2>1. OldProducts(f) = Absent \/ \E x : OldProducts(f) = Holds(x)
    BY Zenon DEF OldProducts
  <2>. QED
    BY <1>3, <2>1 DEF Holds, Whole
<1>6. \A f \in Products \cup Text \cup Optional : disk[f].tag \in {"absent", "torn", "value"}
  BY <1>4 DEF Absent, Whole
<1>5. \A f \in {"ph1", "bp1"} : Whole(f) => DOMAIN disk[f].v = 1..NPs
  <2>1. OldProducts("ph1") = Absent
    BY DEF OldProducts
  <2>2. OldProducts("bp1").tag = "value" /\ DOMAIN OldProducts("bp1").v = 1..NPs
    BY DEF OldProducts, Holds
  <2>. QED
    BY <1>3, <2>1, <2>2 DEF Whole, Absent, Products
<1>7. Stage1TypeOK
  BY <1>2, <1>5, <1>6 DEF Stage1TypeOK
<1>8. inputs.kind # "old" => Sources
  BY <1>2, <1>3, Distinct DEF Sources, Exists, Whole, Absent, Products
<1>. QED
  BY <1>2, <1>4, <1>7, <1>8 DEF Stage1Inv, Files

LEMMA Stage1Stutters == Stage1Inv /\ UNCHANGED stage1Vars => Stage1Inv'
BY DEF Stage1Inv, Stage1TypeOK, Sources, Promises, TextDone, Baselines, SnapRecords,
       Exists, Whole, Files, stage1Vars

\* Why a run that starts has the dates of the text or the SNAP files: with ps1 there, the
\* text files are, too.
LEMMA StartedFrom ==
    ASSUME Stage1Inv, inputs.kind # "old", Resolves
    PROVE  /\ HasText => Metadata = FromText /\ ~UsesSnap
           /\ ~HasText => UsesSnap /\ SnapRecords /\ Metadata = FromSnap
           /\ HasText => TextDone
<1>1. TextDone => HasText
  BY DEF TextDone, HasText, Exists, Whole, Absent
<1>2. ~HasText => ~Exists("ps1")
  BY <1>1 DEF Stage1Inv, Sources
<1>3. ~HasText => ~HasOldPs1
  BY <1>2 DEF HasOldPs1, Exists, Whole, Absent
<1>4. HasText => Metadata = FromText /\ ~UsesSnap
  BY DEF Metadata, UsesSnap, FromText
<1>5. ~HasText => UsesSnap /\ SnapRecords /\ Metadata = FromSnap
  BY <1>3 DEF Resolves, UsesSnap, SnapUsable, Metadata, FromSnap
<1>6. HasText => TextDone
  <2>1. SUFFICES ASSUME HasText, inputs.kind # "text", NEW f \in Text
                 PROVE  Whole(f)
    BY DEF TextDone
  <2>2. ~TextTorn /\ Exists(f)
    BY <2>1 DEF Resolves, HasText, HasOldPs1, UsesSnap
  <2>. QED
    BY <2>1, <2>2 DEF TextTorn, Exists, Files, Stage1Inv
<1>. QED
  BY <1>4, <1>5, <1>6

LEMMA StartKeeps == Stage1Inv /\ Start => Stage1Inv'
<1>1. SUFFICES ASSUME Stage1Inv, Start PROVE Stage1Inv'
  OBVIOUS
<1>2. UNCHANGED <<inputs, disk, last>> /\ result' \in {"running", "refusing", "failed"}
  BY <1>1, Zenon DEF Start
<1>3. todo' \subseteq (IF UsesSnap THEN SnapTextIO ELSE {}) \cup ProductsIO
  BY <1>1, Zenon DEF Start
<1>4. todo' \subseteq Files
  BY <1>1, <1>3 DEF SnapTextIO, ProductsIO, Files, Stage1Inv, Stage1TypeOK
<1>5. Stage1TypeOK'
  BY <1>1, <1>2, <1>4 DEF Stage1Inv, Stage1TypeOK, Whole, Files
<1>6. (DOMAIN disk = Files /\ \A f \in Files : disk[f] \in {Absent, Torn} \/ Whole(f))'
  BY <1>1, <1>2 DEF Stage1Inv, Whole
<1>7. ASSUME inputs.kind # "old" PROVE Sources'
  <2>1. Sources
    BY <1>1, <1>7 DEF Stage1Inv
  <2>2. (Exists("ps1") => TextDone)'
    BY <1>2, <2>1 DEF Sources, Exists, TextDone, Whole
  <2>3. (\A f \in Text : f \in todo => ~Whole(f))'
    <3>1. SUFFICES ASSUME NEW f \in Text, f \in todo' PROVE ~Whole(f)'
      OBVIOUS
    <3>2. f \in SnapTextIO
      BY <1>1, <1>3, <3>1, Distinct DEF ProductsIO, Stage1Inv, Stage1TypeOK
    <3>. QED
      BY <1>2, <3>2 DEF SnapTextIO, Exists, Whole, Absent
  <2>4. (result = "refusing" => todo \subseteq Text)'
    BY <1>1 DEF Start, SnapTextIO
  <2>5. ASSUME result' = "running" PROVE Promises'
    <3>1. /\ Resolves /\ metadata' = Metadata
          /\ todo' = (IF UsesSnap THEN SnapTextIO ELSE {}) \cup ProductsIO
      BY <1>1, <2>5, Zenon DEF Start
    <3>2. "ph1" \in todo' /\ "bp1" \in todo'
      BY <3>1 DEF ProductsIO, Products
    <3>3. CASE HasText
      <4>1. metadata' = FromText /\ TextDone
        BY <1>1, <1>7, <3>1, <3>3, StartedFrom
      <4>. QED
        BY <1>2, <3>2, <4>1 DEF Promises, TextDone, Whole, SnapRecords
    <3>4. CASE ~HasText
      <4>1. metadata' = FromSnap /\ SnapRecords /\ SnapTextIO \subseteq todo'
        BY <1>1, <1>7, <3>1, <3>4, StartedFrom
      <4>0. ~TextTorn
        BY <1>1, <1>7, <3>1, <3>4, StartedFrom DEF Resolves, HasOldPs1, UsesSnap, Whole, Absent
      <4>2. \A f \in Text : f \in todo' \/ Whole(f)
        <5>1. SUFFICES ASSUME NEW f \in Text, f \notin todo' PROVE Whole(f)
          OBVIOUS
        <5>2. Exists(f) /\ ~TextTorn /\ inputs.kind # "text"
          BY <3>4, <4>0, <4>1, <5>1 DEF SnapTextIO, HasText
        <5>. QED
          BY <1>1, <5>1, <5>2 DEF TextTorn, Exists, Files, Stage1Inv
      <4>3. last = NoResult
        <5>1. ~TextDone
          BY <3>4 DEF TextDone, HasText, Exists, Whole, Absent
        <5>. QED
          BY <2>1, <5>1 DEF Sources
      <4>. QED
        BY <1>2, <3>2, <4>1, <4>2, <4>3 DEF Promises, Whole, SnapRecords
    <3>. QED
      BY <3>3, <3>4
  <2>6. (/\ Whole("ph1") => disk["ph1"].v = Ph1(FromText)
         /\ Whole("bp1") => Baselines(disk["bp1"].v)
         /\ last # NoResult =>
              TextDone /\ last.ph1 = Ph1(FromText) /\ Baselines(last.bp1))'
    BY <1>2, <2>1 DEF Sources, Whole, TextDone, Baselines, SnapRecords
  <2>. QED
    BY <2>2, <2>3, <2>4, <2>5, <2>6 DEF Sources
<1>. QED
  BY <1>2, <1>5, <1>6, <1>7 DEF Stage1Inv

\* A file that is being written: nothing else changes, and no other file comes first.
LEMMA WriteKeeps ==
    ASSUME Stage1Inv, NEW f \in todo, BeginWrite(f) \/ EndWrite(f)
    PROVE  Stage1Inv'
<1>1. /\ Turn(f) /\ UNCHANGED <<inputs, metadata, result, last>>
      /\ todo' \in {todo, todo \ {f}} /\ (f \in todo' => disk' = [disk EXCEPT ![f] = Torn])
      /\ f \notin todo' => disk' = [disk EXCEPT ![f] = Holds(Contents(f))]
  BY DEF BeginWrite, EndWrite
<1>2. f \in Files /\ todo \subseteq Files /\ result \in {"running", "refusing"}
  BY <1>1 DEF Stage1Inv, Stage1TypeOK, Files, Turn, Running
<1>3. /\ DOMAIN disk' = Files /\ \A g \in Files \ {f} : disk'[g] = disk[g]
      /\ f \in todo' => disk'[f] = Torn
      /\ f \notin todo' => disk'[f] = Holds(Contents(f))
  BY <1>1, <1>2 DEF Stage1Inv
<1>4. /\ disk'[f] = Torn \/ Whole(f)'
      /\ disk'[f].tag \in {"torn", "value"} /\ (Whole(f)' => disk'[f].v = Contents(f))
  BY <1>3 DEF Torn, Holds, Whole
<1>5. (DOMAIN disk = Files /\ \A g \in Files : disk[g] \in {Absent, Torn} \/ Whole(g))'
  BY <1>3, <1>4 DEF Stage1Inv, Whole
<1>6. Stage1TypeOK'
  <2>1. \A g \in {"ph1", "bp1"} : Whole(g)' => DOMAIN disk'[g].v = 1..NPs
    BY <1>3, <1>4, ContentsAre DEF Stage1Inv, Stage1TypeOK, Whole, Files, Products
  <2>. QED
    BY <1>1, <1>2, <1>3, <1>4, <2>1 DEF Stage1Inv, Stage1TypeOK, Files
<1>7. ASSUME inputs.kind # "old" PROVE Sources'
  <2>1. Sources
    BY <1>7 DEF Stage1Inv
  <2>2. ASSUME NEW g \in Text, f \notin Text, result = "running" \/ f = "ps1"
        PROVE  inputs.kind = "text" \/ Whole(g)
    <3>1. g \notin todo
      BY <1>1, <1>2, <2>2, Distinct DEF Turn, Files
    <3>2. result = "running"
      BY <1>2, <2>1, <2>2, Distinct DEF Sources
    <3>. QED
      BY <2>1, <3>1, <3>2 DEF Sources, Promises
  <2>3. \A g \in Text : Whole(g) => Whole(g)'
    BY <1>2, <1>3, <2>1 DEF Sources, Whole, Files
  <2>4. TextDone => TextDone'
    BY <1>1, <2>3 DEF TextDone
  <2>5. (Exists("ps1") => TextDone)'
    <3>1. CASE f = "ps1"
      BY <2>2, <2>4, <3>1, Distinct DEF TextDone
    <3>2. CASE f # "ps1"
      BY <1>3, <2>1, <2>4, <3>2 DEF Sources, Exists, Files, Products
    <3>. QED
      BY <3>1, <3>2
  <2>6. (\A g \in Text : g \in todo => ~Whole(g))'
    BY <1>1, <1>2, <1>3, <2>1 DEF Sources, Whole, Files, Torn
  <2>7. (result = "refusing" => todo \subseteq Text)'
    BY <1>1, <2>1 DEF Sources
  <2>8. ASSUME result = "running" PROVE Promises'
    <3>1. Promises
      BY <2>1, <2>8 DEF Sources
    <3>2. (\A g \in Text : inputs.kind = "text" \/ g \in todo \/ Whole(g))'
      BY <1>1, <1>3, <1>4, <2>3, <3>1 DEF Promises, Torn, Whole, Holds
    <3>3. ("ph1" \in todo \/ disk["ph1"] = Holds(Ph1(FromText)))'
      BY <1>1, <1>3, <3>1, ContentsAre, SamePhase DEF Promises, Files, Products
    <3>4. ("bp1" \in todo \/ disk["bp1"] = Holds(Bp1(metadata)))'
      BY <1>1, <1>3, <3>1, ContentsAre DEF Promises, Files, Products
    <3>5. (/\ metadata = FromText \/ (SnapRecords /\ metadata = FromSnap)
           /\ last # NoResult => metadata = FromText)'
      BY <1>1, <3>1 DEF Promises, SnapRecords
    <3>. QED
      BY <3>2, <3>3, <3>4, <3>5 DEF Promises
  <2>9. f \in {"ph1", "bp1"} => result = "running" /\ Promises
    BY <1>2, <2>1, Distinct DEF Sources
  <2>10. (/\ Whole("ph1") => disk["ph1"].v = Ph1(FromText)
          /\ Whole("bp1") => Baselines(disk["bp1"].v))'
    <3>1. (Whole("ph1") => disk["ph1"].v = Ph1(FromText))'
      BY <1>3, <1>4, <2>1, <2>9, ContentsAre, SamePhase
         DEF Sources, Promises, Whole, Files, Products
    <3>2. f = "bp1" => Baselines(Contents(f))
      BY <2>9, ContentsAre DEF Promises, Baselines
    <3>3. Whole("bp1")' => Baselines(disk'["bp1"].v)
      BY <1>3, <1>4, <2>1, <3>2 DEF Sources, Whole, Files, Products
    <3>4. (Whole("bp1") => Baselines(disk["bp1"].v))'
      BY <1>1, <3>3 DEF Baselines, SnapRecords
    <3>. QED
      BY <3>1, <3>4
  <2>11. (last # NoResult =>
            TextDone /\ last.ph1 = Ph1(FromText) /\ Baselines(last.bp1))'
    BY <1>1, <2>1, <2>4 DEF Sources, Baselines, SnapRecords
  <2>. QED
    BY <1>1, <2>5, <2>6, <2>7, <2>8, <2>10, <2>11 DEF Sources
<1>. QED
  BY <1>1, <1>5, <1>6, <1>7 DEF Stage1Inv

\* A run that ends, and a file that goes away.
LEMMA LeaveKeeps ==
    ASSUME Stage1Inv, UNCHANGED <<inputs, disk, last>>, todo' = {},
           result' \in {"ok", "failed", "killed"}
    PROVE  Stage1Inv'
BY Distinct DEF Stage1Inv, Stage1TypeOK, Sources, Whole, Exists, TextDone, Baselines, SnapRecords,
                Files

LEMMA FinishKeeps == Stage1Inv /\ Finish => Stage1Inv'
<1>1. SUFFICES ASSUME Stage1Inv, Finish PROVE Stage1Inv'
  OBVIOUS
<1>2. /\ result = "running" /\ todo = {} /\ todo' = {} /\ UNCHANGED <<inputs, disk>>
      /\ result' = "ok" /\ last' = [bp1 |-> disk["bp1"].v, ph1 |-> disk["ph1"].v]
  BY <1>1 DEF Finish, Leave
<1>3. Stage1TypeOK'
  BY <1>1, <1>2 DEF Stage1Inv, Stage1TypeOK, Whole
<1>4. ASSUME inputs.kind # "old" PROVE Sources'
  <2>1. Sources /\ Promises
    BY <1>1, <1>2, <1>4 DEF Stage1Inv, Sources
  <2>2. TextDone' /\ disk["ph1"].v = Ph1(FromText) /\ Baselines(disk["bp1"].v)
    BY <1>2, <2>1 DEF Promises, TextDone, Whole, Holds, Baselines
  <2>3. (TextDone /\ last.ph1 = Ph1(FromText) /\ Baselines(last.bp1))'
    BY <1>2, <2>2 DEF Baselines, SnapRecords
  <2>. QED
    BY <1>2, <2>1, <2>3 DEF Sources, Exists, Whole, Baselines, SnapRecords
<1>. QED
  BY <1>1, <1>2, <1>3, <1>4 DEF Stage1Inv, Whole

LEMMA DeleteKeeps == Stage1Inv /\ Delete => Stage1Inv'
<1>1. SUFFICES ASSUME Stage1Inv, ~Running, UNCHANGED <<inputs, todo, metadata, result, last>>,
                      NEW f \in Products \cup Text, f \in Text => disk[f] = Torn,
                      disk' = [disk EXCEPT ![f] = Absent]
               PROVE  Stage1Inv'
  BY DEF Delete
<1>2. f \in Files
  BY DEF Files
<1>3. DOMAIN disk' = Files /\ disk'[f] = Absent /\ \A g \in Files \ {f} : disk'[g] = disk[g]
  BY <1>1, <1>2 DEF Stage1Inv
<1>4. (DOMAIN disk = Files /\ \A g \in Files : disk[g] \in {Absent, Torn} \/ Whole(g))'
  BY <1>1, <1>3 DEF Stage1Inv, Whole
<1>5. Stage1TypeOK'
  BY <1>1, <1>3 DEF Stage1Inv, Stage1TypeOK, Whole, Absent, Files, Products
<1>6. ASSUME inputs.kind # "old" PROVE Sources'
  <2>1. Sources
    BY <1>1, <1>6 DEF Stage1Inv
  <2>2. \A g \in Text : Whole(g) <=> Whole(g)'
    BY <1>1, <1>3 DEF Whole, Absent, Torn, Files
  <2>3. Exists("ps1")' => Exists("ps1")
    BY <1>3 DEF Exists, Files, Products
  <2>4. \A g \in {"ph1", "bp1"} : Whole(g)' => Whole(g) /\ disk'[g] = disk[g]
    BY <1>3 DEF Whole, Absent, Files, Products
  <2>5. TextDone <=> TextDone'
    BY <1>1, <2>2 DEF TextDone
  <2>. QED
    BY <1>1, <2>1, <2>2, <2>3, <2>4, <2>5 DEF Sources, Running, Baselines, SnapRecords
<1>. QED
  BY <1>1, <1>4, <1>5, <1>6 DEF Stage1Inv

LEMMA Stage1Steps == Stage1Inv /\ Stage1Next => Stage1Inv'
<1>1. Stage1Inv /\ (RunPlanned \/ RunDirect) => Stage1Inv'
  BY StartKeeps DEF RunPlanned, RunDirect
<1>2. Stage1Inv /\ (Fail \/ Kill) => Stage1Inv'
  BY LeaveKeeps DEF Fail, Kill, Leave
<1>. QED
  BY <1>1, <1>2, WriteKeeps, FinishKeeps, DeleteKeeps DEF Stage1Next

LEMMA InvAligned == Stage1Inv => Stage1TypeOK /\ Aligned
<1>1. SUFFICES ASSUME Stage1Inv, inputs.kind # "old" PROVE RowsAligned
  BY DEF Stage1Inv, Aligned
<1>2. Sources
  BY <1>1 DEF Stage1Inv
<1>3. Whole("bp1") => \A r \in 1..NPs : \A c \in DOMAIN Dates :
        About(disk["bp1"].v[r][c], SortIx[r], Dates[c])
  BY <1>2, DaysAre, BaselineCells DEF Sources, Baselines, About
<1>4. Whole("ph1") => \A r \in 1..NPs : \A c \in DOMAIN DayFull(Slaves) :
        About(disk["ph1"].v[r][c], SortIx[r], DayFull(Slaves)[c])
  BY <1>2, DaysAre, PhaseCells DEF Sources
<1>. QED
  BY <1>3, <1>4 DEF RowsAligned, Dates

\* A run that succeeds when another one did before.
LEMMA RerunKeeps == Stage1Inv /\ Stage1Next => DegradesToMean
<1>0. SUFFICES ASSUME Stage1Inv, Stage1Next, result' = "ok", result = "running",
                      last # NoResult, inputs.kind # "old"
               PROVE  /\ last'.ph1 = last.ph1
                      /\ \A r \in 1..NPs : \A c \in DOMAIN last.bp1[r] :
                           \/ last'.bp1[r][c] = last.bp1[r][c]
                           \/ SnapRecords /\ last'.bp1[r][c] = <<0, last.bp1[r][c][2]>>
  BY DEF DegradesToMean
<1>1. Finish
  BY <1>0 DEF Stage1Next, RunPlanned, RunDirect, Start, Running, BeginWrite, EndWrite, Fail, Kill, Delete
<1>2. todo = {} /\ last' = [bp1 |-> disk["bp1"].v, ph1 |-> disk["ph1"].v]
  BY <1>1 DEF Finish
<1>3. Promises /\ last.ph1 = Ph1(FromText) /\ Baselines(last.bp1)
  BY <1>0 DEF Stage1Inv, Sources
<1>4. last'.ph1 = Ph1(FromText) /\ last'.bp1 = Bp1(FromText)
  BY <1>0, <1>2, <1>3 DEF Promises, Holds
<1>. QED
  BY <1>3, <1>4, BaselineCells DEF Baselines

\* The stage alone, whatever its candidates, dates and SNAP files.
THEOREM Stage1Aligned == Stage1Spec => [](Stage1TypeOK /\ Aligned) /\ RerunDegradesOnlyToMean
<1>1. Stage1Inv /\ [Stage1Next]_stage1Vars => Stage1Inv'
  BY Stage1Steps, Stage1Stutters
<1>2. Stage1Inv /\ [Stage1Next]_stage1Vars =>
        [DegradesToMean]_stage1Vars
  BY RerunKeeps
<1>. QED
  BY <1>1, <1>2, Stage1Starts, InvAligned, PTL DEF Stage1Spec, RerunDegradesOnlyToMean

-----------------------------------------------------------------------------
(* Stage 2.                                                                *)

LEMMA NumbersAre ==
    /\ NCand \in Nat /\ NCand > 0 /\ NIfg \in Nat /\ NIfg > 0
    /\ MaxIterations \in Nat /\ DefaultIterations \in Nat
BY InputsAssumption

LEMMA LeastNumber ==
    ASSUME NEW T \in SUBSET Nat, T # {}
    PROVE  \E x \in T : \A y \in T : x <= y
<1>1. PICK x \in T : \A y \in T : <<y, x>> \notin OpToRel(<, Nat)
  BY NatLessThanWellFounded, WFMin
<1>2. \A y \in T : ~(y < x)
  BY <1>1 DEF OpToRel
<1>. QED
  BY <1>2

\* A bounded set of numbers has a greatest one, and one bounded from below a least.
LEMMA Greatest ==
    ASSUME NEW S \in SUBSET Int, S # {}, NEW b \in Int, \A x \in S : x <= b
    PROVE  Max(S) \in S /\ \A x \in S : x <= Max(S)
<1>. DEFINE T == {b - x : x \in S}
<1>0. \A x \in S : b - x \in Nat
  OBVIOUS
<1>1. T \in SUBSET Nat /\ T # {}
  <2>1. \A t \in T : t \in Nat
    BY <1>0, Zenon
  <2>2. T # {}
    OBVIOUS
  <2>. HIDE DEF T
  <2>. QED
    BY <2>1, <2>2
<1>2. PICK t \in T : \A y \in T : t <= y
  <2>. HIDE DEF T
  <2>. QED
    BY <1>1, LeastNumber
<1>3. PICK x \in S : t = b - x
  BY <1>2
<1>4. \A y \in S : y <= x
  <2>1. SUFFICES ASSUME NEW y \in S PROVE y <= x
    OBVIOUS
  <2>2. t <= b - y
    BY <1>2, <2>1
  <2>. QED
    BY <1>3, <2>1, <2>2
<1>. QED
  BY <1>3, <1>4 DEF Max

LEMMA Smallest ==
    ASSUME NEW S \in SUBSET Int, S # {}, NEW b \in Int, \A x \in S : b <= x
    PROVE  Min(S) \in S /\ \A x \in S : Min(S) <= x
<1>. DEFINE T == {x - b : x \in S}
<1>0. \A x \in S : x - b \in Nat
  OBVIOUS
<1>1. T \in SUBSET Nat /\ T # {}
  <2>1. \A t \in T : t \in Nat
    BY <1>0, Zenon
  <2>2. T # {}
    OBVIOUS
  <2>. HIDE DEF T
  <2>. QED
    BY <2>1, <2>2
<1>2. PICK t \in T : \A y \in T : t <= y
  <2>. HIDE DEF T
  <2>. QED
    BY <1>1, LeastNumber
<1>3. PICK x \in S : t = x - b
  BY <1>2
<1>4. \A y \in S : x <= y
  <2>1. SUFFICES ASSUME NEW y \in S PROVE x <= y
    OBVIOUS
  <2>2. t <= y - b
    BY <1>2, <2>1
  <2>. QED
    BY <1>3, <2>1, <2>2
<1>. QED
  BY <1>3, <1>4 DEF Min

\* The numbers of a list have bounds.
LEMMA Bounded ==
    ASSUME NEW n \in Nat, NEW f \in [1..n -> Int]
    PROVE  \E b \in Int : \A i \in 1..n : f[i] <= b
<1>. DEFINE Has(m) == \E b \in Int : \A i \in 1..m : f[i] <= b
           Bad == {m \in 0..n : ~Has(m)}
<1>1. \A m \in 0..n : m \in Bad <=> ~Has(m)
  OBVIOUS
<1>2. Bad \in SUBSET Nat
  <2>1. Bad \subseteq 0..n
    OBVIOUS
  <2>. HIDE DEF Bad
  <2>. QED
    BY <2>1
<1>3. SUFFICES ASSUME Bad # {} PROVE FALSE
  <2>1. Bad = {} => Has(n)
    <3>. HIDE DEF Has, Bad
    <3>. QED
      BY <1>1
  <2>. QED
    BY <2>1
<1>4. PICK m \in Bad : \A y \in Bad : m <= y
  <2>. HIDE DEF Bad
  <2>. QED
    BY <1>2, <1>3, LeastNumber
<1>5. m \in 0..n /\ ~Has(m)
  OBVIOUS
<1>6. Has(0)
  <2>1. 0 \in Int /\ \A i \in 1..0 : f[i] <= 0
    OBVIOUS
  <2>. QED
    BY <2>1
<1>7. m \in 1..n /\ m - 1 \in 0..n
  <2>. HIDE DEF Has, Bad
  <2>. QED
    BY <1>5, <1>6
<1>8. Has(m - 1)
  <2>. HIDE DEF Has, Bad
  <2>. QED
    BY <1>1, <1>4, <1>7
<1>. HIDE DEF Bad
<1>9. PICK b \in Int : \A i \in 1..(m - 1) : f[i] <= b
  BY <1>8
<1>. HIDE DEF Has
<1>10. f[m] \in Int
  BY <1>7
<1>11. PICK c \in Int : b <= c /\ f[m] <= c
  BY <1>10
<1>12. \A i \in 1..m : f[i] <= c
  <2>1. SUFFICES ASSUME NEW i \in 1..m PROVE f[i] <= c
    OBVIOUS
  <2>2. CASE i = m
    BY <1>11, <2>2
  <2>3. CASE i # m
    <3>1. i \in 1..(m - 1) /\ i \in 1..n
      BY <1>7, <2>3
    <3>2. f[i] <= b /\ f[i] \in Int
      BY <1>9, <3>1
    <3>. QED
      BY <1>11, <3>2
  <2>. QED
    BY <2>2, <2>3
<1>13. Has(m)
  BY <1>12 DEF Has
<1>. QED
  BY <1>5, <1>13

\* The greater and the lesser of two numbers.
LEMMA MaxOfTwo ==
    ASSUME NEW a \in Int, NEW b \in Int
    PROVE  Max({a, b}) = IF a <= b THEN b ELSE a
<1>1. \A x \in {a, b} : x <= IF a <= b THEN b ELSE a
  OBVIOUS
<1>2. Max({a, b}) \in {a, b} /\ \A x \in {a, b} : x <= Max({a, b})
  BY <1>1, Greatest
<1>. QED
  BY <1>2

LEMMA MinOfTwo ==
    ASSUME NEW a \in Int, NEW b \in Int
    PROVE  Min({a, b}) = IF a <= b THEN a ELSE b
<1>1. \A x \in {a, b} : (IF a <= b THEN a ELSE b) <= x
  OBVIOUS
<1>2. Min({a, b}) \in {a, b} /\ \A x \in {a, b} : Min({a, b}) <= x
  BY <1>1, Smallest
<1>. QED
  BY <1>2

-----------------------------------------------------------------------------
\* The windows.

\* Four steps fit into a window of four cells or more.
LEMMA StepFits ==
    ASSUME NEW w \in Nat \ {0}
    PROVE  Step(w) \in Nat \ {0} /\ (w >= 4 => 4 * Step(w) <= w)
<1>1. w \div 4 \in Nat /\ 4 * (w \div 4) <= w /\ (w >= 4 => w \div 4 >= 1)
  BY SMT
<1>2. Step(w) = IF 1 <= w \div 4 THEN w \div 4 ELSE 1
  BY <1>1, MaxOfTwo DEF Step
<1>. QED
  BY <1>1, <1>2

LEMMA RoundedUp ==
    ASSUME NEW n \in Nat, NEW d \in Nat \ {0}, NEW q, q = (n + d - 1) \div d
    PROVE  q \in Nat /\ n <= q * d /\ (n > 0 => (q - 1) * d < n /\ q > 0)
BY SMT

\* Where the windows of an axis begin, and how many there are.
LEMMA Counted ==
    ASSUME NEW n \in Nat, NEW w \in Nat \ {0}, NEW m, m = WindowCount(n, w)
    PROVE  m \in Int /\ n <= (m - 1) * Step(w) + 4 * Step(w)
           /\ (n > 0 => (m - 1) * Step(w) + 3 * Step(w) < n)
<1>. DEFINE s == Step(w)
            q == CeilDiv(n, s)
<1>1. s \in Nat \ {0}
  BY StepFits
<1>. HIDE DEF s
<1>2. q \in Nat /\ n <= q * s /\ (n > 0 => (q - 1) * s < n)
  <2>1. q = (n + s - 1) \div s
    BY Zenon DEF CeilDiv
  <2>2. s \in Nat \ {0} /\ n \in Nat
    BY <1>1
  <2>. HIDE DEF q
  <2>. QED
    BY <2>1, <2>2, SMT
<1>3. m = q - 3
  BY DEF WindowCount, s
<1>. HIDE DEF q
<1>4. (m - 1) * s + 4 * s = q * s /\ (m - 1) * s + 3 * s = (q - 1) * s
  BY <1>1, <1>2, <1>3, SMT
<1>. QED
  BY <1>2, <1>3, <1>4 DEF s

LEMMA Begins ==
    ASSUME NEW n \in Nat, NEW w \in Nat \ {0}, NEW q \in Nat \ {0}
    PROVE  /\ (q - 1) * Step(w) \in Nat
           /\ WindowAt(n, w, q).first =
                IF (q - 1) * Step(w) + w > n THEN n - w ELSE (q - 1) * Step(w)
           /\ WindowAt(n, w, q).shift =
                IF (q - 1) * Step(w) + w > n THEN (q - 1) * Step(w) + w - n ELSE 0
<1>1. (q - 1) * Step(w) \in Nat
  BY StepFits, SMT
<1>. QED
  BY <1>1 DEF WindowAt

\* A window that is moved back keeps its weights in place.
LEMMA WeightsStay ==
    ASSUME NEW n \in Nat, NEW w \in Nat \ {0}
    PROVE  Stays(n, w)
<1>1. SUFFICES ASSUME NEW q \in 1..WindowCount(n, w), NEW i \in 0..w - 1
               PROVE  WindowAt(n, w, q).first + i - (q - 1) * Step(w)
                        = i - WindowAt(n, w, q).shift
  BY DEF Stays
<1>2. q \in Nat \ {0}
  BY Counted
<1>. DEFINE b == (q - 1) * Step(w)
            win == WindowAt(n, w, q)
<1>3. b \in Nat /\ win.first = (IF b + w > n THEN n - w ELSE b)
      /\ win.shift = (IF b + w > n THEN b + w - n ELSE 0)
  BY <1>2, Begins, Zenon
<1>4. win.first + i - b = i - win.shift
  <2>. HIDE DEF b, win
  <2>. QED
    BY <1>3
<1>. QED
  BY <1>4

\* Half of an even length is the middle of the ramp.
LEMMA RampInside ==
    ASSUME NEW w \in Nat \ {0}, w % 2 = 0, NEW i \in 0..w - 1
    PROVE  Ramp(w, i) \in Nat
<1>1. w \div 2 \in Nat /\ 2 * (w \div 2) = w
  BY SMT
<1>. QED
  BY <1>1 DEF Ramp

\* Every cell of an axis that is as long as an even window has a weight from one.
LEMMA AxisCovered ==
    ASSUME NEW n \in Nat, NEW w \in Nat, w >= 4, w % 2 = 0, n >= w, NEW x \in 1..n
    PROVE  \E win \in AxisWindows(n, w) :
             /\ Inside(w, win, x)
             /\ ~(x - win.first - 1 < win.shift)
             /\ Ramp(w, x - win.first - 1 - win.shift) \in Nat
<1>. DEFINE s == Step(w)
            m == WindowCount(n, w)
            p == (x - 1) \div s + 1
            q == IF p <= m THEN p ELSE m
            b == (q - 1) * s
            win == WindowAt(n, w, q)
<1>1. s \in Nat \ {0} /\ 4 * s <= w
  BY StepFits
<1>2. m \in Int /\ n <= (m - 1) * s + 4 * s
  BY Counted
<1>. HIDE DEF s, m
<1>3. m \in Nat \ {0}
  <2>1. (m - 1) * s >= 0
    BY <1>1, <1>2
  <2>2. ASSUME m - 1 <= -1 PROVE FALSE
    <3>1. (m - 1) * s <= -1 * s
      BY <1>1, <1>2, <2>2, SMT
    <3>. QED
      BY <1>1, <1>2, <2>1, <3>1
  <2>. QED
    BY <1>2, <2>2
<1>4. p \in Nat \ {0} /\ (p - 1) * s <= x - 1 /\ x - 1 < (p - 1) * s + s
  <2>. DEFINE j == (x - 1) \div s
  <2>1. j \in Nat /\ j * s <= x - 1 /\ x - 1 < j * s + s
    BY <1>1, SMT
  <2>2. p - 1 = j
    <3>. HIDE DEF j
    <3>1. j \in Nat
      BY <2>1
    <3>. QED
      BY <3>1 DEF j
  <2>. QED
    BY <2>1, <2>2
<1>. HIDE DEF p
<1>5. q \in 1..m
  BY <1>3, <1>4
<1>6. b \in Nat /\ b <= x - 1 /\ x - 1 < b + w
  <2>1. CASE p <= m
    BY <1>1, <1>4, <2>1
  <2>2. CASE ~(p <= m)
    <3>1. q = m /\ m <= p - 1
      BY <1>3, <1>4, <2>2
    <3>2. (m - 1) * s \in Nat /\ (m - 1) * s <= (p - 1) * s
      BY <1>1, <1>3, <1>4, <3>1, SMT
    <3>3. b = (m - 1) * s
      BY <3>1
    <3>. HIDE DEF b
    <3>. QED
      BY <1>1, <1>2, <1>4, <3>2, <3>3
  <2>. QED
    BY <2>1, <2>2
<1>. HIDE DEF q
<1>7. /\ win.first = IF b + w > n THEN n - w ELSE b
      /\ win.shift = IF b + w > n THEN b + w - n ELSE 0
  <2>1. q \in Nat \ {0} /\ w \in Nat \ {0}
    BY <1>3, <1>5
  <2>. QED
    BY <2>1, Begins, Zenon DEF s
<1>8. win \in AxisWindows(n, w)
  BY <1>5, Zenon DEF m, AxisWindows
<1>. HIDE DEF b, win
<1>9. x - win.first - 1 - win.shift = x - 1 - b /\ x - 1 - b \in 0..w - 1
  BY <1>6, <1>7
<1>10. win.first < x /\ x <= win.first + w /\ ~(x - win.first - 1 < win.shift)
  BY <1>6, <1>7
<1>11. Ramp(w, x - win.first - 1 - win.shift) \in Nat
  BY <1>9, RampInside
<1>. QED
  BY <1>8, <1>10, <1>11 DEF Inside

\* A grid that holds an even window has a window over every cell.
LEMMA CellCovered ==
    ASSUME NEW w \in Nat, w >= 4, w % 2 = 0, prep.ni \in Nat, prep.nj \in Nat,
           prep.ni >= w, prep.nj >= w, NEW c \in GridCells
    PROVE  WindowsOver(w, c) # {}
<1>1. c[1] \in 1..prep.ni /\ c[2] \in 1..prep.nj
  BY DEF GridCells
<1>2. PICK wi \in AxisWindows(prep.ni, w) :
        /\ Inside(w, wi, c[1]) /\ ~(c[1] - wi.first - 1 < wi.shift)
        /\ Ramp(w, c[1] - wi.first - 1 - wi.shift) \in Nat
  BY <1>1, AxisCovered
<1>3. PICK wj \in AxisWindows(prep.nj, w) :
        /\ Inside(w, wj, c[2]) /\ ~(c[2] - wj.first - 1 < wj.shift)
        /\ Ramp(w, c[2] - wj.first - 1 - wj.shift) \in Nat
  BY <1>1, AxisCovered
<1>. DEFINE a == Ramp(w, c[1] - wi.first - 1 - wi.shift)
            b == Ramp(w, c[2] - wj.first - 1 - wj.shift)
<1>4. a # NaN /\ b # NaN /\ a + b # NaN
  <2>1. a \in Nat /\ b \in Nat
    BY <1>2, <1>3
  <2>. HIDE DEF a, b
  <2>. QED
    BY <2>1 DEF NaN
<1>5. WeightAt(w, wi, wj, c[1] - wi.first - 1, c[2] - wj.first - 1) # NaN
  BY <1>2, <1>3, <1>4, Zenon DEF WeightAt
<1>6. <<wi, wj>> \in WindowsOver(w, c)
  BY <1>2, <1>3, <1>5 DEF WindowsOver
<1>. QED
  BY <1>6

\* A window is placed before the first cell only on an axis that is shorter.
LEMMA Band ==
    ASSUME NEW n \in Nat \ {0}, NEW w \in Nat \ {0},
           ~(WindowCount(n, w) <= 0), Underflows(n, w)
    PROVE  n \in 3 * Step(w) + 1 .. w - 1
<1>. DEFINE m == WindowCount(n, w)
            s == Step(w)
<1>1. s \in Nat \ {0}
  BY StepFits
<1>2. m \in Int /\ (m - 1) * s + 3 * s < n
  BY Counted
<1>3. 3 * s < n
  <2>. HIDE DEF m, s
  <2>1. m \in Nat \ {0}
    BY <1>2 DEF m
  <2>2. (m - 1) * s \in Nat
    BY <1>1, <2>1, SMT
  <2>. QED
    BY <1>1, <1>2, <2>2
<1>4. PICK q \in 1..m : WindowAt(n, w, q).first < 0
  BY DEF Underflows, AxisWindows
<1>5. q \in Nat \ {0}
  BY <1>2, <1>4
<1>. DEFINE b == (q - 1) * s
<1>6. b \in Nat /\ WindowAt(n, w, q).first = IF b + w > n THEN n - w ELSE b
  BY <1>5, Begins, Zenon
<1>7. n < w
  <2>. HIDE DEF b
  <2>. QED
    BY <1>4, <1>6
<1>. QED
  BY <1>1, <1>3, <1>7

-----------------------------------------------------------------------------
\* The histogram.

\* With equal spacing a center is as many distances from the first as it has before it.
LEMMA EquallySpaced ==
    ASSUME EqualSpacing(Centers), NEW i \in 1..Len(Centers)
    PROVE  Centers[i] = Centers[1] + (i - 1) * (Centers[2] - Centers[1])
<1>. DEFINE cs == Centers
            d == cs[2] - cs[1]
            Right(j) == cs[j] = cs[1] + (j - 1) * d
            Bad == {j \in 1..Len(cs) : ~Right(j)}
<1>1. /\ Len(cs) \in Nat /\ Len(cs) >= 2 /\ d \in Int
      /\ \A j \in 1..Len(cs) : cs[j] \in Int
  BY InputsAssumption
<1>2. \A j \in 2..Len(cs) - 1 : cs[j + 1] - cs[j] = d
  BY DEF EqualSpacing
<1>. HIDE DEF cs, d
<1>3. SUFFICES ASSUME Bad # {} PROVE FALSE
  BY DEF cs, d
<1>4. \A j \in Bad : j \in 1..Len(cs) /\ ~Right(j)
  OBVIOUS
<1>5. \A j \in 1..Len(cs) : ~Right(j) => j \in Bad
  OBVIOUS
<1>. HIDE DEF Bad
<1>6. PICK j \in Bad : \A y \in Bad : j <= y
  <2>1. Bad \in SUBSET Nat
    <3>. HIDE DEF Right
    <3>. QED
      BY <1>1, <1>4
  <2>. QED
    BY <1>3, <2>1, LeastNumber
<1>7. j \in 1..Len(cs) /\ ~Right(j)
  BY <1>4, <1>6
<1>8. Right(1)
  BY <1>1
<1>9. Right(2)
  BY <1>1 DEF d
<1>10. j - 1 \in 2..Len(cs) - 1
  <2>. HIDE DEF Right
  <2>. QED
    BY <1>1, <1>7, <1>8, <1>9
<1>11. Right(j - 1)
  <2>. HIDE DEF Right
  <2>1. j - 1 \in 1..Len(cs) /\ ~(j <= j - 1)
    BY <1>1, <1>7, <1>10
  <2>. QED
    BY <1>5, <1>6, <2>1, Zenon
<1>12. cs[j - 1 + 1] - cs[j - 1] = d
  BY <1>2, <1>10
<1>13. cs[j] = cs[j - 1] + d
  <2>1. j - 1 + 1 = j /\ cs[j] \in Int /\ cs[j - 1] \in Int
    BY <1>1, <1>7, <1>10
  <2>. QED
    BY <1>1, <1>12, <2>1
<1>14. cs[j - 1] = cs[1] + (j - 1 - 1) * d
  BY <1>11
<1>15. (j - 1 - 1) * d + d = (j - 1) * d
  BY <1>1, <1>7, SMT
<1>16. cs[1] \in Int /\ (j - 1 - 1) * d \in Int
  BY <1>1, <1>7, SMT
<1>17. Right(j)
  BY <1>1, <1>13, <1>14, <1>15, <1>16
<1>. QED
  BY <1>7, <1>17

\* Both ways of finding the bin count the midpoints below the value.
LEMMA SameBin ==
    ASSUME EqualSpacing(Centers), NEW v \in Int
    PROVE  EqualIndex(Centers, v) = MidIndex(Centers, v)
<1>. DEFINE cs == Centers
            L == Len(cs)
            d == cs[2] - cs[1]
            up == v - (cs[1] + cs[2])
            q == IF up <= 0 THEN 0 ELSE CeilDiv(up, 2 * d)
            m == IF L - 1 <= q THEN L - 1 ELSE q
            Below == {i \in 1..L - 1 : cs[i] + cs[i + 1] < v}
<1>1. /\ L \in Nat /\ L >= 2 /\ d \in Nat \ {0}
      /\ \A j \in 1..L : cs[j] \in Int
  BY InputsAssumption
<1>2. up \in Int /\ cs[1] \in Int /\ cs[2] = cs[1] + d /\ cs[1] + cs[2] + up = v
  BY <1>1
<1>3. \A i \in 1..L - 1 : cs[i] + cs[i + 1] < v <=> (i - 1) * (2 * d) < up
  <2>1. SUFFICES ASSUME NEW i \in 1..L - 1
                 PROVE  cs[i] + cs[i + 1] < v <=> (i - 1) * (2 * d) < up
    OBVIOUS
  <2>2. i \in 1..L /\ i + 1 \in 1..L
    BY <1>1, <2>1
  <2>3. cs[i] = cs[1] + (i - 1) * d /\ cs[i + 1] = cs[1] + (i + 1 - 1) * d
    <3>1. \A j \in 1..L : cs[j] = cs[1] + (j - 1) * d
      BY EquallySpaced, Zenon
    <3>. HIDE DEF cs, d, L
    <3>2. cs[i] = cs[1] + (i - 1) * d
      BY <2>2, <3>1
    <3>3. cs[i + 1] = cs[1] + (i + 1 - 1) * d
      BY <2>2, <3>1
    <3>. QED
      BY <3>2, <3>3
  <2>. HIDE DEF cs, d, up, L
  <2>4. (i + 1 - 1) * d = (i - 1) * d + d /\ (i - 1) * (2 * d) = (i - 1) * d + (i - 1) * d
        /\ (i - 1) * d \in Int
    BY <1>1, <2>1, SMT
  <2>. QED
    BY <1>1, <1>2, <2>3, <2>4
<1>4. q \in Nat /\ \A i \in 1..L - 1 : (i - 1) * (2 * d) < up <=> i <= q
  <2>1. CASE up <= 0
    <3>1. q = 0
      BY <2>1
    <3>2. ASSUME NEW i \in 1..L - 1 PROVE ~((i - 1) * (2 * d) < up)
      <4>. HIDE DEF cs, d, up, L
      <4>1. (i - 1) * (2 * d) >= 0 /\ (i - 1) * (2 * d) \in Int
        BY <1>1, <3>2, SMT
      <4>. QED
        BY <1>2, <2>1, <4>1
    <3>. HIDE DEF q, cs, d, up, L
    <3>. QED
      BY <1>1, <3>1, <3>2
  <2>2. CASE ~(up <= 0)
    <3>. DEFINE e == 2 * d
    <3>1. q = (up + e - 1) \div e
      BY <2>2, Zenon DEF CeilDiv
    <3>2. e \in Nat \ {0} /\ up \in Nat \ {0}
      <4>. HIDE DEF cs, d, up, L, q
      <4>. QED
        BY <1>1, <1>2, <2>2
    <3>. HIDE DEF q, cs, d, up, L, e
    <3>3. q \in Nat /\ up <= q * e /\ (q - 1) * e < up
      BY <3>1, <3>2, SMT
    <3>4. ASSUME NEW i \in 1..L - 1 PROVE (i - 1) * e < up <=> i <= q
      <4>1. CASE i <= q
        <5>1. (i - 1) * e <= (q - 1) * e /\ (i - 1) * e \in Int /\ (q - 1) * e \in Int
          BY <1>1, <3>2, <3>3, <3>4, <4>1, SMT
        <5>. QED
          BY <3>2, <3>3, <4>1, <5>1
      <4>2. CASE ~(i <= q)
        <5>1. q * e <= (i - 1) * e /\ (i - 1) * e \in Int /\ q * e \in Int
          BY <1>1, <3>2, <3>3, <3>4, <4>2, SMT
        <5>. QED
          BY <3>2, <3>3, <4>2, <5>1
      <4>. QED
        BY <4>1, <4>2
    <3>. QED
      BY <3>3, <3>4 DEF e
  <2>. QED
    BY <2>1, <2>2
<1>5. Below = 1..m
  <2>1. \A i \in 1..L - 1 : cs[i] + cs[i + 1] < v <=> i <= q
    <3>. HIDE DEF cs, d, up, L, q
    <3>. QED
      BY <1>3, <1>4
  <2>2. Below = {i \in 1..L - 1 : i <= q}
    <3>. HIDE DEF q, L
    <3>. QED
      BY <2>1, Zenon
  <2>3. {i \in 1..L - 1 : i <= q} = 1..m
    <3>1. q \in Nat /\ L \in Nat /\ L >= 2
      BY <1>1, <1>4
    <3>. HIDE DEF q, L
    <3>. QED
      BY <3>1
  <2>. QED
    BY <2>2, <2>3
<1>6. m \in Nat
  <2>1. q \in Nat /\ L \in Nat /\ L >= 2
    BY <1>1, <1>4
  <2>. HIDE DEF q, L
  <2>. QED
    BY <2>1
<1>7. MidIndex(Centers, v) = m
  <2>1. MidIndex(Centers, v) = Cardinality(1..m)
    <3>1. MidIndex(Centers, v) = Cardinality(Below)
      BY Zenon DEF MidIndex
    <3>. HIDE DEF Below, m
    <3>. QED
      BY <1>5, <3>1
  <2>. HIDE DEF m
  <2>2. Cardinality(1..m) = m
    BY <1>6, FS_Interval
  <2>. QED
    BY <2>1, <2>2
<1>8. EqualIndex(Centers, v) = m
  <2>1. EqualIndex(Centers, v) = Min({L - 1, q})
    BY Zenon DEF EqualIndex
  <2>2. L - 1 \in Int /\ q \in Int
    BY <1>1, <1>4
  <2>. HIDE DEF L, q
  <2>3. Min({L - 1, q}) = m
    BY <2>2, MinOfTwo
  <2>. QED
    BY <2>1, <2>3
<1>. QED
  BY <1>7, <1>8

-----------------------------------------------------------------------------
\* The grid.

LEMMA BoundedSet ==
    ASSUME NEW f \in [Cand -> Int]
    PROVE  \E b \in Int : \A r \in Cand : f[r] <= b
BY NumbersAre, Bounded DEF Cand

\* Every candidate has a cell of the grid.
LEMMA InGrid ==
    ASSUME NEW xy \in GridLayouts, NEW a \in {1, 2}
    PROVE  /\ Size(xy, a) \in Nat \ {0}
           /\ \A r \in Cand : Moved(xy, a, r) \in 1..Size(xy, a)
<1>. DEFINE V == {xy[s][a] : s \in Cand}
            Ix(r) == Index(xy, a, r)
            T == {Ix(r) : r \in Cand}
            top == LastIndex(xy, a)
            Mv(r) == Moved(xy, a, r)
            M == {1} \cup {Mv(r) : r \in Cand}
<1>1. \A r \in Cand : xy[r][a] \in Nat
  <2>1. xy \in [1..NCand -> Nat \X Nat]
    BY InputsAssumption DEF Cand
  <2>2. SUFFICES ASSUME NEW r \in Cand PROVE xy[r][a] \in Nat
    OBVIOUS
  <2>3. xy[r] \in Nat \X Nat
    BY <2>1 DEF Cand
  <2>4. xy[r][1] \in Nat /\ xy[r][2] \in Nat
    BY <2>3
  <2>5. CASE a = 1
    BY <2>4, <2>5
  <2>6. CASE a = 2
    BY <2>4, <2>6
  <2>. QED
    BY <2>5, <2>6
<1>2. 1 \in Cand
  BY NumbersAre DEF Cand
<1>3. Min(V) \in Int /\ \A r \in Cand : Min(V) <= xy[r][a]
  <2>1. V \in SUBSET Int /\ V # {} /\ \A x \in V : 0 <= x
    <3>1. \A x \in V : x \in Nat
      BY <1>1, Zenon
    <3>2. V # {}
      BY <1>2
    <3>. HIDE DEF V
    <3>. QED
      BY <3>1, <3>2
  <2>2. \A r \in Cand : xy[r][a] \in V
    OBVIOUS
  <2>. HIDE DEF V
  <2>3. Min(V) \in V /\ \A x \in V : Min(V) <= x
    BY <2>1, Smallest
  <2>. QED
    BY <2>1, <2>2, <2>3
<1>4. \A r \in Cand : Ix(r) \in Int /\ Ix(r) >= 1
  <2>1. \A r \in Cand : Ix(r) = xy[r][a] - Min(V) + 1
    BY Zenon DEF Index
  <2>. HIDE DEF V, Ix
  <2>. QED
    BY <1>1, <1>3, <2>1
<1>5. top \in Int /\ \A r \in Cand : Ix(r) <= top
  <2>. HIDE DEF Ix
  <2>1. PICK b \in Int : \A r \in Cand : [q \in Cand |-> Ix(q)][r] <= b
    BY <1>4, BoundedSet
  <2>2. \A r \in Cand : Ix(r) \in T
    OBVIOUS
  <2>3. \A x \in T : x \in Int /\ x <= b
    <3>1. \A r \in Cand : Ix(r) <= b
      BY <2>1
    <3>. QED
      BY <1>4, <3>1, Zenon
  <2>4. top = Max(T)
    BY Zenon DEF LastIndex, Ix
  <2>5. T # {}
    BY <1>2, <2>2
  <2>. HIDE DEF T, top
  <2>6. Max(T) \in T /\ \A x \in T : x <= Max(T)
    BY <2>3, <2>5, Greatest
  <2>. QED
    BY <2>2, <2>3, <2>4, <2>6
<1>6. \A r \in Cand : Mv(r) \in Int /\ Mv(r) >= 1
  <2>1. \A r \in Cand : Mv(r) = IF top > 1 /\ Ix(r) = top THEN top - 1 ELSE Ix(r)
    BY Zenon DEF Moved
  <2>. HIDE DEF Ix, top, Mv
  <2>. QED
    BY <1>4, <1>5, <2>1
<1>7. Size(xy, a) = Max(M)
  BY Zenon DEF Size
<1>. HIDE DEF Mv
<1>8. PICK b \in Int : \A r \in Cand : [q \in Cand |-> Mv(q)][r] <= b
  BY <1>6, BoundedSet
<1>9. PICK c \in Int : 1 <= c /\ b <= c
  OBVIOUS
<1>10. \A x \in M : x \in Int /\ x <= c
  <2>1. \A r \in Cand : Mv(r) \in Int /\ Mv(r) <= c
    BY <1>6, <1>8, <1>9
  <2>2. 1 \in Int /\ 1 <= c
    BY <1>9
  <2>. QED
    BY <2>1, <2>2, Zenon
<1>11. 1 \in M /\ \A r \in Cand : Mv(r) \in M
  OBVIOUS
<1>12. Max(M) \in Int /\ \A x \in M : x <= Max(M)
  <2>. HIDE DEF M
  <2>1. M \in SUBSET Int /\ M # {}
    BY <1>10, <1>11
  <2>. QED
    BY <1>10, <2>1, Greatest
<1>13. Max(M) \in Nat \ {0} /\ \A r \in Cand : Mv(r) \in 1..Max(M)
  <2>. HIDE DEF M
  <2>. QED
    BY <1>6, <1>11, <1>12
<1>. QED
  BY <1>7, <1>13 DEF Mv

-----------------------------------------------------------------------------
\* The baselines of the rows that are the same.
LEMMA SameRows ==
    ASSUME inp.bp \in BaselineFiles, inp.bp # <<>>, Accepted(inp.bp),
           NEW r \in Cand, NEW c \in 1..NIfg
    PROVE  Baseline(inp.bp, r, c) = BperpMat(inp.bp)[r][c]
<1>. DEFINE bp == inp.bp
            mat == BperpMat(bp)
            rows == Oriented(bp)
<1>1. bp \in Seq(Seq(Int)) /\ Len(bp) # 0
  BY InputsAssumption
<1>2. rows # <<>>
  BY DEF Accepted
<1>3. Cand \subseteq DOMAIN rows
  <2>1. CASE Len(bp) = NCand
    <3>1. rows = bp
      BY <2>1 DEF Oriented
    <3>. QED
      BY <1>1, <2>1, <3>1 DEF Cand
  <2>2. CASE Len(bp) # NCand /\ Len(bp[1]) = NCand
    <3>1. rows = Transposed(bp)
      BY <2>2 DEF Oriented
    <3>2. bp[1] \in Seq(Int)
      BY <1>1
    <3>3. DOMAIN rows = DOMAIN bp[1]
      BY <3>1 DEF Transposed
    <3>. QED
      BY <2>2, <3>2, <3>3 DEF Cand
  <2>. QED
    BY <1>2, <2>1, <2>2 DEF Oriented
<1>4. Cand \subseteq DOMAIN mat
  <2>1. CASE Columns(bp) = NIfg
    BY <1>3, <2>1, Zenon DEF BperpMat
  <2>2. CASE Columns(bp) # NIfg
    <3>1. mat = [q \in Cand |-> RemoveAt(rows[q], MasterColumn)]
      BY <2>2, Zenon DEF BperpMat
    <3>. HIDE DEF mat
    <3>. QED
      BY <3>1
  <2>. QED
    BY <2>1, <2>2
<1>5. Baseline(bp, r, c) = IF RowInvariant(mat) THEN mat[1][c] ELSE mat[r][c]
  BY Zenon DEF Baseline
<1>6. RowInvariant(mat) => mat[r][c] = mat[1][c]
  BY <1>4, Zenon DEF RowInvariant
<1>. QED
  BY <1>5, <1>6, Zenon

-----------------------------------------------------------------------------
\* The loop.

\* The limit of the iterations is one of the numbers that TypeOK names.
LEMMA Limits ==
    /\ Max({1, MaxIterations, DefaultIterations}) \in Nat \ {0}
    /\ Max({1, Limit}) \in Nat \ {0}
    /\ Max({1, Limit}) <= Max({1, MaxIterations, DefaultIterations})
<1>. DEFINE A == {1, MaxIterations, DefaultIterations}
            top == Max(A)
            lim == Limit
<1>1. top \in Nat \ {0} /\ 1 <= top /\ MaxIterations <= top /\ DefaultIterations <= top
  <2>1. A \in SUBSET Int /\ A # {} /\ \A x \in A : x <= 1 + MaxIterations + DefaultIterations
    BY NumbersAre
  <2>2. 1 + MaxIterations + DefaultIterations \in Int
    BY NumbersAre
  <2>3. Max(A) \in A /\ \A x \in A : x <= Max(A)
    <3>. HIDE DEF A
    <3>. QED
      BY <2>1, <2>2, Greatest
  <2>. HIDE DEF top
  <2>4. top \in A /\ 1 <= top /\ MaxIterations <= top /\ DefaultIterations <= top
    BY <2>3 DEF top
  <2>. QED
    BY <2>4, NumbersAre
<1>2. lim \in Nat /\ lim <= top
  <2>1. lim \in {0, MaxIterations, DefaultIterations}
    BY Zenon DEF Limit
  <2>. HIDE DEF lim, top
  <2>. QED
    BY <1>1, <2>1, NumbersAre
<1>. HIDE DEF lim, top
<1>3. Max({1, lim}) = IF 1 <= lim THEN lim ELSE 1
  BY <1>2, MaxOfTwo
<1>4. Max({1, lim}) \in Nat \ {0} /\ Max({1, lim}) <= top
  BY <1>1, <1>2, <1>3
<1>. QED
  BY <1>1, <1>4 DEF lim, top

\* What the loop knows between its steps: where the inputs are from, that the
\* grid has the size of the layout, and after a fit that a candidate has one
\* of this iteration or none.
Sized == prep.ni = Size(inp.xy, 2) /\ prep.nj = Size(inp.xy, 1)
FitsOfIteration ==
    \A r \in Cand : /\ k[r] \in {iter, NaN}
                    /\ k[r] # NaN <=> patch[r] /\ r \notin inp.zero
Stage2Inv ==
    /\ inp.xy \in GridLayouts /\ inp.window \in Windows /\ inp.bp \in BaselineFiles
    /\ TypeOK
    /\ pc \notin {"prepare", "failed"} => Sized /\ filt \in [GridCells -> BOOLEAN]
    /\ pc = "check" => FitsOfIteration
    /\ PanicBand /\ PublishedTogether

LEMMA StartHolds == Init => Stage2Inv
<1>. SUFFICES ASSUME Init PROVE Stage2Inv
  OBVIOUS
<1>1. inp.xy \in GridLayouts /\ inp.window \in Windows /\ inp.bp \in BaselineFiles
  BY DEF Init
<1>2. TypeOK
  BY Limits DEF Init, TypeOK, NaN
<1>3. pc = "prepare" /\ pm1 = None
  BY DEF Init
<1>. QED
  BY <1>1, <1>2, <1>3 DEF Stage2Inv, PanicBand, PublishedTogether

LEMMA PrepareHolds == Stage2Inv /\ Prepare => Stage2Inv'
<1>. SUFFICES ASSUME Stage2Inv, Prepare PROVE Stage2Inv'
  OBVIOUS
<1>. USE DEF Stage2Inv
<1>1. inp' = inp /\ pm1' = pm1 /\ iter' = iter /\ k' = k /\ patch' = patch
  BY DEF Prepare
<1>2. CASE pc' = "failed" /\ weight' = weight
  BY <1>1, <1>2 DEF TypeOK, PanicBand, PublishedTogether
<1>3. CASE /\ pc' = "fill"
           /\ weight' = [r \in Cand |-> r \notin inp.da0]
           /\ prep' = [ni |-> Size(inp.xy, 2), nj |-> Size(inp.xy, 1),
                       cell |-> [r \in Cand |-> CellOf(inp.xy, r)]]
           /\ grid' = [c \in GridCells' |-> "zero"]
           /\ filt' = [c \in GridCells' |-> FALSE]
  <2>1. Sized' /\ filt' \in [GridCells' -> BOOLEAN]
    BY <1>1, <1>3 DEF Sized
  <2>2. grid' \in [GridCells' -> {"zero", "nan", "signal"}]
    BY <1>3
  <2>3. \A r \in Cand : prep'.cell[r] \in GridCells'
    <3>1. SUFFICES ASSUME NEW r \in Cand PROVE prep'.cell[r] \in GridCells'
      OBVIOUS
    <3>2. prep'.cell[r] = <<Moved(inp.xy, 2, r), Moved(inp.xy, 1, r)>>
      BY <1>3 DEF CellOf
    <3>3. /\ Moved(inp.xy, 2, r) \in 1..Size(inp.xy, 2)
          /\ Moved(inp.xy, 1, r) \in 1..Size(inp.xy, 1)
      BY InGrid
    <3>4. GridCells' = (1..Size(inp.xy, 2)) \X (1..Size(inp.xy, 1))
      BY <1>3 DEF GridCells
    <3>. QED
      BY <3>2, <3>3, <3>4
  <2>4. weight' \in [Cand -> BOOLEAN]
    BY <1>3
  <2>5. TypeOK'
    BY <1>1, <1>3, <2>2, <2>3, <2>4 DEF TypeOK
  <2>. QED
    BY <1>1, <1>3, <2>1, <2>5 DEF PanicBand, PublishedTogether
<1>. QED
  BY <1>2, <1>3, Zenon DEF Prepare

\* The steps of the loop leave the grid where it is.
LEMMA SameGrid ==
    ASSUME prep' = prep, inp' = inp
    PROVE  GridCells' = GridCells /\ Sized' = Sized
BY DEF GridCells, Sized

LEMMA FillHolds == Stage2Inv /\ Fill => Stage2Inv'
<1>. SUFFICES ASSUME Stage2Inv, Fill PROVE Stage2Inv'
  OBVIOUS
<1>. USE DEF Stage2Inv, Fill
<1>1. GridCells' = GridCells /\ Sized' = Sized
  BY SameGrid
<1>2. \A c : CellSum(c) \in {"zero", "nan", "signal"}
  BY Zenon DEF CellSum
<1>3. grid' \in [GridCells -> {"zero", "nan", "signal"}]
  BY <1>2
<1>4. \A r \in Cand : prep'.cell[r] \in DOMAIN grid'
  BY <1>3 DEF TypeOK
<1>5. TypeOK'
  BY <1>1, <1>3, <1>4 DEF TypeOK
<1>. QED
  BY <1>1, <1>5 DEF PanicBand, PublishedTogether

LEMMA FilterHolds == Stage2Inv /\ Filter => Stage2Inv'
<1>. SUFFICES ASSUME Stage2Inv, Filter PROVE Stage2Inv'
  OBVIOUS
<1>. USE DEF Stage2Inv
<1>1. UNCHANGED <<inp, prep, iter, weight, k, grid, patch, pm1>> /\ pc = "filter"
  BY DEF Filter
<1>2. GridCells' = GridCells /\ Sized' = Sized
  BY <1>1, SameGrid
<1>3. CASE /\ pc' = "panic" /\ filt' = filt
           /\ ~(WindowCount(prep.ni, inp.window) <= 0) /\ ~(WindowCount(prep.nj, inp.window) <= 0)
           /\ Underflows(prep.ni, inp.window) \/ Underflows(prep.nj, inp.window)
  <2>1. TypeOK'
    BY <1>1, <1>2, <1>3 DEF TypeOK
  <2>2. prep.ni = Size(inp.xy, 2) /\ prep.nj = Size(inp.xy, 1)
    BY <1>1 DEF Sized
  <2>3. prep.ni \in Nat \ {0} /\ prep.nj \in Nat \ {0} /\ inp.window \in Nat \ {0}
    BY <2>2, InGrid, InputsAssumption
  <2>4. \/ Size(inp.xy, 2) \in 3 * Step(inp.window) + 1 .. inp.window - 1
        \/ Size(inp.xy, 1) \in 3 * Step(inp.window) + 1 .. inp.window - 1
    BY <1>3, <2>2, <2>3, Band, Zenon
  <2>5. PanicBand'
    BY <1>1, <2>4 DEF PanicBand
  <2>. QED
    BY <1>1, <1>2, <1>3, <2>1, <2>5 DEF PublishedTogether
<1>4. CASE /\ pc' = "extract"
           /\ filt' = [c \in GridCells |-> FALSE] \/ filt' = Filtered(inp.window)
  <2>1. filt' \in [GridCells -> BOOLEAN]
    BY <1>4 DEF Filtered
  <2>2. TypeOK'
    BY <1>1, <1>2, <1>4 DEF TypeOK
  <2>. QED
    BY <1>1, <1>2, <1>4, <2>1, <2>2 DEF PanicBand, PublishedTogether
<1>. QED
  BY <1>3, <1>4, Zenon DEF Filter

LEMMA ExtractHolds == Stage2Inv /\ Extract => Stage2Inv'
<1>. SUFFICES ASSUME Stage2Inv, Extract PROVE Stage2Inv'
  OBVIOUS
<1>. USE DEF Stage2Inv, Extract
<1>1. GridCells' = GridCells /\ Sized' = Sized
  BY SameGrid
<1>2. patch' \in [Cand -> BOOLEAN]
  BY DEF TypeOK
<1>3. TypeOK'
  BY <1>1, <1>2 DEF TypeOK
<1>. QED
  BY <1>1, <1>3 DEF PanicBand, PublishedTogether

LEMMA FitHolds == Stage2Inv /\ Fit => Stage2Inv'
<1>. SUFFICES ASSUME Stage2Inv, Fit PROVE Stage2Inv'
  OBVIOUS
<1>. USE DEF Stage2Inv, Fit
<1>1. GridCells' = GridCells /\ Sized' = Sized
  BY SameGrid
<1>2. iter \in Nat \ {0}
  BY Limits DEF TypeOK
<1>3. k' \in [Cand -> {NaN} \cup 0..iter]
  BY <1>2
<1>4. FitsOfIteration'
  BY <1>2 DEF FitsOfIteration, NaN, TypeOK
<1>5. TypeOK'
  BY <1>1, <1>3 DEF TypeOK
<1>. QED
  BY <1>1, <1>4, <1>5 DEF PanicBand, PublishedTogether

LEMMA CheckHolds == Stage2Inv /\ Check => Stage2Inv'
<1>. SUFFICES ASSUME Stage2Inv, Check PROVE Stage2Inv'
  OBVIOUS
<1>. USE DEF Stage2Inv
<1>1. UNCHANGED <<inp, prep, weight, k, grid, filt, patch>> /\ pc = "check"
  BY DEF Check
<1>2. GridCells' = GridCells /\ Sized' = Sized
  BY <1>1, SameGrid
<1>3. CASE /\ pm1' = [iter |-> iter, k |-> k, patch |-> patch, grid |-> grid]
           /\ pc' = "done" /\ UNCHANGED iter
  <2>1. TypeOK'
    <3>1. k' \in [Cand -> {NaN} \cup 0..iter'] /\ iter' \in 1..Max({1, MaxIterations, DefaultIterations})
      BY <1>1, <1>3 DEF TypeOK
    <3>2. /\ weight' \in [Cand -> BOOLEAN] /\ patch' \in [Cand -> BOOLEAN]
          /\ grid' \in [GridCells' -> {"zero", "nan", "signal"}]
          /\ \A r \in Cand : prep'.cell[r] \in DOMAIN grid'
      BY <1>1, <1>2 DEF TypeOK
    <3>. QED
      BY <1>3, <3>1, <3>2, Zenon DEF TypeOK
  <2>2. PublishedTogether'
    BY <1>1, <1>3 DEF PublishedTogether, FitsOfIteration
  <2>. QED
    BY <1>1, <1>2, <1>3, <2>1, <2>2 DEF PanicBand
<1>4. CASE pc' = "weigh" /\ iter' = iter + 1 /\ UNCHANGED pm1 /\ ~(iter >= Max({1, Limit}))
  <2>1. iter' \in 1..Max({1, MaxIterations, DefaultIterations}) /\ 0..iter \subseteq 0..iter'
    BY <1>4, Limits DEF TypeOK
  <2>2. k' \in [Cand -> {NaN} \cup 0..iter']
    BY <1>1, <2>1 DEF TypeOK
  <2>3. TypeOK'
    BY <1>1, <1>2, <1>4, <2>1, <2>2 DEF TypeOK
  <2>. QED
    BY <1>1, <1>2, <1>4, <2>3 DEF PanicBand, PublishedTogether
<1>. QED
  BY <1>3, <1>4, Zenon DEF Check

LEMMA WeighHolds == Stage2Inv /\ (WeighPSquare \/ WeighSnr) => Stage2Inv'
<1>. SUFFICES ASSUME Stage2Inv, WeighPSquare \/ WeighSnr PROVE Stage2Inv'
  OBVIOUS
<1>. USE DEF Stage2Inv
<1>1. /\ UNCHANGED <<inp, prep, iter, k, grid, filt, patch, pm1>>
      /\ pc = "weigh" /\ pc' = "fill" /\ weight' \in [Cand -> BOOLEAN]
  <2>1. CASE WeighPSquare
    <3>1. PICK pos \in SUBSET Fitted : weight' = [r \in Cand |-> r \in pos]
      BY <2>1 DEF WeighPSquare
    <3>2. weight' \in [Cand -> BOOLEAN]
      BY <3>1
    <3>. QED
      BY <2>1, <3>2 DEF WeighPSquare
  <2>2. CASE WeighSnr
    <3>1. PICK pos \in SUBSET Cand : weight' = [r \in Cand |-> r \in pos]
      BY <2>2 DEF WeighSnr
    <3>2. weight' \in [Cand -> BOOLEAN]
      BY <3>1
    <3>. QED
      BY <2>2, <3>2 DEF WeighSnr
  <2>. QED
    BY <2>1, <2>2
<1>2. GridCells' = GridCells /\ Sized' = Sized
  BY <1>1, SameGrid
<1>3. TypeOK'
  BY <1>1, <1>2 DEF TypeOK
<1>. QED
  BY <1>1, <1>2, <1>3 DEF PanicBand, PublishedTogether

LEMMA StutterHolds == Stage2Inv /\ UNCHANGED vars => Stage2Inv'
<1>. SUFFICES ASSUME Stage2Inv, UNCHANGED vars PROVE Stage2Inv'
  OBVIOUS
<1>. USE DEF Stage2Inv, vars
<1>1. GridCells' = GridCells /\ Sized' = Sized
  BY SameGrid
<1>2. TypeOK'
  BY <1>1 DEF TypeOK
<1>. QED
  BY <1>1, <1>2 DEF PanicBand, PublishedTogether, FitsOfIteration

LEMMA StepHolds == Stage2Inv /\ Next => Stage2Inv'
BY PrepareHolds, FillHolds, FilterHolds, ExtractHolds, FitHolds, CheckHolds, WeighHolds,
   StutterHolds DEF Next

\* Over every cell of a grid that holds an even window there is one.
LEMMA CoverHolds == Stage2Inv => WindowsCover
<1>. SUFFICES ASSUME Stage2Inv, pc = "filter"
              PROVE  WindowsCover
  BY DEF WindowsCover
<1>1. inp.window \in Nat \ {0} /\ prep.ni \in Nat \ {0} /\ prep.nj \in Nat \ {0}
  BY InGrid, InputsAssumption DEF Stage2Inv, Sized
<1>2. Stays(prep.ni, inp.window) /\ Stays(prep.nj, inp.window)
  BY <1>1, WeightsStay
<1>3. ASSUME inp.window % 2 = 0, inp.window >= 4, prep.ni >= inp.window, prep.nj >= inp.window,
             NEW c \in GridCells
      PROVE  WindowsOver(inp.window, c) # {}
  BY <1>1, <1>3, CellCovered
<1>. QED
  BY <1>2, <1>3, Zenon DEF WindowsCover

\* What the shortcuts of stage 2 compute is what the rules they replace say.
LEMMA ShortcutsHold ==
    Stage2Inv => /\ TypeOK /\ ShortcutExact /\ HistogramAgrees
                 /\ WindowsCover /\ PanicBand /\ PublishedTogether
<1>. SUFFICES ASSUME Stage2Inv
              PROVE  ShortcutExact /\ HistogramAgrees
  BY CoverHolds DEF Stage2Inv
<1>1. ShortcutExact
  BY SameRows DEF ShortcutExact, Stage2Inv
<1>2. HistogramAgrees
  BY SameBin, InputsAssumption DEF HistogramAgrees
<1>. QED
  BY <1>1, <1>2

\* Stage 2 of the native driver, on a grid of any size, with any baselines and
\* any histogram: one row of baselines stands for all only where all are the
\* same, the division finds the bin that the midpoints do, the windows at the
\* border leave no cell out, the filter fails for a narrow band of sizes only,
\* and pm1 has the fits and the phases of one iteration.
THEOREM Stage2Exact == Spec => []Shortcuts
<1>1. Init => Stage2Inv
  BY StartHolds
<1>2. Stage2Inv /\ [Next]_vars => Stage2Inv'
  BY StepHolds, StutterHolds
<1>3. Stage2Inv => Shortcuts
  BY ShortcutsHold DEF Shortcuts
<1>. QED
  BY <1>1, <1>2, <1>3, PTL DEF Spec
=============================================================================
