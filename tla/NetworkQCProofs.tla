-------------------------- MODULE NetworkQCProofs --------------------------
(***************************************************************************)
(* Proofs about the selection of interferograms, for every finite set of   *)
(* days, every network of interferograms on them and every limit.          *)
(***************************************************************************)
EXTENDS NetworkQC, FiniteSetTheorems, WellFoundedInduction, TLAPS

-----------------------------------------------------------------------------
(* Interferograms join two days.                                           *)

\* The network is one: what Init chooses, and no action changes.
Network == ends \in [Ifg -> Pair]

LEMMA PairOfDays ==
    ASSUME Network, NEW e \in Ifg
    PROVE  \E a, b \in Day : a # b /\ ends[e] = {a, b}
<1>1. ends[e] \in SUBSET Day /\ Cardinality(ends[e]) = 2
  BY DEF Network, Pair
<1>2. IsFiniteSet(ends[e])
  BY <1>1, FS_Subset, NetworkAssumption
<1>3. ends[e] # {}
  BY <1>1, FS_EmptySet
<1>4. PICK a \in ends[e] : TRUE
  BY <1>3
<1>5. Cardinality(ends[e] \ {a}) = 1 /\ IsFiniteSet(ends[e] \ {a})
  BY <1>1, <1>2, <1>4, FS_RemoveElement
<1>6. PICK b : ends[e] \ {a} = {b}
  BY <1>5, FS_Singleton
<1>. QED
  BY <1>1, <1>4, <1>6

LEMMA EndsAreDays ==
    ASSUME Network, NEW e \in Ifg
    PROVE  ends[e] \subseteq Day
BY DEF Network, Pair

LEMMA NodesAreDays == Network => Nodes(Ifg) \subseteq Day
BY EndsAreDays DEF Nodes

\* A set of days that no interferogram leads out of is one that none crosses.
LEMMA ClosedIsUncrossed ==
    ASSUME Network, NEW K \in SUBSET Ifg, NEW S \in SUBSET Day
    PROVE  Neighbours(S, K) \subseteq S <=> \A e \in K : ~Crosses(e, S)
BY EndsAreDays DEF Neighbours, Crosses

\* None crosses the other days then either.
LEMMA Complement ==
    ASSUME Network, NEW e \in Ifg, NEW S \in SUBSET Day
    PROVE  Crosses(e, Day \ S) <=> Crosses(e, S)
BY EndsAreDays, PairOfDays DEF Crosses

-----------------------------------------------------------------------------
(* What a search sees.                                                     *)

\* It is closed, has its start in it, and is the least such set.
LEMMA SearchIsClosed ==
    ASSUME Network, NEW K \in SUBSET Ifg, NEW d \in Day
    PROVE  /\ Search(d, K) \in SUBSET Day
           /\ d \in Search(d, K)
           /\ \A e \in K : ~Crosses(e, Search(d, K))
<1>1. Search(d, K) \in SUBSET Day /\ d \in Search(d, K)
  BY DEF Search
<1>2. Neighbours(Search(d, K), K) \subseteq Search(d, K)
  BY DEF Search, Neighbours
<1>. QED
  BY <1>1, <1>2, ClosedIsUncrossed

LEMMA SearchIsLeast ==
    ASSUME Network, NEW K \in SUBSET Ifg, NEW d \in Day, NEW S \in SUBSET Day,
           d \in S, \A e \in K : ~Crosses(e, S)
    PROVE  Search(d, K) \subseteq S
<1>1. Neighbours(S, K) \subseteq S
  BY ClosedIsUncrossed
<1>. QED
  BY <1>1 DEF Search

\* Every day of it sees the same.
LEMMA SearchFromAnywhere ==
    ASSUME Network, NEW K \in SUBSET Ifg, NEW d \in Day, NEW x \in Search(d, K)
    PROVE  Search(x, K) = Search(d, K)
<1>1. x \in Day
  BY DEF Search
<1>2. Search(x, K) \subseteq Search(d, K)
  BY <1>1, SearchIsClosed, SearchIsLeast
<1>3. d \in Search(x, K)
  <2> SUFFICES ASSUME d \notin Search(x, K) PROVE FALSE
    OBVIOUS
  <2>1. \A e \in K : ~Crosses(e, Day \ Search(x, K))
    BY <1>1, SearchIsClosed, Complement
  <2>2. Search(d, K) \subseteq Day \ Search(x, K)
    BY <2>1, SearchIsLeast
  <2>. QED
    BY <2>2, <1>1, SearchIsClosed
<1>4. Search(d, K) \subseteq Search(x, K)
  BY <1>1, <1>3, SearchIsClosed, SearchIsLeast
<1>. QED
  BY <1>2, <1>4

\* An interferogram does not lead out of a search among others with it.
LEMMA EndsTogether ==
    ASSUME Network, NEW K \in SUBSET Ifg,
           NEW e \in K, NEW a \in ends[e], NEW b \in ends[e]
    PROVE  Search(a, K) = Search(b, K)
<1>1. a \in Day /\ b \in Day
  BY EndsAreDays
<1>2. b \in Search(a, K)
  BY <1>1, SearchIsClosed DEF Crosses
<1>. QED
  BY <1>1, <1>2, SearchFromAnywhere

\* Fewer interferograms, fewer days.
LEMMA SearchMonotone ==
    ASSUME Network, NEW L \in SUBSET Ifg, NEW K \in SUBSET L, NEW d \in Day
    PROVE  Search(d, K) \subseteq Search(d, L)
BY SearchIsClosed, SearchIsLeast

\* When Holds, no fewer: what the rest does not cross nothing crosses.
LEMMA HoldsKeepsSearch ==
    ASSUME Network, NEW K \in SUBSET Ifg, Holds(K), NEW d \in Day
    PROVE  Search(d, K) = Search(d, Ifg)
<1>1. \A e \in Ifg : ~Crosses(e, Search(d, K))
  BY SearchIsClosed DEF Holds
<1>2. Search(d, Ifg) \subseteq Search(d, K)
  BY <1>1, SearchIsClosed, SearchIsLeast
<1>. QED
  BY <1>2, SearchMonotone

LEMMA HoldsMonotone ==
    ASSUME NEW K, NEW L, K \subseteq L, Holds(K)
    PROVE  Holds(L)
BY DEF Holds

-----------------------------------------------------------------------------
(* The two tests.                                                          *)

\* A connected rest has bridged everything.
LEMMA ConnectedHolds ==
    ASSUME Network, NEW K \in SUBSET Ifg, Connected(K)
    PROVE  Holds(K)
<1> SUFFICES ASSUME NEW S \in SUBSET Day, NEW e \in Ifg, Crosses(e, S),
                    \A k \in K : ~Crosses(k, S)
             PROVE  FALSE
  BY DEF Holds
<1>1. PICK d \in Nodes(Ifg) : Search(d, K) = Nodes(Ifg)
  BY DEF Connected
<1>2. d \in Day /\ ends[e] \subseteq Nodes(Ifg)
  BY <1>1, NodesAreDays DEF Nodes
<1>3. CASE d \in S
  <2>1. Search(d, K) \subseteq S
    BY <1>2, <1>3, SearchIsLeast
  <2>. QED
    BY <2>1, <1>1, <1>2 DEF Crosses
<1>4. CASE d \notin S
  <2>1. Search(d, K) \subseteq Day \ S
    BY <1>2, <1>4, SearchIsLeast, Complement
  <2>. QED
    BY <2>1, <1>1, <1>2 DEF Crosses
<1>. QED
  BY <1>3, <1>4

\* Of a connected network, what has bridged everything is connected.
LEMMA HoldsConnected ==
    ASSUME Network, NEW K \in SUBSET Ifg, Connected(Ifg), Holds(K)
    PROVE  Connected(K)
<1>1. \A d \in Nodes(Ifg) : d \in Nodes(K)
  <2> SUFFICES ASSUME NEW d \in Nodes(Ifg) PROVE d \in Nodes(K)
    OBVIOUS
  <2>1. PICK e \in Ifg : d \in ends[e]
    BY DEF Nodes
  <2>2. Crosses(e, {d}) /\ {d} \in SUBSET Day
    BY <2>1, PairOfDays, EndsAreDays DEF Crosses
  <2>3. PICK k \in K : Crosses(k, {d})
    BY <2>2 DEF Holds
  <2>. QED
    BY <2>3 DEF Crosses, Nodes
<1>2. Nodes(K) = Nodes(Ifg)
  BY <1>1 DEF Nodes
<1>3. PICK d \in Nodes(Ifg) : Search(d, Ifg) = Nodes(Ifg)
  BY DEF Connected
<1>4. Search(d, K) = Nodes(Ifg)
  BY <1>3, NodesAreDays, HoldsKeepsSearch
<1>5. K # {}
  BY <1>1, <1>3 DEF Nodes
<1>. QED
  BY <1>2, <1>3, <1>4, <1>5 DEF Connected

Parts(K) == {Search(d, K) : d \in Nodes(Ifg)}

LEMMA PartsFinite ==
    ASSUME Network, NEW K \in SUBSET Ifg
    PROVE  IsFiniteSet(Parts(K)) /\ Cardinality(Parts(K)) \in Nat
<1>1. Parts(K) \in SUBSET (SUBSET Day)
  BY NodesAreDays, SearchIsClosed DEF Parts
<1>. QED
  BY <1>1, NetworkAssumption, FS_SUBSET, FS_Subset, FS_CardinalityType

\* The part that a part lies in when interferograms are added.
Whole(K, L) == [A \in Parts(K) |-> CHOOSE B \in Parts(L) : A \subseteq B]

LEMMA WholeOf ==
    ASSUME Network, NEW L \in SUBSET Ifg, NEW K \in SUBSET L, NEW d \in Nodes(Ifg)
    PROVE  Whole(K, L)[Search(d, K)] = Search(d, L)
<1>1. d \in Day /\ Search(d, K) \in Parts(K) /\ Search(d, L) \in Parts(L)
  BY NodesAreDays DEF Parts
<1>2. Search(d, K) \subseteq Search(d, L)
  BY <1>1, SearchMonotone
<1>3. ASSUME NEW B \in Parts(L), Search(d, K) \subseteq B PROVE B = Search(d, L)
  <2>1. PICK x \in Nodes(Ifg) : B = Search(x, L)
    BY DEF Parts
  <2>2. d \in Search(x, L) /\ x \in Day
    BY <1>1, <1>3, <2>1, SearchIsClosed, NodesAreDays
  <2>. QED
    BY <2>1, <2>2, SearchFromAnywhere
<1>. QED
  BY <1>1, <1>2, <1>3 DEF Whole

LEMMA WholeIsOnto ==
    ASSUME Network, NEW L \in SUBSET Ifg, NEW K \in SUBSET L
    PROVE  Whole(K, L) \in Surjection(Parts(K), Parts(L))
<1>1. \A A \in Parts(K) : Whole(K, L)[A] \in Parts(L)
  BY WholeOf DEF Parts
<1>2. Whole(K, L) \in [Parts(K) -> Parts(L)]
  BY <1>1 DEF Whole
<1>3. ASSUME NEW B \in Parts(L) PROVE \E A \in Parts(K) : Whole(K, L)[A] = B
  <2>1. PICK d \in Nodes(Ifg) : B = Search(d, L)
    BY DEF Parts
  <2>2. Search(d, K) \in Parts(K)
    BY DEF Parts
  <2>. QED
    BY <2>1, <2>2, WholeOf
<1>. QED
  BY <1>2, <1>3 DEF Surjection

\* An interferogram that bridges what those in K do not.
Bridges(e, K) == \E S \in SUBSET Day : Crosses(e, S) /\ \A k \in K : ~Crosses(k, S)

\* Adding interferograms adds no part; adding one that bridges joins two.
LEMMA FewerParts ==
    ASSUME Network, NEW L \in SUBSET Ifg, NEW K \in SUBSET L
    PROVE  /\ Cardinality(Parts(L)) <= Cardinality(Parts(K))
           /\ \A e \in L : Bridges(e, K) => Cardinality(Parts(L)) < Cardinality(Parts(K))
<1>1. K \in SUBSET Ifg
  OBVIOUS
<1>2. /\ IsFiniteSet(Parts(K)) /\ Cardinality(Parts(K)) \in Nat
      /\ Cardinality(Parts(L)) \in Nat
  BY <1>1, PartsFinite
<1>3. Cardinality(Parts(L)) <= Cardinality(Parts(K))
  BY <1>2, WholeIsOnto, FS_Surjection
<1>4. ASSUME NEW e \in L, Bridges(e, K), Cardinality(Parts(L)) = Cardinality(Parts(K))
      PROVE  FALSE
  <2>1. Whole(K, L) \in Injection(Parts(K), Parts(L))
    BY <1>2, <1>4, WholeIsOnto, FS_Surjection
  <2>2. PICK S \in SUBSET Day : Crosses(e, S) /\ \A k \in K : ~Crosses(k, S)
    BY <1>4 DEF Bridges
  <2>3. PICK a \in ends[e], b \in ends[e] : a \in S /\ b \notin S
    BY <2>2 DEF Crosses
  <2>4. a \in Nodes(Ifg) /\ b \in Nodes(Ifg) /\ a \in Day /\ b \in Day
    BY EndsAreDays DEF Nodes
  <2>5. Whole(K, L)[Search(a, K)] = Whole(K, L)[Search(b, K)]
    BY <2>4, WholeOf, EndsTogether
  <2>6. Search(a, K) \in Parts(K) /\ Search(b, K) \in Parts(K)
    BY <2>4 DEF Parts
  <2>7. Search(a, K) = Search(b, K)
    BY <2>1, <2>5, <2>6 DEF Injection, IsInjective
  <2>8. Search(a, K) \subseteq S
    BY <1>1, <2>2, <2>3, <2>4, SearchIsLeast
  <2>. QED
    BY <1>1, <2>3, <2>4, <2>7, <2>8, SearchIsClosed
<1>. QED
  BY <1>2, <1>3, <1>4

\* The count of components grows exactly when something that was bridged is
\* not bridged any more.
LEMMA CountTest ==
    ASSUME Network, NEW K \in SUBSET Ifg
    PROVE  ComponentCount(K) > ComponentCount(Ifg) <=> ~Holds(K)
<1>0. ComponentCount(K) = Cardinality(Parts(K)) /\ ComponentCount(Ifg) = Cardinality(Parts(Ifg))
  BY DEF ComponentCount, Parts
<1>1. Cardinality(Parts(K)) \in Nat /\ Cardinality(Parts(Ifg)) \in Nat
  BY PartsFinite
<1>2. ASSUME Holds(K) PROVE Parts(K) = Parts(Ifg)
  BY <1>2, HoldsKeepsSearch, NodesAreDays DEF Parts
<1>3. ASSUME ~Holds(K) PROVE Cardinality(Parts(Ifg)) < Cardinality(Parts(K))
  <2>1. PICK e \in Ifg : Bridges(e, K)
    BY <1>3 DEF Holds, Bridges
  <2>. QED
    BY <2>1, FewerParts
<1>. QED
  BY <1>0, <1>1, <1>2, <1>3

\* When there is no cut everything is still bridged, and the other way round
\* where the rule counts components or began with a connected network.
LEMMA CutTest ==
    ASSUME Network, NEW K \in SUBSET Ifg
    PROVE  /\ ~Cut(K) => Holds(K)
           /\ Cut(K) /\ (rule = "final" \/ Connected(Ifg)) => ~Holds(K)
BY CountTest, ConnectedHolds, HoldsConnected DEF Cut

-----------------------------------------------------------------------------
(* How many interferograms a part of the network needs: the exchange that  *)
(* makes one pass over the candidates optimal.                             *)

\* One interferogram joins two parts at most.
LEMMA OnePartFewer ==
    ASSUME Network, NEW K \in SUBSET Ifg, NEW e \in Ifg
    PROVE  Cardinality(Parts(K)) <= Cardinality(Parts(K \union {e})) + 1
<1> DEFINE L == K \union {e}
<1>1. L \in SUBSET Ifg /\ K \in SUBSET L
  OBVIOUS
<1>2. PICK a \in Day, b \in Day : a # b /\ ends[e] = {a, b}
  BY PairOfDays
<1> DEFINE Rest == Parts(K) \ {Search(b, K)}
<1>3. ASSUME NEW x \in Nodes(Ifg), NEW y \in Nodes(Ifg), Search(x, L) = Search(y, L),
             b \notin Search(x, K), a \notin Search(x, K)
      PROVE  Search(x, K) = Search(y, K)
  <2>1. x \in Day /\ y \in Day
    BY NodesAreDays
  <2>2. \A k \in L : ~Crosses(k, Search(x, K))
    BY <1>2, <1>3, <2>1, SearchIsClosed DEF Crosses
  <2>3. Search(x, L) \subseteq Search(x, K)
    BY <1>1, <2>1, <2>2, SearchIsClosed, SearchIsLeast
  <2>4. y \in Search(x, K)
    BY <1>1, <1>3, <2>1, <2>3, SearchIsClosed
  <2>. QED
    BY <2>1, <2>4, SearchFromAnywhere
<1>4. ASSUME NEW A \in Rest, NEW B \in Rest, Whole(K, L)[A] = Whole(K, L)[B]
      PROVE  A = B
  <2>1. PICK x \in Nodes(Ifg) : A = Search(x, K)
    BY DEF Parts
  <2>2. PICK y \in Nodes(Ifg) : B = Search(y, K)
    BY DEF Parts
  <2>3. x \in Day /\ y \in Day
    BY NodesAreDays
  <2>4. Search(x, L) = Search(y, L)
    BY <1>1, <1>4, <2>1, <2>2, WholeOf
  <2>5. b \notin A /\ b \notin B
    BY <2>1, <2>2, <2>3, SearchFromAnywhere
  <2>6. CASE a \in A /\ a \in B
    BY <2>1, <2>2, <2>3, <2>6, SearchFromAnywhere
  <2>7. CASE a \notin A
    BY <1>3, <2>1, <2>2, <2>4, <2>5, <2>7
  <2>8. CASE a \notin B
    BY <1>3, <2>1, <2>2, <2>4, <2>5, <2>8
  <2>. QED
    BY <2>6, <2>7, <2>8
<1> DEFINE f == [A \in Rest |-> Whole(K, L)[A]]
<1>5. f \in Injection(Rest, Parts(L))
  <2>1. Whole(K, L) \in [Parts(K) -> Parts(L)]
    BY <1>1, WholeIsOnto DEF Surjection
  <2>2. f \in [Rest -> Parts(L)]
    BY <2>1
  <2>. QED
    BY <1>4, <2>2 DEF Injection, IsInjective
<1>6. IsFiniteSet(Parts(K)) /\ IsFiniteSet(Parts(L))
      /\ Cardinality(Parts(K)) \in Nat /\ Cardinality(Parts(L)) \in Nat
  BY <1>1, PartsFinite
<1>7. Cardinality(Rest) <= Cardinality(Parts(L))
  BY <1>5, <1>6, FS_Injection
<1>8. IsFiniteSet(Rest) /\ Cardinality(Parts(K)) <= Cardinality(Rest) + 1
  BY <1>6, FS_RemoveElement
<1>9. Cardinality(Rest) \in Nat
  BY <1>8, FS_CardinalityType
<1>. QED
  BY <1>6, <1>7, <1>8, <1>9

\* A set of the first n numbers has at most n members.
LEMMA AtMost ==
    ASSUME NEW n \in Nat, NEW S \in SUBSET (1..n)
    PROVE  IsFiniteSet(S) /\ Cardinality(S) \in Nat /\ Cardinality(S) <= n
<1>1. IsFiniteSet(1..n) /\ Cardinality(1..n) = n
  BY FS_Interval
<1>. QED
  BY <1>1, FS_Subset, FS_CardinalityType

LEMMA IfgsFinite ==
    ASSUME NEW Q \in SUBSET Ifg
    PROVE  IsFiniteSet(Q) /\ Cardinality(Q) \in Nat
BY NetworkAssumption, AtMost DEF Ifg

\* Among sets of interferograms there is one without a smaller one in it.
LEMMA LeastSet ==
    ASSUME NEW T \in SUBSET (SUBSET Ifg), T # {}
    PROVE  \E R \in T : \A Q \in T : ~(Q \subseteq R /\ Q # R)
<1>1. T \subseteq FiniteSubsetsOf(Ifg)
  BY IfgsFinite DEF FiniteSubsetsOf
<1>2. PICK R \in T : \A Q \in T : <<Q, R>> \notin StrictSubsetOrdering(Ifg)
  BY <1>1, FS_StrictSubsetOrderingWellFounded, WFMin
<1>. QED
  BY <1>2 DEF StrictSubsetOrdering

\* Interferograms join no more parts than they are.
JoinsFew(K, Q) ==
    Cardinality(Parts(K)) <= Cardinality(Parts(K \union Q)) + Cardinality(Q)

LEMMA AllJoinFew ==
    ASSUME Network, NEW K \in SUBSET Ifg, NEW Q \in SUBSET Ifg
    PROVE  JoinsFew(K, Q)
<1> DEFINE T == {R \in SUBSET Ifg : ~JoinsFew(K, R)}
<1> SUFFICES ASSUME T # {} PROVE FALSE
  OBVIOUS
<1>0. T \in SUBSET (SUBSET Ifg)
  OBVIOUS
<1>1. PICK R \in T : \A U \in T : ~(U \subseteq R /\ U # R)
  <2> HIDE DEF T
  <2>. QED
    BY <1>0, LeastSet
<1>2. IsFiniteSet(R) /\ Cardinality(R) \in Nat
  BY IfgsFinite
<1>3. CASE R = {}
  <2>1. Parts(K \union R) = Parts(K)
    <3>1. K \union R = K
      BY <1>3
    <3>. QED
      BY <3>1
  <2>2. Cardinality(R) = 0 /\ Cardinality(Parts(K)) \in Nat
    BY <1>3, FS_EmptySet, PartsFinite
  <2>3. JoinsFew(K, R)
    BY <2>1, <2>2 DEF JoinsFew
  <2>. QED
    BY <1>1, <2>3
<1>4. CASE R # {}
  <2>1. PICK r \in R : TRUE
    BY <1>4
  <2>2. PICK U \in SUBSET Ifg : U = R \ {r}
    OBVIOUS
  <2>3. Cardinality(U) = Cardinality(R) - 1 /\ Cardinality(U) \in Nat
    BY <1>2, <2>1, <2>2, FS_RemoveElement, IfgsFinite
  <2>4. JoinsFew(K, U)
    BY <1>1, <2>1, <2>2
  <2>5. PICK L \in SUBSET Ifg : L = K \union U
    OBVIOUS
  <2>6. L \union {r} = K \union R
    BY <2>1, <2>2, <2>5
  <2>7. Cardinality(Parts(L)) <= Cardinality(Parts(K \union R)) + 1
    BY <2>1, <2>6, OnePartFewer
  <2>8. Cardinality(Parts(K)) <= Cardinality(Parts(L)) + Cardinality(U)
    BY <2>4, <2>5 DEF JoinsFew
  <2>9. Cardinality(Parts(L)) \in Nat /\ Cardinality(Parts(K \union R)) \in Nat
        /\ Cardinality(Parts(K)) \in Nat
    BY PartsFinite
  <2>10. Cardinality(Parts(K)) <= Cardinality(Parts(K \union R)) + Cardinality(R)
    BY <1>2, <2>3, <2>7, <2>8, <2>9
  <2>. QED
    BY <1>1, <2>10 DEF JoinsFew
<1>. QED
  BY <1>3, <1>4

\* Those of which each bridges what all the others do not join as many.
Forest(K, P) ==
    /\ K \intersect P = {}
    /\ \A p \in P : Bridges(p, (K \union P) \ {p})

JoinsAll(K, P) ==
    Cardinality(Parts(K \union P)) + Cardinality(P) <= Cardinality(Parts(K))

LEMMA SmallerForest ==
    ASSUME NEW K, NEW P, NEW U \in SUBSET P, Forest(K, P)
    PROVE  Forest(K, U)
<1> SUFFICES ASSUME NEW p \in U PROVE Bridges(p, (K \union U) \ {p})
  BY DEF Forest
<1>1. Bridges(p, (K \union P) \ {p})
  BY DEF Forest
<1>. QED
  BY <1>1 DEF Bridges

LEMMA ForestJoinsAll ==
    ASSUME Network, NEW K \in SUBSET Ifg, NEW P \in SUBSET Ifg, Forest(K, P)
    PROVE  JoinsAll(K, P)
<1> DEFINE T == {R \in SUBSET P : ~JoinsAll(K, R)}
<1> SUFFICES ASSUME T # {} PROVE FALSE
  OBVIOUS
<1>0. T \in SUBSET (SUBSET Ifg)
  OBVIOUS
<1>1. PICK R \in T : \A U \in T : ~(U \subseteq R /\ U # R)
  <2> HIDE DEF T
  <2>. QED
    BY <1>0, LeastSet
<1>2. IsFiniteSet(R) /\ Cardinality(R) \in Nat /\ R \in SUBSET Ifg
  BY IfgsFinite
<1>3. CASE R = {}
  <2>1. Parts(K \union R) = Parts(K)
    <3>1. K \union R = K
      BY <1>3
    <3>. QED
      BY <3>1
  <2>2. Cardinality(R) = 0 /\ Cardinality(Parts(K)) \in Nat
    BY <1>3, FS_EmptySet, PartsFinite
  <2>3. JoinsAll(K, R)
    BY <2>1, <2>2 DEF JoinsAll
  <2>. QED
    BY <1>1, <2>3
<1>4. CASE R # {}
  <2>1. PICK r \in R : TRUE
    BY <1>4
  <2>2. PICK U \in SUBSET P : U = R \ {r}
    OBVIOUS
  <2>3. Cardinality(U) = Cardinality(R) - 1 /\ Cardinality(U) \in Nat
    BY <1>2, <2>1, <2>2, FS_RemoveElement, IfgsFinite
  <2>4. JoinsAll(K, U)
    BY <1>1, <2>1, <2>2
  <2>5. PICK L \in SUBSET Ifg : L = K \union U
    OBVIOUS
  <2>6. PICK M \in SUBSET Ifg : M = K \union R
    BY <1>2
  <2>7. Bridges(r, L)
    <3>1. Forest(K, R)
      BY SmallerForest
    <3>2. L = (K \union R) \ {r}
      BY <2>1, <2>2, <2>5, <3>1 DEF Forest
    <3>. QED
      BY <2>1, <3>1, <3>2 DEF Forest
  <2>8. L \in SUBSET M /\ r \in M
    BY <2>1, <2>2, <2>5, <2>6
  <2>9. Cardinality(Parts(M)) < Cardinality(Parts(L))
    BY <2>7, <2>8, FewerParts
  <2>10. Cardinality(Parts(L)) + Cardinality(U) <= Cardinality(Parts(K))
    BY <2>4, <2>5 DEF JoinsAll
  <2>11. Cardinality(Parts(L)) \in Nat /\ Cardinality(Parts(M)) \in Nat
         /\ Cardinality(Parts(K)) \in Nat
    BY PartsFinite
  <2>12. Cardinality(Parts(M)) + Cardinality(R) <= Cardinality(Parts(K))
    BY <1>2, <2>3, <2>9, <2>10, <2>11
  <2>. QED
    BY <1>1, <2>6, <2>12 DEF JoinsAll
<1>. QED
  BY <1>3, <1>4

\* So that those others that bridge everything are at least as many.
LEMMA Exchange ==
    ASSUME Network, NEW K \in SUBSET Ifg, NEW P \in SUBSET Ifg, NEW Q \in SUBSET Ifg,
           Forest(K, P), Holds(K \union Q)
    PROVE  Cardinality(P) <= Cardinality(Q)
<1>1. Parts(K \union Q) = Parts(Ifg)
  BY HoldsKeepsSearch, NodesAreDays DEF Parts
<1>2. Cardinality(Parts(Ifg)) <= Cardinality(Parts(K \union P))
  BY FewerParts
<1>3. /\ Cardinality(Parts(K)) <= Cardinality(Parts(Ifg)) + Cardinality(Q)
      /\ Cardinality(Parts(K \union P)) + Cardinality(P) <= Cardinality(Parts(K))
  BY <1>1, AllJoinFew, ForestJoinsAll DEF JoinsFew, JoinsAll
<1>4. /\ Cardinality(Parts(K)) \in Nat /\ Cardinality(Parts(Ifg)) \in Nat
      /\ Cardinality(Parts(K \union P)) \in Nat
      /\ Cardinality(P) \in Nat /\ Cardinality(Q) \in Nat
  BY PartsFinite, IfgsFinite
<1>. QED
  BY <1>2, <1>3, <1>4

-----------------------------------------------------------------------------
(* The inductive invariant.                                                *)

\* Nothing has happened at the start.
Fresh == pc = "start" => dropped = {} /\ protected = {}

\* The loop has dropped or protected each candidate behind it; a list is
\* dropped at once.
Behind ==
    /\ keep = Ifg \ dropped
    /\ dropped \intersect protected = {}
    /\ rule # "manual" => dropped \union protected = 1..(next - 1)
    /\ rule = "manual" => pc # "loop" /\ todo = 0

\* The loop looks at the first todo; in FINAL-QC at no more than it may drop.
Ahead ==
    /\ pc = "start" => todo = 0 /\ next = 1
    /\ pc # "start" /\ rule # "manual" => next <= todo + 1 \/ pc = "raised"
    /\ pc = "loop" /\ rule = "final" => todo <= MaxDrop

\* The number of interferograms the loop may drop is not exceeded.
Capped == rule # "manual" => Cardinality(dropped) <= MaxDrop

IInv == TypeOK /\ Fresh /\ Behind /\ Ahead /\ NetworkPreserved /\ ProtectedNeeded /\ Capped

LEMMA TypeNetwork == TypeOK => Network
BY DEF TypeOK, Network

LEMMA MaxDropType == TypeOK => MaxDrop \in Nat
<1> SUFFICES ASSUME TypeOK PROVE MaxDrop \in Nat
  OBVIOUS
<1>1. N \in Nat /\ percent \in Nat
  BY NetworkAssumption DEF TypeOK
<1>2. N * percent \in Nat
  BY <1>1
<1>3. (N * percent) \div 100 \in Nat
  BY <1>2
<1>. QED
  BY <1>3 DEF MaxDrop

LEMMA InitIInv == Init => IInv
<1> SUFFICES ASSUME Init PROVE IInv
  OBVIOUS
<1>1. TypeOK
  <2>1. failOnCap \in BOOLEAN
    BY Zenon DEF Init
  <2>2. N \in Nat \ {0} /\ percent \in Percents
    BY NetworkAssumption DEF Init
  <2>. QED
    BY <2>1, <2>2 DEF Init, TypeOK, Ifg
<1>2. Fresh /\ Behind /\ Ahead /\ ProtectedNeeded
  BY DEF Init, Fresh, Behind, Ahead, ProtectedNeeded
<1>3. NetworkPreserved
  BY DEF Init, NetworkPreserved, Holds
<1>4. Capped
  BY <1>1, MaxDropType, FS_EmptySet DEF Init, Capped
<1>. QED
  BY <1>1, <1>2, <1>3, <1>4 DEF IInv

\* What depends on the inputs only stays as it is.
LEMMA Inputs ==
    ASSUME UNCHANGED inputs
    PROVE  /\ MaxDrop' = MaxDrop
           /\ Connected(Ifg)' <=> Connected(Ifg)
<1>1. MaxDrop' = MaxDrop
  BY DEF inputs, MaxDrop
<1>2. Connected(Ifg)' <=> Connected(Ifg)
  BY DEF inputs, Connected, Nodes, Search, Neighbours, Ifg
<1>. QED
  BY <1>1, <1>2

\* As do the parts of the invariant, when nothing was dropped or protected.
LEMMA Frame ==
    ASSUME IInv, UNCHANGED <<inputs, keep, dropped, protected>>
    PROVE  NetworkPreserved' /\ ProtectedNeeded' /\ Capped'
<1>1. NetworkPreserved'
  BY DEF IInv, inputs, NetworkPreserved, Holds, Crosses, Ifg
<1>2. ProtectedNeeded'
  BY Inputs DEF IInv, inputs, ProtectedNeeded, Holds, Crosses, Ifg
<1>3. Capped'
  BY Inputs DEF IInv, inputs, Capped
<1>. QED
  BY <1>1, <1>2, <1>3

LEMMA RefuseStep == IInv /\ Refuse => IInv'
<1> SUFFICES ASSUME IInv, Refuse PROVE IInv'
  OBVIOUS
<1>1. TypeOK'
  BY DEF IInv, Refuse, TypeOK, inputs
<1>2. Fresh' /\ Behind' /\ Ahead'
  BY DEF IInv, Refuse, Fresh, Behind, Ahead, inputs
<1>. QED
  BY <1>1, <1>2, Frame DEF IInv, Refuse

LEMMA StartStep == IInv /\ Start => IInv'
<1> SUFFICES ASSUME IInv, Start PROVE IInv'
  OBVIOUS
<1>0. N \in Nat /\ MaxDrop \in Nat
  BY NetworkAssumption, MaxDropType DEF IInv
<1>1. TypeOK'
  BY <1>0 DEF IInv, Start, TypeOK, inputs
<1>2. Fresh' /\ Behind'
  BY DEF IInv, Start, Fresh, Behind, inputs
<1>3. Ahead'
  BY <1>0, Inputs DEF IInv, Start, Ahead, TypeOK, inputs
<1>. QED
  BY <1>1, <1>2, <1>3, Frame DEF IInv, Start

LEMMA DropListedStep == IInv /\ DropListed => IInv'
<1> SUFFICES ASSUME IInv, DropListed PROVE IInv'
  OBVIOUS
<1>1. TypeOK'
  BY NetworkAssumption DEF IInv, DropListed, TypeOK, Ifg, inputs
<1>2. Fresh' /\ Behind' /\ Ahead' /\ Capped'
  BY DEF IInv, DropListed, Fresh, Behind, Ahead, Capped, inputs
<1>3. NetworkPreserved'
  <2>1. preserve => Holds(Ifg \ (1..bad))
    BY TypeNetwork, ConnectedHolds DEF IInv, DropListed, Refused
  <2>. QED
    BY <2>1 DEF DropListed, NetworkPreserved, Holds, Crosses, Ifg, inputs
<1>4. ProtectedNeeded'
  BY DEF IInv, DropListed, Fresh, ProtectedNeeded, inputs
<1>. QED
  BY <1>1, <1>2, <1>3, <1>4 DEF IInv

LEMMA ProtectStep == IInv /\ Protect => IInv'
<1> SUFFICES ASSUME IInv, Protect PROVE IInv'
  OBVIOUS
<1>0. N \in Nat
  BY NetworkAssumption
<1>1. TypeOK'
  BY <1>0 DEF IInv, Protect, TypeOK, Ifg, inputs
<1>2. Fresh' /\ Behind'
  BY DEF IInv, Protect, Fresh, Behind, TypeOK, inputs
<1>3. Ahead'
  BY <1>0, Inputs DEF IInv, Protect, Ahead, TypeOK, inputs
<1>4. NetworkPreserved'
  BY DEF IInv, Protect, NetworkPreserved, Holds, Crosses, Ifg, inputs
<1>5. ProtectedNeeded'
  <2> SUFFICES ASSUME rule = "final" \/ Connected(Ifg), NEW e \in protected'
               PROVE  ~Holds(keep \ {e})
    BY Inputs DEF Protect, ProtectedNeeded, Holds, Crosses, Ifg, inputs
  <2>1. CASE e = next
    BY <2>1, TypeNetwork, CutTest DEF IInv, Protect, TypeOK
  <2>2. CASE e \in protected
    BY <2>2 DEF IInv, ProtectedNeeded
  <2>. QED
    BY <2>1, <2>2 DEF Protect
<1>6. Capped'
  BY Inputs DEF IInv, Protect, Capped, inputs
<1>. QED
  BY <1>1, <1>2, <1>3, <1>4, <1>5, <1>6 DEF IInv

LEMMA DropStep == IInv /\ Drop => IInv'
<1> SUFFICES ASSUME IInv, Drop PROVE IInv'
  OBVIOUS
<1>0. N \in Nat /\ MaxDrop \in Nat /\ rule # "manual" /\ next \in Nat \ {0}
  BY NetworkAssumption, MaxDropType DEF IInv, Drop, Behind, TypeOK
<1>1. TypeOK'
  BY <1>0 DEF IInv, Drop, TypeOK, Ifg, inputs
<1>2. dropped' \subseteq 1..next
  BY <1>0 DEF IInv, Drop, Behind
<1>3. Fresh' /\ Behind'
  BY <1>0, <1>2 DEF IInv, Drop, Fresh, Behind, inputs
<1>4. Ahead'
  BY <1>0, Inputs DEF IInv, Drop, Ahead, TypeOK, inputs
<1>5. NetworkPreserved'
  <2>1. preserve => Holds(keep \ {next})
    BY TypeNetwork, CutTest DEF IInv, Drop, TypeOK
  <2>. QED
    BY <2>1 DEF Drop, NetworkPreserved, Holds, Crosses, Ifg, inputs
<1>6. ProtectedNeeded'
  <2> SUFFICES ASSUME rule = "final" \/ Connected(Ifg), NEW e \in protected
               PROVE  ~Holds((keep \ {next}) \ {e})
    BY Inputs DEF Drop, ProtectedNeeded, Holds, Crosses, Ifg, inputs
  <2>1. ~Holds(keep \ {e})
    BY DEF IInv, ProtectedNeeded
  <2>2. (keep \ {next}) \ {e} \subseteq keep \ {e}
    OBVIOUS
  <2>. QED
    BY <2>1, <2>2, HoldsMonotone
<1>7. Capped'
  <2>1. CASE rule = "final"
    <3>1. Cardinality(dropped') \in Nat /\ Cardinality(dropped') <= next
      BY <1>0, <1>2, AtMost
    <3>2. next <= MaxDrop
      BY <1>0, <2>1 DEF IInv, Drop, Ahead, TypeOK
    <3>. QED
      BY <1>0, <3>1, <3>2, Inputs DEF Drop, Capped
  <2>2. CASE rule # "final"
    <3>1. next - 1 \in Nat /\ dropped \subseteq 1..(next - 1)
      BY <1>0 DEF IInv, Behind
    <3>2. IsFiniteSet(dropped) /\ Cardinality(dropped) \in Nat
      BY <3>1, AtMost
    <3>3. Cardinality(dropped \union {next}) = Cardinality(dropped) + 1
      BY <1>0, <3>1, <3>2, FS_AddElement
    <3>4. Cardinality(dropped) < MaxDrop
      BY <1>0, <2>2, <3>2 DEF Drop, AtLimit
    <3>. QED
      BY <1>0, <3>2, <3>3, <3>4, Inputs DEF Drop, Capped
  <2>. QED
    BY <2>1, <2>2
<1>. QED
  BY <1>1, <1>3, <1>4, <1>5, <1>6, <1>7 DEF IInv

LEMMA EndLoopStep == IInv /\ EndLoop => IInv'
<1> SUFFICES ASSUME IInv, EndLoop PROVE IInv'
  OBVIOUS
<1>1. TypeOK'
  BY DEF IInv, EndLoop, TypeOK, inputs
<1>2. Fresh' /\ Behind' /\ Ahead'
  BY DEF IInv, EndLoop, Fresh, Behind, Ahead, inputs
<1>. QED
  BY <1>1, <1>2, Frame DEF IInv, EndLoop

LEMMA StutterStep == IInv /\ UNCHANGED vars => IInv'
<1> SUFFICES ASSUME IInv, UNCHANGED vars PROVE IInv'
  OBVIOUS
<1>1. TypeOK' /\ Fresh' /\ Behind'
  BY DEF IInv, vars, TypeOK, Fresh, Behind, inputs
<1>2. Ahead'
  BY Inputs DEF IInv, vars, Ahead, inputs
<1>. QED
  BY <1>1, <1>2, Frame DEF IInv, vars

LEMMA StepIInv == IInv /\ [Next]_vars => IInv'
BY RefuseStep, StartStep, DropListedStep, ProtectStep, DropStep, EndLoopStep,
   StutterStep DEF Next, Ended

-----------------------------------------------------------------------------
(* The invariant holds in every network and under every rule.              *)
THEOREM Invariance == Spec => []IInv
<1>1. Init => IInv
  BY InitIInv
<1>2. IInv /\ [Next]_vars => IInv'
  BY StepIInv
<1>. QED
  BY <1>1, <1>2, PTL DEF Spec

(* With preserve_network, the drops of each of the four rules leave every  *)
(* two days connected that the full network connects.                      *)
THEOREM Preserved == Spec => []NetworkPreserved
<1>1. IInv => NetworkPreserved
  BY DEF IInv
<1>. QED
  BY <1>1, Invariance, PTL

(* Each interferogram kept for the sake of the network is indispensable to *)
(* what is left, whatever was dropped after it.                            *)
THEOREM Needed == Spec => []ProtectedNeeded
<1>1. IInv => ProtectedNeeded
  BY DEF IInv
<1>. QED
  BY <1>1, Invariance, PTL

LEMMA CappedWithin == TypeOK /\ Capped => WithinLimit
<1> SUFFICES ASSUME TypeOK, Capped, rule # "manual"
             PROVE  /\ Cardinality(dropped) > 1 => 100 * Cardinality(dropped) <= N * percent
                    /\ rule = "pre" /\ percent = 0 => dropped = {}
  BY DEF WithinLimit
<1>1. N \in Nat /\ percent \in Nat /\ N * percent \in Nat
  BY NetworkAssumption DEF TypeOK
<1>2. IsFiniteSet(dropped) /\ Cardinality(dropped) \in Nat
  BY <1>1, AtMost DEF TypeOK, Ifg
<1>3. Cardinality(dropped) <= MaxDrop
  BY DEF Capped
<1>4. ASSUME Cardinality(dropped) > 1
      PROVE  100 * Cardinality(dropped) <= N * percent
  <2>1. Cardinality(dropped) <= (N * percent) \div 100
    BY <1>1, <1>2, <1>3, <1>4 DEF MaxDrop
  <2>2. ASSUME NEW x \in Nat, NEW c \in Nat, c <= x \div 100
        PROVE  100 * c <= x
    BY <2>2
  <2>. QED
    BY <1>1, <1>2, <2>1, <2>2
<1>5. ASSUME rule = "pre", percent = 0
      PROVE  dropped = {}
  <2>1. N * percent = 0
    BY <1>1, <1>5
  <2>2. MaxDrop = 0
    BY <1>5, <2>1 DEF MaxDrop
  <2>. QED
    BY <1>2, <1>3, <2>2, FS_EmptySet
<1>. QED
  BY <1>4, <1>5

(* Where an automatic rule drops more than one interferogram it keeps to   *)
(* max_drop_fraction: FINAL-QC by the number of candidates it looks at,    *)
(* the others by the test in their loop, whatever the network is.          *)
THEOREM Limit == Spec => []WithinLimit
<1>1. IInv => WithinLimit
  BY CappedWithin DEF IInv
<1>. QED
  BY <1>1, Invariance, PTL

(* On a connected network the test of FINAL-QC (the number of components)  *)
(* and that of the other rules (connectedness) give the same answer, for   *)
(* any interferograms that may be left.                                    *)
THEOREM Agree == Spec => []TestsAgree
<1>1. IInv => TestsAgree
  <2> SUFFICES ASSUME IInv, Connected(Ifg), keep \subseteq Ifg
               PROVE  ComponentCount(keep \ {next}) > ComponentCount(Ifg)
                        <=> ~Connected(keep \ {next})
    BY DEF IInv, TypeOK, TestsAgree
  <2>1. ComponentCount(keep \ {next}) > ComponentCount(Ifg) <=> ~Holds(keep \ {next})
    BY TypeNetwork, CountTest DEF IInv
  <2>2. Holds(keep \ {next}) <=> Connected(keep \ {next})
    BY TypeNetwork, ConnectedHolds, HoldsConnected DEF IInv
  <2>. QED
    BY <2>1, <2>2
<1>. QED
  BY <1>1, Invariance, PTL

(* One pass over the candidates, worst first, drops as many as any choice  *)
(* among them could that leaves the network whole: what was protected      *)
(* needs as many interferograms in its place as it has.                    *)
THEOREM Optimal == Spec => []GreedyOptimal
<1>1. IInv => GreedyOptimal
  <2> SUFFICES ASSUME IInv, pc = "done", preserve, next > todo,
                      rule = "final" \/ Connected(Ifg),
                      NEW other \in SUBSET (1..todo), Holds(Ifg \ other)
               PROVE  Cardinality(other) <= Cardinality(dropped)
    BY DEF GreedyOptimal
  <2>0. /\ N \in Nat /\ todo \in Nat /\ todo <= N /\ next \in Nat
        /\ dropped \subseteq Ifg /\ protected \subseteq Ifg
    BY NetworkAssumption DEF IInv, TypeOK
  <2>1. IsFiniteSet(dropped) /\ Cardinality(dropped) \in Nat
    BY <2>0, IfgsFinite
  <2>2. CASE rule = "manual"
    <3>1. 1..todo = {}
      BY <2>2 DEF IInv, Behind
    <3>2. Cardinality(other) = 0
      BY <3>1, FS_EmptySet
    <3>. QED
      BY <2>1, <3>2
  <2>3. CASE rule # "manual"
    <3>1. next - 1 = todo
      BY <2>0, <2>3 DEF IInv, Ahead
    <3>2. PICK C \in SUBSET Ifg : C = 1..todo
      BY <2>0 DEF Ifg
    <3>3. dropped \union protected = C /\ dropped \intersect protected = {}
      BY <2>3, <3>1, <3>2 DEF IInv, Behind
    <3>4. PICK K \in SUBSET Ifg : K = Ifg \ C
      OBVIOUS
    <3>5. PICK Q \in SUBSET Ifg : Q = C \ other
      OBVIOUS
    <3>6. K \union protected = keep
      BY <2>0, <3>3, <3>4 DEF IInv, Behind
    <3>7. Forest(K, protected)
      <4>1. K \intersect protected = {}
        BY <3>3, <3>4
      <4>2. ASSUME NEW p \in protected PROVE Bridges(p, keep \ {p})
        <5>1. ~Holds(keep \ {p}) /\ Holds(keep)
          BY DEF IInv, ProtectedNeeded, NetworkPreserved
        <5>2. PICK S \in SUBSET Day : /\ \E e \in Ifg : Crosses(e, S)
                                      /\ \A k \in keep \ {p} : ~Crosses(k, S)
          BY <5>1 DEF Holds
        <5>3. Crosses(p, S)
          BY <5>1, <5>2 DEF Holds
        <5>. QED
          BY <5>2, <5>3 DEF Bridges
      <4>. QED
        BY <3>6, <4>1, <4>2 DEF Forest
    <3>8. K \union Q = Ifg \ other
      BY <3>2, <3>4, <3>5
    <3>9. Cardinality(protected) <= Cardinality(Q)
      BY <2>0, <3>7, <3>8, TypeNetwork, Exchange DEF IInv
    <3>10. /\ IsFiniteSet(C) /\ Cardinality(C) \in Nat /\ Cardinality(Q) \in Nat
           /\ IsFiniteSet(protected) /\ Cardinality(protected) \in Nat
      BY <2>0, IfgsFinite
    <3>11. Cardinality(C) = Cardinality(dropped) + Cardinality(protected)
      <4>1. Cardinality(dropped \union protected)
              = Cardinality(dropped) + Cardinality(protected) - Cardinality({})
        BY <2>1, <3>3, <3>10, FS_Union
      <4>2. Cardinality({}) = 0 /\ Cardinality(dropped) \in Nat
            /\ Cardinality(protected) \in Nat
        BY <2>1, <3>10, FS_EmptySet
      <4>3. Cardinality(dropped \union protected) = Cardinality(dropped) + Cardinality(protected)
        BY <4>1, <4>2
      <4>. QED
        BY <3>3, <4>3
    <3>12. Cardinality(Q) = Cardinality(C) - Cardinality(other)
      <4>1. C \intersect other = other
        BY <3>2
      <4>2. Cardinality(C \ other) = Cardinality(C) - Cardinality(C \intersect other)
        BY <3>10, FS_Difference
      <4>. QED
        BY <3>5, <4>1, <4>2
    <3>13. Cardinality(other) \in Nat
      BY <3>2, IfgsFinite
    <3>. QED
      BY <2>1, <3>9, <3>10, <3>11, <3>12, <3>13
  <2>. QED
    BY <2>2, <2>3
<1>. QED
  BY <1>1, Invariance, PTL
=============================================================================
