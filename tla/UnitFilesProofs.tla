-------------------------- MODULE UnitFilesProofs --------------------------
(***************************************************************************)
(* Proofs about what the files say of the units, whatever they say and     *)
(* however many units there are: the order in which they are started       *)
(* (SortAfter), the listing of their dependencies (Dependencies), the      *)
(* reading of a file with those it includes and its drop-ins (UnitFile),   *)
(* the sources of the environment of a service (Environment) and the units *)
(* of a command line (UnitDatabase).                                       *)
(***************************************************************************)
EXTENDS UnitFiles, TLAPS, FiniteSetTheorems, SequenceTheorems, WellFoundedInduction

-----------------------------------------------------------------------------
(* The sort: a pass that changes no rank has found every pair in order.    *)

\* The pairs of this pass that have been compared.
Compared(x, y) == x < a \/ (x = a /\ y < b)

Ordered(x, y) == /\ CompareAfter(x, y) > 0 => rank[x] > rank[y]
                 /\ CompareAfter(x, y) < 0 => rank[y] > rank[x]

RanksInv == /\ rank \in [Items -> Nat]
            /\ a \in 1..(N + 1)
            /\ b \in 1..N
            /\ changed \in BOOLEAN
            /\ pass \in 1..(N + 1)
            /\ ~ changed => \A x, y \in Items : x # y /\ Compared(x, y) => Ordered(x, y)

LEMMA CompareAfterType == ASSUME NEW x, NEW y PROVE CompareAfter(x, y) \in {-1, 0, 1}
BY DEF CompareAfter

LEMMA RanksInvInit == SortInit => RanksInv
<1> SUFFICES ASSUME SortInit PROVE RanksInv
  OBVIOUS
<1>1. \A x, y \in Items : ~ Compared(x, y)
  BY DEF SortInit, Items, Compared
<1>2. rank \in [Items -> Nat] /\ changed \in BOOLEAN
  BY DEF SortInit
<1>3. a \in 1..(N + 1) /\ b \in 1..N /\ pass \in 1..(N + 1)
  BY SortAssumption DEF SortInit
<1> QED BY <1>1, <1>2, <1>3 DEF RanksInv

LEMMA RaisedType ==
    ASSUME NEW x \in Items, NEW y \in Items, rank \in [Items -> Nat]
    PROVE  Raised(x, y) \in [Items -> Nat]
BY DEF Raised

\* A pair whose comparison raises nothing is in order.
LEMMA UnraisedIsOrdered ==
    ASSUME NEW x \in Items, NEW y \in Items, rank \in [Items -> Nat], Raised(x, y) = rank
    PROVE  Ordered(x, y)
<1> DEFINE c == CompareAfter(x, y)
<1>0. c \in Int /\ rank[x] \in Nat /\ rank[y] \in Nat
  BY CompareAfterType
<1>1. CASE c > 0
  <2>1. rank[x] > rank[y]
    BY <1>0, <1>1 DEF Raised
  <2> QED BY <1>0, <1>1, <2>1 DEF Ordered
<1>2. CASE c < 0
  <2>1. rank[y] > rank[x]
    BY <1>0, <1>2 DEF Raised
  <2> QED BY <1>0, <1>2, <2>1 DEF Ordered
<1>3. CASE c = 0
  BY <1>3 DEF Ordered
<1> QED BY <1>0, <1>1, <1>2, <1>3

LEMMA RanksInvStep == RanksInv /\ [SortNext]_sortVars => RanksInv'
<1> SUFFICES ASSUME RanksInv, [SortNext]_sortVars PROVE RanksInv'
  OBVIOUS
<1> USE SortAssumption
<1>1. ASSUME Compare PROVE RanksInv'
  <2>1. a \in Items /\ b \in Items
    BY <1>1 DEF Compare, RanksInv, Items
  <2>2. rank' \in [Items -> Nat]
    BY <1>1, <2>1, RaisedType DEF Compare, RanksInv
  <2>3. a' \in 1..(N + 1) /\ b' \in 1..N /\ changed' \in BOOLEAN /\ pass' = pass
    BY <1>1 DEF Compare, RanksInv
  <2>4. ASSUME ~ changed', NEW x \in Items, NEW y \in Items, x # y, Compared(x, y)'
        PROVE  Ordered(x, y)'
    <3>1. ~ changed /\ rank' = rank
      BY <1>1, <2>4 DEF Compare
    <3>2. Compared(x, y) \/ (x = a /\ y = b)
      BY <1>1, <2>4 DEF Compare, Compared, RanksInv, Items
    <3>3. Ordered(x, y)
      <4>1. CASE Compared(x, y)
        BY <2>4, <3>1, <4>1 DEF RanksInv
      <4>2. CASE x = a /\ y = b
        BY <1>1, <2>4, <3>1, <4>2, UnraisedIsOrdered DEF Compare, RanksInv
      <4> QED BY <3>2, <4>1, <4>2
    <3> QED BY <1>1, <3>1, <3>3 DEF Ordered, CompareAfter, Compare
  <2> QED BY <2>2, <2>3, <2>4 DEF RanksInv
<1>2. ASSUME NextPass PROVE RanksInv'
  <2>1. \A x, y \in Items : ~ Compared(x, y)'
    BY <1>2 DEF NextPass, Items, Compared
  <2>2. rank' \in [Items -> Nat] /\ changed' \in BOOLEAN
    BY <1>2 DEF NextPass, RanksInv
  <2>3. a' \in 1..(N + 1) /\ b' \in 1..N /\ pass' \in 1..(N + 1)
    BY <1>2 DEF NextPass, RanksInv
  <2> QED BY <2>1, <2>2, <2>3 DEF RanksInv
<1>3. ASSUME Sort PROVE RanksInv'
  BY <1>3 DEF Sort, RanksInv, Compared, Ordered, CompareAfter
<1>4. ASSUME UNCHANGED sortVars PROVE RanksInv'
  BY <1>4 DEF sortVars, RanksInv, Compared, Ordered, CompareAfter
<1> QED BY <1>1, <1>2, <1>3, <1>4 DEF SortNext

\* When the loop ends because a pass changed nothing, every two units of the
\* list are in the order CompareAfter gives them, whatever its length and
\* whatever the unit files say: a sort that ends early never ends too early.
THEOREM SettledSortIsOrdered == SortSpec => []SettledIsOrdered
<1>1. RanksInv => SettledIsOrdered
  BY SortAssumption DEF RanksInv, SettledIsOrdered, Settled, Compared, Ordered, Items
<1> QED BY <1>1, RanksInvInit, RanksInvStep, PTL DEF SortSpec

\* SortTypeOK.
LEMMA SortTypes == SortSpec => []SortTypeOK
<1> DEFINE Given == /\ after \in Orderings /\ before \in Orderings
                    /\ result \in {<<>>} \cup [Items -> Items]
<1>1. SortInit => Given
  BY DEF SortInit
<1>2. Given /\ [SortNext]_sortVars => Given'
  BY DEF SortNext, Compare, NextPass, Sort, sortVars
<1>3. RanksInv /\ Given => SortTypeOK
  BY DEF RanksInv, SortTypeOK, Orderings
<1> QED BY <1>1, <1>2, <1>3, RanksInvInit, RanksInvStep, PTL DEF SortSpec

-----------------------------------------------------------------------------
(* N passes are enough for any After= and Before= that can be satisfied.   *)

LEMMA ItemsFinite == IsFiniteSet(Items) /\ Cardinality(Items) = N
BY SortAssumption, FS_Interval DEF Items

\* Of a set of finite sets one is without another one of them in it.
LEMMA SmallestSet ==
    ASSUME NEW A, IsFiniteSet(A), NEW F \in SUBSET SUBSET A, F # {}
    PROVE  \E T \in F : \A U \in F : U \subseteq T => U = T
<1>1. F \subseteq FiniteSubsetsOf(A)
  BY FS_FiniteSubsetsOfFinite
<1>2. \E T \in F : \A U \in F : ~ (<<U, T>> \in StrictSubsetOrdering(A))
  BY <1>1, FS_StrictSubsetOrderingWellFounded, WFMin, Zenon
<1>3. PICK T \in F : \A U \in F : ~ (<<U, T>> \in StrictSubsetOrdering(A))
  BY <1>2
<1>4. \A U \in F : U \subseteq T => U = T
  BY <1>3 DEF StrictSubsetOrdering
<1> QED BY <1>4

\* If each set has a unit that waits for none of it, each set also has one that none
\* of it waits for: a smallest set without would stay one without the former.
LEMMA LastOfSet ==
    ASSUME Acyclic, NEW S \in SUBSET Items, S # {}
    PROVE  \E x \in S : \A y \in S : ~ First(x, y)
<1> DEFINE Stuck == {T \in SUBSET Items : T # {} /\ \A x \in T : \E y \in T : First(x, y)}
<1> SUFFICES ASSUME Stuck # {} PROVE FALSE
  OBVIOUS
<1>1. PICK T \in Stuck : \A U \in Stuck : U \subseteq T => U = T
  <2>1. Stuck \in SUBSET SUBSET Items
    OBVIOUS
  <2> HIDE DEF Stuck
  <2> QED BY <2>1, ItemsFinite, SmallestSet
<1>2. PICK y \in T : \A x \in T : ~ First(x, y)
  BY DEF Acyclic
<1>3. PICK z \in T : First(y, z)
  OBVIOUS
<1>4. z \in T \ {y}
  BY <1>3 DEF First
<1>5. \A x \in T \ {y} : \E w \in T \ {y} : First(x, w)
  BY <1>2
<1>6. T \ {y} \in Stuck
  BY <1>4, <1>5
<1> QED BY <1>1, <1>6

LEMMA NotBoth == ASSUME Acyclic, NEW x \in Items, NEW y \in Items, First(x, y) PROVE ~ First(y, x)
<1>1. {x, y} \in SUBSET Items /\ {x, y} # {}
  OBVIOUS
<1>2. \E v \in {x, y} : \A w \in {x, y} : ~ First(w, v)
  BY <1>1, Zenon DEF Acyclic
<1> QED BY <1>2

\* Without circles the comparison says which of the two comes first.
LEMMA ComparisonIsFirst ==
    ASSUME Acyclic, NEW x \in Items, NEW y \in Items, x # y
    PROVE  /\ CompareAfter(x, y) > 0 <=> First(x, y)
           /\ CompareAfter(x, y) < 0 <=> First(y, x)
BY NotBoth DEF CompareAfter, First

\* Units that have their last rank: whatever one of them comes before is one of them,
\* and has a lower rank.
Final(S) == \A x \in S, y \in Items : First(x, y) => y \in S /\ rank[x] > rank[y]

\* Who comes before a unit of S, and has been compared with it in this pass, is above it.
Raising(S) == \A x \in Items, y \in S : First(x, y) /\ Compared(x, y) => rank[x] > rank[y]

\* Each pass gives one unit more its last rank.
PassInv == Acyclic => \E S \in SUBSET Items : Final(S) /\ Raising(S) /\ Cardinality(S) >= pass - 1

LEMMA PassInvInit == SortInit => PassInv
<1> SUFFICES ASSUME SortInit PROVE PassInv
  OBVIOUS
<1>1. Final({}) /\ Raising({})
  BY DEF Final, Raising
<1>2. Cardinality({}) >= pass - 1
  BY FS_EmptySet DEF SortInit
<1> QED BY <1>1, <1>2 DEF PassInv

\* The comparison of a pair raises a rank at most, never one that is final, and
\* leaves the pair in order.
LEMMA RaisedKeeps ==
    ASSUME Acyclic, rank \in [Items -> Nat], NEW x \in Items, NEW y \in Items, x # y,
           NEW S \in SUBSET Items, Final(S), rank' = Raised(x, y)
    PROVE  /\ \A z \in Items : rank'[z] >= rank[z]
           /\ \A z \in S : rank'[z] = rank[z]
           /\ First(x, y) => rank'[x] > rank'[y]
<1>0. rank[x] \in Nat /\ rank[y] \in Nat
  OBVIOUS
<1>1. CASE First(x, y) /\ rank[x] <= rank[y]
  <2>1. rank' = [rank EXCEPT ![x] = rank[y] + 1]
    BY <1>1, ComparisonIsFirst DEF Raised
  <2>2. x \notin S
    BY <1>0, <1>1 DEF Final
  <2> QED BY <1>0, <1>1, <2>1, <2>2
<1>2. CASE First(y, x) /\ rank[y] <= rank[x]
  <2>1. rank' = [rank EXCEPT ![y] = rank[x] + 1]
    <3>1. CompareAfter(x, y) < 0 /\ ~ (CompareAfter(x, y) > 0)
      BY <1>2, ComparisonIsFirst, CompareAfterType
    <3> QED BY <1>2, <3>1 DEF Raised
  <2>2. y \notin S
    BY <1>0, <1>2 DEF Final
  <2>3. ~ First(x, y)
    BY <1>2, NotBoth
  <2> QED BY <1>0, <1>2, <2>1, <2>2, <2>3
<1>3. CASE ~ (First(x, y) /\ rank[x] <= rank[y]) /\ ~ (First(y, x) /\ rank[y] <= rank[x])
  <2>1. rank' = rank
    BY <1>3, ComparisonIsFirst DEF Raised
  <2> QED BY <1>0, <1>3, <2>1
<1> QED BY <1>1, <1>2, <1>3

LEMMA PassInvStep == RanksInv /\ PassInv /\ [SortNext]_sortVars => PassInv'
<1> SUFFICES ASSUME RanksInv, PassInv, [SortNext]_sortVars, Acyclic' PROVE PassInv'
  BY DEF PassInv
<1>0. /\ after' = after /\ before' = before
      /\ Acyclic
  <2>1. after' = after /\ before' = before
    BY DEF SortNext, Compare, NextPass, Sort, sortVars
  <2> QED BY <2>1 DEF Acyclic, First
<1> PICK S \in SUBSET Items : Final(S) /\ Raising(S) /\ Cardinality(S) >= pass - 1
  BY <1>0 DEF PassInv
<1> USE SortAssumption
<1>1. ASSUME Compare PROVE PassInv'
  <2>1. a \in Items /\ b \in Items /\ rank \in [Items -> Nat]
    BY <1>1 DEF Compare, RanksInv, Items
  <2>2. /\ \A z \in Items : rank'[z] >= rank[z]
        /\ \A z \in S : rank'[z] = rank[z]
        /\ First(a, b) => rank'[a] > rank'[b]
    <3>1. CASE a = b
      BY <1>1, <2>1, <3>1 DEF Compare, First
    <3>2. CASE a # b
      BY <1>0, <1>1, <2>1, <3>2, RaisedKeeps DEF Compare
    <3> QED BY <3>1, <3>2
  <2>3. rank' \in [Items -> Nat]
    BY <1>1, <2>1, RaisedType DEF Compare
  <2>4. Final(S)'
    <3> SUFFICES ASSUME NEW x \in S, NEW y \in Items, First(x, y)
                 PROVE  y \in S /\ rank'[x] > rank'[y]
      BY <1>0 DEF Final, First
    <3>1. y \in S /\ rank[x] > rank[y]
      BY DEF Final
    <3> QED BY <2>2, <3>1
  <2>5. Raising(S)'
    <3> SUFFICES ASSUME NEW x \in Items, NEW y \in S, First(x, y), Compared(x, y)'
                 PROVE  rank'[x] > rank'[y]
      BY <1>0 DEF Raising, First
    <3>1. Compared(x, y) \/ (x = a /\ y = b)
      <4>1. IF b < N THEN b' = b + 1 /\ a' = a ELSE b' = 1 /\ a' = a + 1
        BY <1>1 DEF Compare
      <4>2. x \in 1 .. N /\ y \in 1 .. N /\ a \in 1 .. N /\ b \in 1 .. N
        BY <2>1 DEF Items
      <4>3. x < a' \/ (x = a' /\ y < b')
        BY DEF Compared
      <4>4. x < a \/ (x = a /\ y < b) \/ (x = a /\ y = b)
        BY <4>1, <4>2, <4>3
      <4> QED BY <4>4 DEF Compared
    <3>2. CASE Compared(x, y)
      <4>1. rank[x] > rank[y]
        BY <3>2 DEF Raising
      <4>2. rank[x] \in Nat /\ rank[y] \in Nat /\ rank'[x] \in Nat
        BY <2>1, <2>3
      <4>3. rank'[x] >= rank[x] /\ rank'[y] = rank[y]
        BY <2>2
      <4> QED BY <4>1, <4>2, <4>3
    <3> QED BY <2>2, <3>1, <3>2
  <2> QED BY <1>1, <2>4, <2>5 DEF PassInv, Compare
<1>2. ASSUME NextPass PROVE PassInv'
  <2>1. \A x, y \in Items : ~ Compared(x, y)' /\ Compared(x, y)
    BY <1>2 DEF NextPass, Items, Compared, RanksInv
  <2>2. rank' = rank /\ pass' = pass + 1 /\ pass <= N /\ pass \in Nat
    BY <1>2 DEF NextPass, RanksInv
  <2>3. ASSUME NEW T \in SUBSET Items, Final(T) PROVE Final(T)' /\ Raising(T)'
    BY <1>0, <2>1, <2>2, <2>3 DEF Final, Raising, First
  <2>4. CASE S = Items
    <3>1. Cardinality(S) >= pass' - 1
      BY <2>2, <2>4, ItemsFinite
    <3> QED BY <2>3, <3>1 DEF PassInv
  <2>5. CASE S # Items
    <3>1. PICK x \in Items \ S : \A y \in Items \ S : ~ First(x, y)
      BY <1>0, <2>5, LastOfSet
    <3>2. Final(S \cup {x})
      BY <2>1, <3>1 DEF Final, Raising
    <3>3. Cardinality(S \cup {x}) = Cardinality(S) + 1 /\ Cardinality(S) \in Nat
      BY <3>1, ItemsFinite, FS_Subset, FS_AddElement, FS_CardinalityType
    <3>4. Cardinality(S \cup {x}) >= pass' - 1
      BY <2>2, <3>3
    <3> QED BY <2>3, <3>1, <3>2, <3>4 DEF PassInv
  <2> QED BY <2>4, <2>5
<1>3. ASSUME Sort \/ UNCHANGED sortVars PROVE PassInv'
  <2>1. UNCHANGED <<rank, a, b, pass>>
    BY <1>3 DEF Sort, sortVars
  <2>2. Final(S)' /\ Raising(S)'
    BY <1>0, <2>1 DEF Final, Raising, First, Compared
  <2> QED BY <2>1, <2>2 DEF PassInv
<1> QED BY <1>1, <1>2, <1>3 DEF SortNext

\* A list that is sorted is sorted by the ranks as they are.
ResultInv == result # <<>> =>
                /\ Settled \/ pass > N
                /\ result \in [Items -> Items]
                /\ \A i, j \in Items : i < j => result[i] # result[j] /\ rank[result[i]] >= rank[result[j]]

LEMMA ResultInvStep == RanksInv /\ ResultInv /\ [SortNext]_sortVars => ResultInv'
<1> SUFFICES ASSUME RanksInv, ResultInv, [SortNext]_sortVars PROVE ResultInv'
  OBVIOUS
<1>1. CASE Compare \/ NextPass
  <2>1. result' = result /\ ~ Settled /\ ~ (pass > N)
    BY <1>1, SortAssumption DEF RanksInv, Settled, Compare, NextPass
  <2> QED BY <2>1 DEF ResultInv
<1>2. CASE Sort
  BY <1>2 DEF ResultInv, Settled, Sort
<1>3. CASE UNCHANGED sortVars
  BY <1>3 DEF ResultInv, Settled, sortVars
<1> QED BY <1>1, <1>2, <1>3 DEF SortNext

\* A sorted list has each unit at its position.
LEMMA PositionIs ==
    ASSUME ResultInv, result # <<>>, NEW x \in Items
    PROVE  Position(x) \in Items /\ result[Position(x)] = x
<1>1. result \in Injection(Items, Items)
  <2>1. \A i, j \in Items : result[i] = result[j] => i = j
    BY SortAssumption DEF ResultInv, Items
  <2> QED BY <2>1 DEF ResultInv, Injection, IsInjective
<1>2. result \in Surjection(Items, Items)
  BY <1>1, ItemsFinite, FS_Injection
<1>3. \E i \in Items : result[i] = x
  BY <1>2 DEF Surjection
<1> QED BY <1>3 DEF Position

\* As long as After= and Before= can be satisfied, the sorted list satisfies all of
\* them, however many units there are: neither does the sort end too early, nor are N
\* passes too few.
THEOREM SortIsRight == SortSpec => []SortRespectsOrder
<1>1. SortInit => ResultInv
  BY DEF SortInit, ResultInv
<1>2. RanksInv /\ PassInv /\ ResultInv => SortRespectsOrder
  <2> SUFFICES ASSUME RanksInv, PassInv, ResultInv, result # <<>>, Acyclic,
                      NEW x \in Items, NEW y \in Items, First(x, y)
               PROVE  Position(x) < Position(y)
    BY DEF SortRespectsOrder
  <2> USE SortAssumption
  <2>1. rank[x] > rank[y]
    <3>1. CASE Settled
      <4>1. Ordered(x, y)
        BY <3>1 DEF RanksInv, Settled, Compared, Items, First
      <4> QED BY <4>1, ComparisonIsFirst DEF Ordered, First
    <3>2. CASE pass > N
      <4>1. PICK S \in SUBSET Items : Final(S) /\ Cardinality(S) >= pass - 1
        BY DEF PassInv
      <4>2. IsFiniteSet(S) /\ Cardinality(S) <= N /\ (Cardinality(S) = N => S = Items)
        BY ItemsFinite, FS_Subset
      <4>3. Cardinality(S) \in Nat
        BY <4>2, FS_CardinalityType
      <4>4. S = Items
        BY <3>2, <4>1, <4>2, <4>3 DEF RanksInv
      <4> QED BY <4>1, <4>4 DEF Final
    <3> QED BY <3>1, <3>2 DEF ResultInv
  <2>2. /\ Position(x) \in Items /\ result[Position(x)] = x
        /\ Position(y) \in Items /\ result[Position(y)] = y
    BY PositionIs
  <2>3. rank[x] \in Nat /\ rank[y] \in Nat
    BY DEF RanksInv
  <2>4. ~ (Position(y) < Position(x))
    BY <2>1, <2>2, <2>3 DEF ResultInv
  <2>5. Position(x) # Position(y)
    BY <2>2 DEF First
  <2> QED BY <2>2, <2>4, <2>5 DEF Items
<1> QED
  BY <1>1, <1>2, RanksInvInit, RanksInvStep, PassInvInit, PassInvStep, ResultInvStep, PTL
  DEF SortSpec

-----------------------------------------------------------------------------
(* The listing: the types, the depth of the walk, and its completeness.    *)

\* A call has only dependencies of its unit to follow.
TodoOK == \A i \in DOMAIN stack : stack[i].todo \subseteq Dependencies(stack[i].unit)

Typed == InputOK /\ TypeOK /\ TodoOK

LEMMA MarkType ==
    ASSUME NEW u \in Units, NEW d \in Units,
           declared \in [Units -> [Units -> SUBSET StyleNames]], d \in Dependencies(u)
    PROVE  DependencyStyle(u, d) \in StyleNames
<1> DEFINE found == {i \in DOMAIN Styles : Styles[i] \in declared[u][d]}
<1>1. found \subseteq Nat /\ found \subseteq DOMAIN Styles
  BY DEF Styles
<1>2. found # {}
  BY DEF Dependencies, StyleNames
<1>3. PICK i \in found : \A j \in found : ~ (<<j, i>> \in OpToRel(<, Nat))
  BY <1>1, <1>2, WFMin, NatLessThanWellFounded
<1>4. OpToRel(<, Nat) = {ss \in Nat \X Nat : ss[1] < ss[2]}
  BY Zenon DEF OpToRel
<1>5. \A j \in found : i <= j
  <2>1. \A j \in found : ~ (j < i)
    BY <1>1, <1>3, <1>4
  <2> QED BY <1>1, <2>1
<1>6. (CHOOSE k \in found : \A j \in found : k <= j) \in found
  BY <1>5
<1> HIDE DEF found
<1>7. Styles[CHOOSE k \in found : \A j \in found : k <= j] \in StyleNames
  BY <1>1, <1>6, Zenon DEF StyleNames
<1> QED BY <1>7, Zenon DEF DependencyStyle, found

LEMMA DependenciesType == \A u : Dependencies(u) \subseteq Units
BY DEF Dependencies

\* What each action does to the stack, frame by frame.

LEMMA TopIsFrame ==
    ASSUME stack \in Seq(Frame), stack # <<>>
    PROVE  Len(stack) \in DOMAIN stack /\ Top \in Frame /\ Top = stack[Len(stack)]
BY DEF Top

LEMMA Pushed ==
    ASSUME NEW s \in Seq(Frame), NEW f \in Frame
    PROVE  /\ Append(s, f) \in Seq(Frame)
           /\ Len(Append(s, f)) = Len(s) + 1
           /\ \A i \in DOMAIN s : Append(s, f)[i] = s[i]
           /\ Append(s, f)[Len(s) + 1] = f
           /\ DOMAIN Append(s, f) = DOMAIN s \cup {Len(s) + 1}
OBVIOUS

LEMMA Popped ==
    ASSUME NEW s \in Seq(Frame), s # <<>>
    PROVE  LET t == SubSeq(s, 1, Len(s) - 1)
           IN  /\ t \in Seq(Frame)
               /\ DOMAIN t = DOMAIN s \ {Len(s)}
               /\ \A i \in DOMAIN t : t[i] = s[i]
OBVIOUS

LEMMA WithoutFields ==
    ASSUME NEW f \in Frame, NEW d
    PROVE  /\ Without(f, d) \in Frame
           /\ Without(f, d).unit = f.unit /\ Without(f, d).loop = f.loop
           /\ Without(f, d).todo = f.todo \ {d}
BY DEF Without, Frame

LEMMA Shortened ==
    ASSUME NEW s \in Seq(Frame), s # <<>>, NEW f \in Frame
    PROVE  LET t == [s EXCEPT ![Len(s)] = f]
           IN  /\ t \in Seq(Frame)
               /\ DOMAIN t = DOMAIN s /\ Len(t) = Len(s)
               /\ \A i \in DOMAIN s : t[i] = IF i = Len(s) THEN f ELSE s[i]
OBVIOUS

LEMMA TypedInit == InputOK /\ Init => Typed
<1> SUFFICES ASSUME InputOK, Init PROVE Typed
  OBVIOUS
<1>1. call \subseteq Call /\ \A c, d \in call : c = d
  <2> DEFINE c == [unit |-> Root, mark |-> "", loop |-> {}]
  <2>1. c \in Call /\ call = {c}
    BY DEF Init, InputOK, Call
  <2> HIDE DEF c
  <2> QED BY <2>1
<1>2. declared \in [Units -> [Units -> SUBSET StyleNames]]
  BY DEF Init, InputOK
<1>3. stack = <<>> /\ loaded \subseteq Units /\ listed = {} /\ expanded = {}
  BY DEF Init
<1>4. stack \in Seq(Frame) /\ DOMAIN stack = {}
  BY <1>3
<1>5. TypeOK
  BY <1>1, <1>2, <1>3, <1>4 DEF TypeOK
<1> QED BY <1>4, <1>5 DEF Typed, TodoOK

LEMMA TypedStep == Typed /\ [Next]_vars => Typed'
<1> SUFFICES ASSUME Typed, [Next]_vars PROVE Typed'
  OBVIOUS
<1>0. InputOK' /\ TypeOK /\ TodoOK
  BY DEF Typed, InputOK
<1>1. ASSUME Enter PROVE TypeOK' /\ TodoOK'
  <2>0. PICK c \in call : Enter!(c)
    BY <1>1 DEF Enter
  <2>1. c \in Call /\ call' = {} /\ declared' = declared /\ loaded' = loaded
    BY <1>0, <2>0 DEF TypeOK, input
  <2>2. CASE c.unit \in loaded /\ ~ StopsAt(c.mark)
    <3> DEFINE f == [unit |-> c.unit, loop |-> c.loop, todo |-> Dependencies(c.unit)]
    <3>1. f \in Frame
      BY <2>1, DependenciesType DEF Call, Frame
    <3>2. /\ stack' = Append(stack, f) /\ expanded' = expanded \cup {c.unit}
          /\ listed' = listed \cup {c.unit}
      BY <2>0, <2>2
    <3>3. stack' \in Seq(Frame)
      BY <1>0, <3>1, <3>2, Pushed DEF TypeOK
    <3>4. TypeOK'
      BY <1>0, <2>1, <3>2, <3>3 DEF TypeOK, Call
    <3>5. TodoOK'
      <4> HIDE DEF f
      <4>1. \A i \in DOMAIN stack' : (i \in DOMAIN stack /\ stack'[i] = stack[i]) \/ stack'[i] = f
        BY <1>0, <3>1, <3>2, Pushed DEF TypeOK
      <4>2. f.todo \subseteq Dependencies(f.unit)
        BY DEF f
      <4> QED BY <1>0, <2>1, <4>1, <4>2 DEF TodoOK, Dependencies
    <3> QED BY <3>4, <3>5
  <2>3. CASE ~ (c.unit \in loaded /\ ~ StopsAt(c.mark))
    <3>1. stack' = stack /\ expanded' = expanded /\ (listed' = listed \/ listed' = listed \cup {c.unit})
      BY <2>0, <2>3
    <3> QED BY <1>0, <2>1, <3>1 DEF TypeOK, TodoOK, Dependencies, Call
  <2> QED BY <2>2, <2>3
<1>2. ASSUME Follow PROVE TypeOK' /\ TodoOK'
  <2>0. PICK d \in Top.todo : Follow!2!(d)
    BY <1>2 DEF Follow
  <2>1. Top \in Frame /\ Len(stack) \in DOMAIN stack /\ Top = stack[Len(stack)]
        /\ stack \in Seq(Frame) /\ stack # <<>>
    BY <1>0, <1>2, TopIsFrame DEF Follow, TypeOK
  <2>2. Top.unit \in Units /\ d \in Units /\ LoopBelow(Top) \in SUBSET Units
        /\ Top.todo \ {d} \in SUBSET Units
    BY <2>1, DependenciesType DEF Frame, LoopBelow
  <2>3. d \in Dependencies(Top.unit) /\ Top.todo \subseteq Dependencies(Top.unit)
    BY <1>0, <2>1 DEF TodoOK
  <2>4. DependencyStyle(Top.unit, d) \in StyleNames
    BY <1>0, <2>2, <2>3, MarkType DEF TypeOK
  <2>5. /\ stack' \in Seq(Frame)
        /\ \A i \in DOMAIN stack' : /\ i \in DOMAIN stack /\ stack'[i].unit = stack[i].unit
                                    /\ stack'[i].todo \subseteq stack[i].todo
    <3> DEFINE f == Without(Top, d)
    <3>1. f \in Frame /\ f.unit = Top.unit /\ f.todo \subseteq Top.todo
      BY <2>1, WithoutFields
    <3>2. stack' = [stack EXCEPT ![Len(stack)] = f]
      BY <2>0
    <3> HIDE DEF f
    <3>3. /\ stack' \in Seq(Frame) /\ DOMAIN stack' = DOMAIN stack
          /\ \A i \in DOMAIN stack : stack'[i] = IF i = Len(stack) THEN f ELSE stack[i]
      BY <2>1, <3>1, <3>2, Shortened
    <3> QED BY <2>1, <3>1, <3>3
  <2>6. call' \subseteq Call /\ \A x, y \in call' : x = y
    <3> DEFINE c == [unit |-> d, mark |-> DependencyStyle(Top.unit, d), loop |-> LoopBelow(Top)]
    <3>1. c \in Call
      BY <2>2, <2>4 DEF Call
    <3>2. call' = {} \/ call' = {c}
      BY <2>0
    <3> HIDE DEF c
    <3> QED BY <3>1, <3>2
  <2>7. declared' = declared /\ loaded' = loaded /\ listed' = listed /\ expanded' = expanded
    BY <1>2 DEF Follow, input
  <2>8. TodoOK'
    BY <1>0, <2>5, <2>7 DEF TodoOK, Dependencies
  <2> QED BY <1>0, <2>5, <2>6, <2>7, <2>8 DEF TypeOK
<1>3. ASSUME Return PROVE TypeOK' /\ TodoOK'
  <2>1. /\ stack' \in Seq(Frame)
        /\ \A i \in DOMAIN stack' : i \in DOMAIN stack /\ stack'[i] = stack[i]
    BY <1>0, <1>3, Popped DEF Return, TypeOK
  <2>2. /\ declared' = declared /\ loaded' = loaded /\ call' = call
        /\ listed' = listed /\ expanded' = expanded
    BY <1>3 DEF Return, input
  <2>3. TodoOK'
    BY <1>0, <2>1, <2>2 DEF TodoOK, Dependencies
  <2> QED BY <1>0, <2>1, <2>2, <2>3 DEF TypeOK
<1>4. ASSUME UNCHANGED vars PROVE TypeOK' /\ TodoOK'
  BY <1>0, <1>4 DEF vars, TypeOK, TodoOK, Dependencies
<1> QED BY <1>0, <1>1, <1>2, <1>3, <1>4 DEF Next, Typed

\* The listing keeps its types, for any units and any unit files.
THEOREM TypeCorrectness == InputOK /\ Spec => []TypeOK
<1>1. Typed => TypeOK
  BY DEF Typed
<1> QED BY <1>1, TypedInit, TypedStep, PTL DEF Spec

-----------------------------------------------------------------------------

\* Each call knows the dependencies of all its callers, and was made for one that
\* its caller's callers do not have.
PathOK == /\ \A i, j \in DOMAIN stack : i < j => Dependencies(stack[i].unit) \subseteq stack[j].loop
          /\ \A j \in DOMAIN stack \ {1} :
                stack[j].unit \in Dependencies(stack[j - 1].unit) \ stack[j - 1].loop
          /\ \A c \in call : \A i \in DOMAIN stack : Dependencies(stack[i].unit) \subseteq c.loop
          /\ \A c \in call : stack # <<>> => c.unit \in Dependencies(Top.unit) \ Top.loop

LEMMA PathInit == InputOK /\ Init => PathOK
<1> SUFFICES ASSUME Init PROVE PathOK
  OBVIOUS
<1>1. stack = <<>>
  BY DEF Init
<1>2. DOMAIN stack = {}
  BY <1>1
<1> QED BY <1>1, <1>2 DEF PathOK

LEMMA PathStep == Typed /\ PathOK /\ [Next]_vars => PathOK'
<1> SUFFICES ASSUME Typed, PathOK, [Next]_vars PROVE PathOK'
  OBVIOUS
<1>0. TypeOK /\ TodoOK /\ stack \in Seq(Frame)
  BY DEF Typed, TypeOK
<1>1. ASSUME Enter PROVE PathOK'
  <2>0. PICK c \in call : Enter!(c)
    BY <1>1 DEF Enter
  <2>1. c \in Call /\ call' = {} /\ declared' = declared
    BY <1>0, <2>0 DEF TypeOK, input
  <2>2. CASE c.unit \in loaded /\ ~ StopsAt(c.mark)
    <3> DEFINE f == [unit |-> c.unit, loop |-> c.loop, todo |-> Dependencies(c.unit)]
               n == Len(stack)
    <3>1. f \in Frame /\ f.unit = c.unit /\ f.loop = c.loop
      BY <2>1, DependenciesType DEF Call, Frame
    <3>2. stack' = Append(stack, f)
      BY <2>0, <2>2
    <3> HIDE DEF f
    <3>3. /\ DOMAIN stack' = DOMAIN stack \cup {n + 1} /\ n \in Nat /\ DOMAIN stack = 1..n
          /\ stack'[n + 1] = f /\ \A i \in DOMAIN stack : stack'[i] = stack[i]
      BY <1>0, <3>1, <3>2, Pushed
    <3>4. ASSUME NEW i \in DOMAIN stack', NEW j \in DOMAIN stack', i < j
          PROVE  (Dependencies(stack[i].unit) \subseteq stack[j].loop)'
      <4>1. i \in DOMAIN stack
        BY <3>3, <3>4
      <4>2. CASE j \in DOMAIN stack
        BY <2>1, <3>3, <3>4, <4>1, <4>2 DEF PathOK, Dependencies
      <4>3. CASE j = n + 1
        BY <2>1, <3>1, <3>3, <4>1, <4>3 DEF PathOK, Dependencies
      <4> QED BY <3>3, <4>2, <4>3
    <3>5. ASSUME NEW j \in DOMAIN stack' \ {1}
          PROVE  (stack[j].unit \in Dependencies(stack[j - 1].unit) \ stack[j - 1].loop)'
      <4>1. CASE j \in DOMAIN stack
        <5>1. j - 1 \in DOMAIN stack
          BY <3>3, <3>5, <4>1
        <5> QED BY <2>1, <3>3, <3>5, <4>1, <5>1 DEF PathOK, Dependencies
      <4>2. CASE j = n + 1
        <5>1. stack # <<>> /\ j - 1 = n /\ n \in DOMAIN stack
          BY <3>3, <3>5, <4>2
        <5>2. c.unit \in Dependencies(stack[n].unit) \ stack[n].loop
          BY <5>1 DEF PathOK, Top
        <5>3. stack'[j].unit = c.unit /\ stack'[j - 1] = stack[n]
          BY <3>1, <3>3, <4>2, <5>1
        <5> QED BY <2>1, <5>2, <5>3 DEF Dependencies
      <4> QED BY <3>3, <4>1, <4>2
    <3> QED BY <2>1, <3>4, <3>5 DEF PathOK
  <2>3. CASE ~ (c.unit \in loaded /\ ~ StopsAt(c.mark))
    <3>1. stack' = stack
      BY <2>0, <2>3
    <3> QED BY <2>1, <3>1 DEF PathOK, Dependencies
  <2> QED BY <2>2, <2>3
<1>2. ASSUME Follow PROVE PathOK'
  <2>0. PICK d \in Top.todo : Follow!2!(d)
    BY <1>2 DEF Follow
  <2> DEFINE n == Len(stack)
             f == Without(Top, d)
  <2>1. /\ Top \in Frame /\ n \in DOMAIN stack /\ Top = stack[n] /\ stack # <<>>
        /\ n \in Nat /\ DOMAIN stack = 1..n
    BY <1>0, <1>2, TopIsFrame DEF Follow
  <2>2. d \in Dependencies(Top.unit)
    BY <1>0, <2>1 DEF TodoOK
  <2>3. declared' = declared
    BY <1>2 DEF Follow, input
  <2>4. f \in Frame /\ f.unit = Top.unit /\ f.loop = Top.loop
    BY <2>1, WithoutFields
  <2>5. stack' = [stack EXCEPT ![n] = f]
    BY <2>0
  <2> HIDE DEF f
  <2>6. /\ DOMAIN stack' = DOMAIN stack /\ Len(stack') = n /\ stack' \in Seq(Frame) /\ stack' # <<>>
        /\ \A i \in DOMAIN stack : stack'[i].unit = stack[i].unit /\ stack'[i].loop = stack[i].loop
    <3>1. /\ DOMAIN stack' = DOMAIN stack /\ Len(stack') = n /\ stack' \in Seq(Frame)
          /\ \A i \in DOMAIN stack : stack'[i] = IF i = n THEN f ELSE stack[i]
      BY <1>0, <2>1, <2>4, <2>5, Shortened
    <3> QED BY <2>1, <2>4, <3>1
  <2>7. Top'.unit = Top.unit /\ Top'.loop = Top.loop
    BY <2>1, <2>6 DEF Top
  <2>8. \A c \in call' : /\ c.unit = d /\ d \notin Top.loop
                         /\ c.loop = Top.loop \cup Dependencies(Top.unit)
    BY <2>0 DEF LoopBelow
  <2>9. ASSUME NEW c \in call', NEW i \in DOMAIN stack
        PROVE  Dependencies(stack[i].unit) \subseteq c.loop
    <3>1. CASE i = n
      BY <2>1, <2>8, <2>9, <3>1
    <3>2. CASE i < n
      <4>1. Dependencies(stack[i].unit) \subseteq stack[n].loop
        BY <2>1, <3>2 DEF PathOK
      <4> QED BY <2>1, <2>8, <4>1
    <3> QED BY <2>1, <3>1, <3>2
  <2>10. \A j \in DOMAIN stack \ {1} : j - 1 \in DOMAIN stack
    BY <2>1
  <2>11. \A u : Dependencies(u)' = Dependencies(u)
    BY <2>3 DEF Dependencies
  <2> QED BY <2>2, <2>6, <2>7, <2>8, <2>9, <2>10, <2>11 DEF PathOK
<1>3. ASSUME Return PROVE PathOK'
  <2>1. /\ DOMAIN stack' = DOMAIN stack \ {Len(stack)} /\ call' = {} /\ declared' = declared
        /\ \A i \in DOMAIN stack' : stack'[i] = stack[i]
    BY <1>0, <1>3, Popped DEF Return, input
  <2>2. \A j \in DOMAIN stack' \ {1} : j - 1 \in DOMAIN stack' /\ j \in DOMAIN stack
    BY <1>0, <2>1
  <2>3. \A u : Dependencies(u)' = Dependencies(u)
    BY <2>1 DEF Dependencies
  <2> QED BY <2>1, <2>2, <2>3 DEF PathOK
<1>4. ASSUME UNCHANGED vars PROVE PathOK'
  BY <1>4 DEF vars, PathOK, Dependencies, Top
<1> QED BY <1>1, <1>2, <1>3, <1>4 DEF Next

LEMMA PathGoesOn == Typed /\ PathOK => NoUnitBelowItself
<1> SUFFICES ASSUME Typed, PathOK, NEW i \in DOMAIN stack, NEW j \in DOMAIN stack,
                    i < j, stack[i].unit = stack[j].unit, i # 1
             PROVE  FALSE
  BY DEF NoUnitBelowItself
<1>1. stack \in Seq(Frame)
  BY DEF Typed, TypeOK
<1>2. i - 1 \in DOMAIN stack /\ j - 1 \in DOMAIN stack /\ i - 1 < j - 1 /\ j # 1
  BY <1>1
<1>3. stack[i].unit \in Dependencies(stack[i - 1].unit)
  BY DEF PathOK
<1>4. stack[j].unit \notin stack[j - 1].loop
  BY <1>2 DEF PathOK
<1>5. Dependencies(stack[i - 1].unit) \subseteq stack[j - 1].loop
  BY <1>2 DEF PathOK
<1> QED BY <1>3, <1>4, <1>5

\* However many units need each other, the walk has each of them at most once on
\* the way down, and the root at most twice: it is never deeper than one more than
\* the number of units.
THEOREM WalkStaysShallow == InputOK /\ Spec => []NoUnitBelowItself
BY TypedInit, TypedStep, PathInit, PathStep, PathGoesOn, PTL DEF Spec

-----------------------------------------------------------------------------

\* A call for d is under way, or there is one that will make it.
Pending(d) == \/ \E k \in DOMAIN stack : d \in stack[k].todo /\ d \notin stack[k].loop
              \/ \E c \in call : c.unit = d

Accounted(d) == d \in loaded => d \in listed \/ Pending(d)

Named(d) == \E u \in expanded : d \in Dependencies(u)

Stopped(d) == \E u \in expanded : d \in Dependencies(u) /\ StopsAt(DependencyStyle(u, d))

\* Nothing is forgotten: what a call leaves to its callers is named by one of them.
NothingLost ==
    /\ \A d \in Units : Named(d) => Accounted(d)
    /\ \A k \in DOMAIN stack : /\ stack[k].unit \in expanded
                               /\ \A d \in stack[k].loop : Named(d)
    /\ \A c \in call : \A d \in c.loop : Named(d)
    /\ expanded \subseteq listed
    /\ Root \in loaded => Root \in expanded \/ \E c \in call : c.unit = Root /\ c.mark = ""

\* Nothing is made up: each call and each line has a reason.
NothingAdded ==
    /\ expanded \subseteq Reachable \cap loaded
    /\ \A c \in call : \/ c.unit = Root /\ c.mark = ""
                      \/ \E u \in expanded : /\ c.unit \in Dependencies(u)
                                            /\ c.mark = DependencyStyle(u, c.unit)
    /\ \A d \in listed : /\ d \in loaded
                         /\ d \in expanded \/ Stopped(d)
                         /\ d = Root \/ Named(d)

LEMMA RootIsReachable == InputOK => Root \in Reachable
BY DEF InputOK, Reachable

LEMMA WalkReaches ==
    ASSUME NEW u \in Reachable \cap loaded, NEW d \in Units, Walks(u, d)
    PROVE  d \in Reachable
BY DEF Reachable, Closed

LEMMA InputStays ==
    ASSUME UNCHANGED input
    PROVE  /\ \A u : Dependencies(u)' = Dependencies(u)
           /\ \A u, d : DependencyStyle(u, d)' = DependencyStyle(u, d)
           /\ Reachable' = Reachable /\ loaded' = loaded
<1>1. declared' = declared /\ loaded' = loaded
  BY DEF input
<1>2. \A u, d : DependencyStyle(u, d)' = DependencyStyle(u, d)
  BY <1>1 DEF DependencyStyle
<1>3. \A u : Dependencies(u)' = Dependencies(u)
  BY <1>1 DEF Dependencies
<1>4. \A u, d : Walks(u, d)' = Walks(u, d)
  BY <1>2, <1>3 DEF Walks, StopsAt
<1>5. Reachable' = Reachable
  BY <1>1, <1>4 DEF Reachable, Closed
<1> QED BY <1>1, <1>2, <1>3, <1>5

LEMMA ListInit == InputOK /\ Init => NothingLost /\ NothingAdded
<1> SUFFICES ASSUME InputOK, Init PROVE NothingLost /\ NothingAdded
  OBVIOUS
<1>1. stack = <<>> /\ listed = {} /\ expanded = {}
  BY DEF Init
<1>2. DOMAIN stack = {}
  <2>1. stack = <<>>
    BY <1>1
  <2> QED BY <2>1
<1>3. /\ \A c \in call : c.unit = Root /\ c.mark = "" /\ c.loop = {}
      /\ \E c \in call : c.unit = Root /\ c.mark = ""
  <2> DEFINE c0 == [unit |-> Root, mark |-> "", loop |-> {}]
  <2>1. call = {c0} /\ c0.unit = Root /\ c0.mark = "" /\ c0.loop = {}
    BY DEF Init
  <2> HIDE DEF c0
  <2> QED BY <2>1
<1> QED BY <1>1, <1>2, <1>3 DEF NothingLost, NothingAdded, Named

\* More units walked name more.
LEMMA NamedStays ==
    ASSUME UNCHANGED input, expanded \subseteq expanded', NEW d
    PROVE  /\ Named(d) => Named(d)'
           /\ Stopped(d) => Stopped(d)'
BY InputStays DEF Named, Stopped, StopsAt

LEMMA ListStep ==
    Typed /\ NothingLost /\ NothingAdded /\ [Next]_vars => NothingLost' /\ NothingAdded'
<1> SUFFICES ASSUME Typed, NothingLost, NothingAdded, [Next]_vars
             PROVE  NothingLost' /\ NothingAdded'
  OBVIOUS
<1>0. InputOK /\ TypeOK /\ TodoOK /\ stack \in Seq(Frame) /\ call \subseteq Call
  BY DEF Typed, TypeOK
<1>1. ASSUME Enter PROVE NothingLost' /\ NothingAdded'
  <2>0. PICK c \in call : Enter!(c)
    BY <1>1 DEF Enter
  <2>1. /\ c \in Call /\ c.unit \in Units /\ call' = {} /\ UNCHANGED input
        /\ \A x \in call : x = c
    BY <1>0, <2>0 DEF TypeOK, Call
  <2>2. /\ \A u : Dependencies(u)' = Dependencies(u)
        /\ \A u, d : DependencyStyle(u, d)' = DependencyStyle(u, d)
        /\ Reachable' = Reachable /\ loaded' = loaded
    BY <2>1, InputStays
  <2>3. CASE c.unit \in loaded /\ ~ StopsAt(c.mark)
    <3> DEFINE f == [unit |-> c.unit, loop |-> c.loop, todo |-> Dependencies(c.unit)]
               n == Len(stack)
    <3>1. /\ f \in Frame /\ f.unit = c.unit /\ f.loop = c.loop
          /\ f.todo = Dependencies(c.unit)
      BY <2>1, DependenciesType DEF Call, Frame
    <3>2. /\ stack' = Append(stack, f) /\ expanded' = expanded \cup {c.unit}
          /\ listed' = listed \cup {c.unit}
      BY <2>0, <2>3
    <3> HIDE DEF f
    <3>3. /\ DOMAIN stack' = DOMAIN stack \cup {n + 1}
          /\ stack'[n + 1] = f /\ \A i \in DOMAIN stack : stack'[i] = stack[i]
      BY <1>0, <3>1, <3>2, Pushed
    <3>4. \A d : (Named(d) => Named(d)') /\ (Stopped(d) => Stopped(d)')
      BY <2>1, <3>2, NamedStays
    <3>5. ASSUME NEW d, Accounted(d) PROVE Accounted(d)'
      BY <2>1, <2>2, <3>2, <3>3, <3>5 DEF Accounted, Pending
    <3>6. ASSUME NEW d \in Units, Named(d)' PROVE Accounted(d)'
      <4>1. CASE Named(d)
        BY <3>5, <4>1 DEF NothingLost
      <4>2. CASE d \in Dependencies(c.unit) /\ d \in c.loop
        <5>1. Named(d)
          BY <4>2 DEF NothingLost
        <5> QED BY <4>1, <5>1
      <4>3. CASE d \in Dependencies(c.unit) /\ d \notin c.loop
        <5>1. n + 1 \in DOMAIN stack'
          BY <3>3
        <5>2. Pending(d)'
          BY <3>1, <3>3, <4>3, <5>1 DEF Pending
        <5> QED BY <5>2 DEF Accounted
      <4> QED BY <2>2, <3>2, <3>6, <4>1, <4>2, <4>3 DEF Named
    <3>7. ASSUME NEW k \in DOMAIN stack'
          PROVE  stack'[k].unit \in expanded' /\ \A d \in stack'[k].loop : Named(d)'
      BY <3>1, <3>2, <3>3, <3>4, <3>7 DEF NothingLost
    <3>8. Root \in loaded => Root \in expanded'
      BY <2>1, <3>2 DEF NothingLost
    <3>9. c.unit \in Reachable
      <4>1. CASE c.unit = Root
        BY <1>0, <4>1, RootIsReachable
      <4>2. CASE \E u \in expanded : c.unit \in Dependencies(u)
                                    /\ c.mark = DependencyStyle(u, c.unit)
        BY <2>1, <2>3, <4>2, WalkReaches DEF NothingAdded, Walks
      <4> QED BY <4>1, <4>2 DEF NothingAdded
    <3>10. c.unit = Root \/ Named(c.unit)
      BY DEF NothingAdded, Named
    <3>11. NothingLost'
      BY <2>1, <2>2, <3>2, <3>6, <3>7, <3>8 DEF NothingLost
    <3>12. NothingAdded'
      BY <2>1, <2>2, <2>3, <3>2, <3>4, <3>9, <3>10 DEF NothingAdded
    <3> QED BY <3>11, <3>12
  <2>4. CASE c.unit \in loaded /\ StopsAt(c.mark)
    <3>1. stack' = stack /\ expanded' = expanded /\ listed' = listed \cup {c.unit}
      BY <2>0, <2>4
    <3>2. \A d : (Named(d) <=> Named(d)') /\ (Stopped(d) => Stopped(d)')
      BY <2>1, <2>2, <3>1, NamedStays DEF Named
    <3>3. ASSUME NEW d, Accounted(d) PROVE Accounted(d)'
      BY <2>1, <2>2, <3>1, <3>3 DEF Accounted, Pending
    <3>4. c.mark # ""
      BY <2>4 DEF StopsAt
    <3>5. Stopped(c.unit) /\ Named(c.unit)
      BY <2>4, <3>4 DEF NothingAdded, Stopped, Named
    <3>6. NothingLost'
      BY <2>1, <2>2, <3>1, <3>2, <3>3, <3>4 DEF NothingLost
    <3>7. NothingAdded'
      BY <2>1, <2>2, <2>4, <3>1, <3>2, <3>5 DEF NothingAdded
    <3> QED BY <3>6, <3>7
  <2>5. CASE c.unit \notin loaded
    <3>1. stack' = stack /\ expanded' = expanded /\ listed' = listed
      BY <2>0, <2>5
    <3>2. \A d : (Named(d) <=> Named(d)') /\ (Stopped(d) => Stopped(d)')
      BY <2>1, <2>2, <3>1, NamedStays DEF Named
    <3>3. ASSUME NEW d, Accounted(d) PROVE Accounted(d)'
      BY <2>1, <2>2, <2>5, <3>1, <3>3 DEF Accounted, Pending
    <3>4. NothingLost'
      BY <2>1, <2>2, <2>5, <3>1, <3>2, <3>3 DEF NothingLost
    <3>5. NothingAdded'
      BY <2>1, <2>2, <3>1, <3>2 DEF NothingAdded
    <3> QED BY <3>4, <3>5
  <2> QED BY <2>3, <2>4, <2>5
<1>2. ASSUME Follow PROVE NothingLost' /\ NothingAdded'
  <2>0. PICK d \in Top.todo : Follow!2!(d)
    BY <1>2 DEF Follow
  <2> DEFINE n == Len(stack)
             f == Without(Top, d)
  <2>1. Top \in Frame /\ n \in DOMAIN stack /\ Top = stack[n] /\ stack # <<>> /\ call = {}
    BY <1>0, <1>2, TopIsFrame DEF Follow
  <2>2. d \in Dependencies(Top.unit) /\ Top.unit \in expanded
    BY <1>0, <2>1 DEF TodoOK, NothingLost
  <2>3. UNCHANGED input /\ expanded' = expanded /\ listed' = listed
    BY <1>2 DEF Follow, input
  <2>4. /\ \A u : Dependencies(u)' = Dependencies(u)
        /\ \A u, x : DependencyStyle(u, x)' = DependencyStyle(u, x)
        /\ Reachable' = Reachable /\ loaded' = loaded
    BY <2>3, InputStays
  <2>5. \A x : (Named(x) <=> Named(x)') /\ (Stopped(x) => Stopped(x)')
    BY <2>3, <2>4, NamedStays DEF Named
  <2>6. f \in Frame /\ f.unit = Top.unit /\ f.loop = Top.loop /\ f.todo = Top.todo \ {d}
    BY <2>1, WithoutFields
  <2>7. stack' = [stack EXCEPT ![n] = f]
    BY <2>0
  <2> HIDE DEF f
  <2>8. /\ DOMAIN stack' = DOMAIN stack
        /\ \A i \in DOMAIN stack : stack'[i] = IF i = n THEN f ELSE stack[i]
    BY <1>0, <2>1, <2>6, <2>7, Shortened
  <2>9. \A c \in call' : /\ c.unit = d /\ c.mark = DependencyStyle(Top.unit, d)
                         /\ c.loop = Top.loop \cup Dependencies(Top.unit)
    BY <2>0 DEF LoopBelow
  <2>10. d \notin Top.loop => \E c \in call' : c.unit = d
    BY <2>0
  <2>11. ASSUME NEW x, Accounted(x) PROVE Accounted(x)'
    <3>1. CASE x \in loaded => x \in listed
      BY <2>3, <2>4, <3>1 DEF Accounted
    <3>2. CASE Pending(x)
      <4>1. PICK k \in DOMAIN stack : x \in stack[k].todo /\ x \notin stack[k].loop
        BY <2>1, <3>2 DEF Pending
      <4>2. CASE k = n /\ x = d
        BY <2>1, <2>10, <4>1, <4>2 DEF Accounted, Pending
      <4>3. CASE ~ (k = n /\ x = d)
        <5>1. x \in stack'[k].todo /\ x \notin stack'[k].loop /\ k \in DOMAIN stack'
          BY <2>1, <2>6, <2>8, <4>1, <4>3
        <5> QED BY <5>1 DEF Accounted, Pending
      <4> QED BY <4>2, <4>3
    <3> QED BY <2>11, <3>1, <3>2 DEF Accounted
  <2>12. ASSUME NEW k \in DOMAIN stack
         PROVE  stack'[k].unit \in expanded /\ \A x \in stack'[k].loop : Named(x)
    <3>1. stack'[k].unit = stack[k].unit /\ stack'[k].loop = stack[k].loop
      BY <2>1, <2>6, <2>8
    <3> QED BY <3>1 DEF NothingLost
  <2>13. \A c \in call' : \A x \in c.loop : Named(x)
    BY <2>1, <2>2, <2>9 DEF NothingLost, Named
  <2>14. NothingLost'
    BY <2>1, <2>3, <2>4, <2>5, <2>8, <2>11, <2>12, <2>13 DEF NothingLost
  <2>15. NothingAdded'
    BY <2>2, <2>3, <2>4, <2>5, <2>9 DEF NothingAdded
  <2> QED BY <2>14, <2>15
<1>3. ASSUME Return PROVE NothingLost' /\ NothingAdded'
  <2>1. /\ DOMAIN stack' = DOMAIN stack \ {Len(stack)} /\ call = {} /\ call' = {}
        /\ \A i \in DOMAIN stack' : stack'[i] = stack[i]
        /\ UNCHANGED input /\ expanded' = expanded /\ listed' = listed
        /\ stack[Len(stack)].todo = {}
    BY <1>0, <1>3, Popped DEF Return, input, Top
  <2>2. /\ \A u : Dependencies(u)' = Dependencies(u)
        /\ \A u, x : DependencyStyle(u, x)' = DependencyStyle(u, x)
        /\ Reachable' = Reachable /\ loaded' = loaded
    BY <2>1, InputStays
  <2>3. \A x : (Named(x) <=> Named(x)') /\ (Stopped(x) => Stopped(x)')
    BY <2>1, <2>2, NamedStays DEF Named
  <2>4. ASSUME NEW x, Accounted(x) PROVE Accounted(x)'
    BY <2>1, <2>2, <2>4 DEF Accounted, Pending
  <2>5. NothingLost'
    BY <2>1, <2>2, <2>3, <2>4 DEF NothingLost
  <2>6. NothingAdded'
    BY <2>1, <2>2, <2>3 DEF NothingAdded
  <2> QED BY <2>5, <2>6
<1>4. ASSUME UNCHANGED vars PROVE NothingLost' /\ NothingAdded'
  <2>1. UNCHANGED input /\ UNCHANGED <<call, stack, listed, expanded>>
    BY <1>4 DEF vars, input
  <2>2. /\ \A u : Dependencies(u)' = Dependencies(u)
        /\ \A u, x : DependencyStyle(u, x)' = DependencyStyle(u, x)
        /\ Reachable' = Reachable /\ loaded' = loaded
    BY <2>1, InputStays
  <2>3. \A x : (Named(x) <=> Named(x)') /\ (Stopped(x) => Stopped(x)') /\ (Accounted(x) => Accounted(x)')
    BY <2>1, <2>2, NamedStays DEF Named, Accounted, Pending
  <2> QED BY <2>1, <2>2, <2>3 DEF NothingLost, NothingAdded
<1> QED BY <1>1, <1>2, <1>3, <1>4 DEF Next

LEMMA DoneIsComplete == Typed /\ NothingLost /\ NothingAdded => ListingIsComplete
<1> SUFFICES ASSUME Typed, NothingLost, NothingAdded PROVE ListingIsComplete
  OBVIOUS
<1>0. InputOK /\ TypeOK
  BY DEF Typed
<1>1. expanded \subseteq Reachable \cap loaded
  BY DEF NothingAdded
<1>2. \A d \in listed : d = Root \/ \E u \in expanded : d \in Dependencies(u)
  BY DEF NothingAdded, Named
<1>3. ASSUME Done
      PROVE  /\ Root \in loaded => Root \in expanded
             /\ \A u \in expanded : Dependencies(u) \cap loaded \subseteq listed
  <2>1. DOMAIN stack = {} /\ call = {}
    BY <1>3 DEF Done
  <2>2. \A d \in Units : Named(d) /\ d \in loaded => d \in listed
    BY <2>1 DEF NothingLost, Accounted, Pending
  <2> QED BY <2>1, <2>2, DependenciesType DEF NothingLost, Named
<1>4. ASSUME Done, \A u, d \in Units : d \in Dependencies(u) => Walks(u, d)
      PROVE  listed = Reachable \cap loaded
  <2>0. expanded \subseteq Units /\ listed \subseteq Units /\ \A u : Dependencies(u) \subseteq Units
    BY <1>0, DependenciesType DEF TypeOK
  <2>1. \A d : ~ Stopped(d)
    BY <1>4, <2>0 DEF Stopped, Walks
  <2>2. listed \subseteq expanded
    BY <2>1 DEF NothingAdded
  <2>3. Reachable \cap loaded \subseteq listed
    <3>1. ASSUME NEW u \in Reachable \cap loaded PROVE u \in listed
      <4> DEFINE S == expanded \cup (Units \ loaded) \cup {Root}
      <4>1. S \in SUBSET Units /\ Root \in S
        BY <1>0, <2>0 DEF InputOK
      <4>2. Closed(S)
        <5>1. ASSUME NEW x \in S \cap loaded, NEW d \in Units, Walks(x, d) PROVE d \in S
          <6>1. x \in expanded
            BY <1>3, <1>4, <5>1
          <6> QED BY <2>2, <1>3, <1>4, <5>1, <6>1 DEF Walks
        <5> QED BY <5>1 DEF Closed
      <4>3. u \in S /\ u \in loaded
        BY <3>1, <4>1, <4>2 DEF Reachable
      <4>4. u \in expanded
        BY <1>3, <1>4, <4>3
      <4> QED BY <4>4 DEF NothingLost
    <3> QED BY <3>1
  <2>4. listed \subseteq Reachable \cap loaded
    BY <1>1, <2>2
  <2> QED BY <2>3, <2>4
<1> QED BY <1>1, <1>2, <1>3, <1>4 DEF ListingIsComplete

\* The finished listing has a line for every loaded unit that is needed, directly or
\* not, and for no other: what a call skips because a caller has it among its
\* dependencies, the caller lists.
THEOREM ListingMissesNothing == InputOK /\ Spec => []ListingIsComplete
BY TypedInit, TypedStep, ListInit, ListStep, DoneIsComplete, PTL DEF Spec

-----------------------------------------------------------------------------
(* The reading of files.  What is defined by recursion is had from         *)
(* induction over a set of numbers.                                        *)

LEMMA Smallest ==
    ASSUME NEW S \in SUBSET Nat, S # {}
    PROVE  \E m \in S : \A l \in S : m <= l
<1>1. PICK m \in S : \A l \in S : ~ (<<l, m>> \in OpToRel(<, Nat))
  BY WFMin, NatLessThanWellFounded
<1>2. OpToRel(<, Nat) = {ss \in Nat \X Nat : ss[1] < ss[2]}
  BY Zenon DEF OpToRel
<1>3. \A l \in S : ~ (l < m)
  BY <1>1, <1>2
<1>4. \A l \in S : l \in Nat /\ m \in Nat
  OBVIOUS
<1> QED BY <1>3, <1>4

LEMMA AllNumbers ==
    ASSUME NEW S, 0 \in S, \A n \in Nat : n \in S => n + 1 \in S
    PROVE  Nat \subseteq S
<1> DEFINE rest == Nat \ S
<1> SUFFICES ASSUME rest # {} PROVE FALSE
  OBVIOUS
<1>1. PICK m \in rest : \A l \in rest : m <= l
  BY Smallest
<1>2. m \in Nat /\ m \notin S /\ m # 0
  BY <1>1
<1>3. m - 1 \in Nat /\ ~ (m <= m - 1)
  BY <1>2
<1>4. m - 1 \in S
  BY <1>1, <1>3
<1>5. (m - 1) + 1 = m
  BY <1>2
<1> QED BY <1>2, <1>3, <1>4, <1>5

\* What holds of the empty sequence, and of one with an element more, holds of all.
LEMMA AllSequences ==
    ASSUME NEW A, NEW S, <<>> \in S, \A s \in Seq(A), x \in A : s \in S => Append(s, x) \in S
    PROVE  Seq(A) \subseteq S
<1> DEFINE Lengths == {n \in Nat : \A s \in Seq(A) : Len(s) = n => s \in S}
<1>1. 0 \in Lengths
  <2>1. \A s \in Seq(A) : Len(s) = 0 => s = <<>>
    BY EmptySeq
  <2> QED BY <2>1
<1>2. ASSUME NEW n \in Nat, n \in Lengths PROVE n + 1 \in Lengths
  <2> SUFFICES ASSUME NEW s \in Seq(A), Len(s) = n + 1 PROVE s \in S
    OBVIOUS
  <2>1. s # <<>>
    BY EmptySeq
  <2>2. PICK t \in Seq(A), x \in A : s = Append(t, x)
    BY <2>1, SequenceEmptyOrAppend
  <2>3. Len(t) \in Nat /\ Len(s) = Len(t) + 1
    BY <2>2, AppendProperties, LenProperties
  <2>4. Len(t) = n
    BY <2>3
  <2>5. t \in S
    BY <1>2, <2>4
  <2> QED BY <2>2, <2>5
<1>3. Nat \subseteq Lengths
  <2> HIDE DEF Lengths
  <2> QED BY <1>1, <1>2, AllNumbers
<1>4. \A s \in Seq(A) : Len(s) \in Nat
  BY LenProperties
<1> QED BY <1>3, <1>4

-----------------------------------------------------------------------------
(* Effects.                                                                *)

LEMMA EffectFields ==
    ASSUME NEW e \in Effect
    PROVE  e.keeps \in BOOLEAN /\ e.adds \in Seq(Value) /\ e.ok \in BOOLEAN
           /\ e = [keeps |-> e.keeps, adds |-> e.adds, ok |-> e.ok]
BY DEF Effect

LEMMA NothingType == Nothing \in Effect /\ Failure \in Effect /\ Taking \in Effect
<1>1. <<>> \in Seq(Value)
  OBVIOUS
<1> QED BY <1>1 DEF Effect, Nothing, Failure, Taking

LEMMA AddingType == ASSUME NEW v \in Value PROVE Adding(v) \in Effect
<1>1. <<v>> \in Seq(Value)
  OBVIOUS
<1> QED BY <1>1 DEF Effect, Adding

LEMMA ConcatAgain ==
    ASSUME NEW s \in Seq(Value), NEW t \in Seq(Value), NEW u \in Seq(Value)
    PROVE  (s \o t) \o u = s \o (t \o u)
BY ConcatAssociative

LEMMA ThenType ==
    ASSUME NEW e \in Effect, NEW f \in Effect PROVE Then(e, f) \in Effect
<1>1. e.adds \o f.adds \in Seq(Value)
  BY EffectFields, ConcatProperties
<1> QED BY <1>1, EffectFields DEF Then, Effect

LEMMA ThenFields ==
    ASSUME NEW e \in Effect, NEW f \in Effect, e.ok
    PROVE  /\ Then(e, f).keeps = (e.keeps /\ f.keeps)
           /\ Then(e, f).adds = (IF f.keeps THEN e.adds \o f.adds ELSE f.adds)
           /\ Then(e, f).ok = f.ok
BY DEF Then

LEMMA ThenNothing ==
    ASSUME NEW e \in Effect PROVE Then(e, Nothing) = e /\ Then(Nothing, e) = e /\ Then(Failure, e) = Failure
<1>1. e.adds \o <<>> = e.adds /\ <<>> \o e.adds = e.adds
  BY EffectFields, ConcatEmptySeq
<1>2. CASE e.ok
  BY <1>1, <1>2, EffectFields DEF Then, Nothing, Failure
<1>3. CASE ~ e.ok
  BY <1>1, <1>3, EffectFields DEF Then, Nothing, Failure
<1> QED BY <1>2, <1>3

LEMMA ThenThen ==
    ASSUME NEW e \in Effect, NEW f \in Effect, NEW g \in Effect
    PROVE  Then(Then(e, f), g) = Then(e, Then(f, g))
<1>1. (e.adds \o f.adds) \o g.adds = e.adds \o (f.adds \o g.adds)
  <2>1. e.adds \in Seq(Value) /\ f.adds \in Seq(Value) /\ g.adds \in Seq(Value)
    BY EffectFields
  <2> QED BY <2>1, ConcatAgain
<1>2. CASE ~ e.ok
  BY <1>2 DEF Then
<1>3. CASE e.ok /\ ~ f.ok
  BY <1>3 DEF Then
<1>4. CASE e.ok /\ f.ok
  BY <1>1, <1>4, EffectFields DEF Then
<1> QED BY <1>2, <1>3, <1>4, EffectFields

\* What an effect makes of values.
Applied(v, e) == IF e.keeps THEN v \o e.adds ELSE e.adds

LEMMA ThenApplied ==
    ASSUME NEW v \in Seq(Value), NEW e \in Effect, NEW f \in Effect, e.ok
    PROVE  Applied(v, Then(e, f)) = Applied(Applied(v, e), f) /\ Applied(v, e) \in Seq(Value)
<1>1. (v \o e.adds) \o f.adds = v \o (e.adds \o f.adds) /\ v \o e.adds \in Seq(Value)
  <2>1. e.adds \in Seq(Value) /\ f.adds \in Seq(Value)
    BY EffectFields
  <2> QED BY <2>1, ConcatAgain, ConcatProperties
<1> QED BY <1>1, EffectFields, ThenFields DEF Applied

LEMMA EndedThen ==
    ASSUME NEW e \in Effect, NEW f \in Effect
    PROVE  /\ Ended(f) \in Effect
           /\ e.ok => Ended(Then(e, f)) = Then(e, Ended(f))
           /\ Ended(Failure) = Nothing /\ Ended(Nothing) = Nothing
<1>1. Ended(f) \in Effect
  BY EffectFields DEF Effect, Ended
<1>2. ASSUME e.ok PROVE Ended(Then(e, f)) = Then(e, Ended(f))
  BY <1>2 DEF Then, Ended
<1>3. Ended(Failure) = Nothing /\ Ended(Nothing) = Nothing
  BY DEF Ended, Failure, Nothing
<1> QED BY <1>1, <1>2, <1>3

LEMMA InTurnIs ==
    ASSUME NEW effects \in Seq(Effect)
    PROVE  /\ InTurn(effects) \in [1..(Len(effects) + 1) -> Effect]
           /\ InTurn(effects)[Len(effects) + 1] = Nothing
           /\ \A i \in 1..Len(effects) : InTurn(effects)[i] = Then(effects[i], InTurn(effects)[i + 1])
<1> DEFINE n == Len(effects)
           value(f, i) == IF i > n THEN Nothing ELSE Then(effects[i], f[i + 1])
           Fits(f, l) == f \in [l..(n + 1) -> Effect] /\ \A i \in l..(n + 1) : f[i] = value(f, i)
           Far == {m \in Nat : m <= n => \E f : Fits(f, n + 1 - m)}
<1>1. n \in Nat /\ \A i \in 1..n : effects[i] \in Effect
  BY LenProperties, ElementOfSeq
<1>2. 0 \in Far
  <2> DEFINE f == [i \in (n + 1)..(n + 1) |-> Nothing]
  <2>1. f \in [(n + 1)..(n + 1) -> Effect]
    BY NothingType
  <2>2. \A i \in (n + 1)..(n + 1) : f[i] = value(f, i)
    BY <1>1
  <2>3. Fits(f, n + 1 - 0)
    BY <1>1, <2>1, <2>2
  <2> QED BY <2>3
<1>3. ASSUME NEW m \in Nat, m \in Far PROVE m + 1 \in Far
  <2> SUFFICES ASSUME m + 1 <= n PROVE \E g : Fits(g, n + 1 - (m + 1))
    OBVIOUS
  <2> DEFINE l == n - m
  <2>1. l \in 1..n /\ n + 1 - (m + 1) = l /\ n + 1 - m = l + 1 /\ m <= n
    BY <1>1
  <2>2. PICK f : Fits(f, l + 1)
    BY <1>3, <2>1
  <2> DEFINE g == [i \in l..(n + 1) |-> IF i = l THEN Then(effects[l], f[l + 1]) ELSE f[i]]
  <2>3. l + 1 \in (l + 1)..(n + 1) /\ \A i \in l..(n + 1) : i # l => i \in (l + 1)..(n + 1)
    BY <1>1, <2>1
  <2>4. f[l + 1] \in Effect /\ effects[l] \in Effect
    BY <1>1, <2>1, <2>2, <2>3
  <2>5. g \in [l..(n + 1) -> Effect]
    BY <2>2, <2>3, <2>4, ThenType
  <2>6. ASSUME NEW i \in l..(n + 1) PROVE g[i] = value(g, i)
    <3>1. CASE i = l
      <4>1. g[l + 1] = f[l + 1] /\ ~ (l > n) /\ l + 1 \in l..(n + 1)
        BY <1>1, <2>1
      <4> QED BY <3>1, <4>1
    <3>2. CASE i # l /\ i > n
      <4>1. f[i] = value(f, i)
        BY <2>2, <2>3, <3>2
      <4> QED BY <3>2, <4>1
    <3>3. CASE i # l /\ ~ (i > n)
      <4>1. f[i] = value(f, i) /\ i + 1 \in l..(n + 1) /\ i + 1 # l
        BY <1>1, <2>1, <2>2, <2>3, <3>3
      <4> QED BY <3>3, <4>1
    <3> QED BY <3>1, <3>2, <3>3
  <2>7. Fits(g, l)
    BY <2>5, <2>6
  <2> QED BY <2>1, <2>7
<1>4. n \in Far
  BY <1>1, <1>2, <1>3, AllNumbers
<1>5. PICK f : Fits(f, 1)
  <2>1. n + 1 - n = 1 /\ n <= n
    BY <1>1
  <2> QED BY <1>4, <2>1
<1>6. f = [i \in 1..(n + 1) |-> IF i > n THEN Nothing ELSE Then(effects[i], f[i + 1])]
  BY <1>5
<1> DEFINE g == InTurn(effects)
<1>7. g = [i \in 1..(n + 1) |-> IF i > n THEN Nothing ELSE Then(effects[i], g[i + 1])]
  BY <1>6, Zenon DEF InTurn
<1> HIDE DEF g
<1>8. g[n + 1] = Nothing /\ \A i \in 1..n : g[i] = Then(effects[i], g[i + 1])
  <2>1. n + 1 \in 1..(n + 1) /\ n + 1 > n
    BY <1>1
  <2>2. \A i \in 1..n : i \in 1..(n + 1) /\ ~ (i > n)
    BY <1>1
  <2> QED BY <1>7, <2>1, <2>2
<1> DEFINE Fine == {m \in Nat : m <= n => g[n + 1 - m] \in Effect}
<1>9. n \in Nat /\ Nat \subseteq Fine
  <2>1. 0 \in Fine
    <3>1. n + 1 - 0 = n + 1
      BY <1>1
    <3> QED BY <1>8, <3>1, NothingType
  <2>2. ASSUME NEW m \in Nat, m \in Fine PROVE m + 1 \in Fine
    <3> SUFFICES ASSUME m + 1 <= n PROVE g[n + 1 - (m + 1)] \in Effect
      OBVIOUS
    <3>1. n - m \in 1..n /\ n + 1 - (m + 1) = n - m /\ (n - m) + 1 = n + 1 - m /\ m <= n
      BY <1>1
    <3>2. g[n - m] = Then(effects[n - m], g[(n - m) + 1])
      BY <1>8, <3>1
    <3>3. g[n + 1 - m] \in Effect /\ effects[n - m] \in Effect
      BY <1>1, <2>2, <3>1
    <3> QED BY <3>1, <3>2, <3>3, ThenType
  <2> QED BY <1>1, <2>1, <2>2, AllNumbers
<1>10. ASSUME NEW i \in 1..(n + 1) PROVE g[i] \in Effect
  <2>1. n + 1 - i \in Nat /\ n + 1 - i <= n /\ n + 1 - (n + 1 - i) = i
    BY <1>1
  <2>2. n + 1 - i \in Fine
    BY <1>9, <2>1
  <2> QED BY <2>1, <2>2
<1>11. g \in [1..(n + 1) -> Effect]
  BY <1>7, <1>10
<1> QED BY <1>8, <1>11 DEF g

\* What is defined step by step upwards.
Steps(n, A, base, step) == n \in Nat /\ base \in A /\ step \in [1..n -> [A -> A]]
TakesSteps(f, n, A, base, step) ==
    f \in [0..n -> A] /\ f[0] = base /\ \A i \in 1..n : f[i] = step[i][f[i - 1]]

LEMMA StepByStep ==
    ASSUME NEW n, NEW A, NEW base, NEW step, Steps(n, A, base, step)
    PROVE  \E f : TakesSteps(f, n, A, base, step)
<1>0. n \in Nat /\ base \in A /\ step \in [1..n -> [A -> A]]
  BY DEF Steps
<1> DEFINE Fits(f, m) == f \in [0..m -> A] /\ f[0] = base /\ \A i \in 1..m : f[i] = step[i][f[i - 1]]
           Built == {m \in Nat : m <= n => \E f : Fits(f, m)}
<1>1. 0 \in Built
  <2>1. Fits([i \in 0..0 |-> base], 0)
    BY <1>0
  <2> QED BY <2>1
<1>2. ASSUME NEW m \in Nat, m \in Built PROVE m + 1 \in Built
  <2> SUFFICES ASSUME m + 1 <= n PROVE \E g : Fits(g, m + 1)
    OBVIOUS
  <2>1. PICK f : Fits(f, m)
    BY <1>0, <1>2
  <2> DEFINE g == [i \in 0..(m + 1) |-> IF i = m + 1 THEN step[m + 1][f[m]] ELSE f[i]]
  <2>2. m \in 0..m /\ m + 1 \in 1..n /\ \A i \in 0..(m + 1) : i # m + 1 => i \in 0..m
    BY <1>0
  <2>3. step[m + 1][f[m]] \in A
    BY <1>0, <2>1, <2>2
  <2>4. g \in [0..(m + 1) -> A]
    BY <2>1, <2>2, <2>3
  <2>5. g[0] = base
    BY <2>1
  <2>6. ASSUME NEW i \in 1..(m + 1) PROVE g[i] = step[i][g[i - 1]]
    <3>1. i - 1 \in 0..(m + 1) /\ i - 1 # m + 1 /\ g[i - 1] = f[i - 1]
      OBVIOUS
    <3>2. CASE i = m + 1
      <4>1. i - 1 = m
        BY <3>2
      <4> QED BY <3>1, <3>2, <4>1
    <3>3. CASE i # m + 1
      <4>1. i \in 1..m /\ g[i] = f[i]
        BY <3>3
      <4> QED BY <2>1, <3>1, <4>1
    <3> QED BY <3>2, <3>3
  <2> QED BY <2>4, <2>5, <2>6
<1>3. n \in Built
  BY <1>0, <1>1, <1>2, AllNumbers
<1>4. PICK f : Fits(f, n)
  BY <1>0, <1>3
<1> QED BY <1>4 DEF TakesSteps

LEMMA StepsStay ==
    ASSUME NEW n \in Nat, NEW A, NEW g, g[0] \in A,
           \A i \in 1..n : g[i - 1] \in A => g[i] \in A
    PROVE  \A i \in 0..n : g[i] \in A
<1> DEFINE Built == {m \in Nat : m <= n => g[m] \in A}
<1>1. 0 \in Built
  OBVIOUS
<1>2. ASSUME NEW m \in Nat, m \in Built PROVE m + 1 \in Built
  <2> SUFFICES ASSUME m + 1 <= n PROVE g[m + 1] \in A
    OBVIOUS
  <2>1. m + 1 \in 1..n /\ (m + 1) - 1 = m /\ g[m] \in A
    BY <1>2
  <2> QED BY <2>1
<1>3. Nat \subseteq Built
  BY <1>1, <1>2, AllNumbers
<1> QED BY <1>3

\* The function by which FlattenSeq puts sequences together.
Flattens(seqs, g) ==
    /\ g = [i \in 1..Len(seqs) |-> IF i = 1 THEN seqs[i] ELSE g[i - 1] \o seqs[i]]
    /\ FlattenSeq(seqs) = g[Len(seqs)]

LEMMA Flattening ==
    ASSUME NEW T, NEW seqs, DOMAIN seqs = 1..Len(seqs), Len(seqs) \in Nat \ {0},
           \A i \in 1..Len(seqs) : seqs[i] \in Seq(T)
    PROVE  \E g : Flattens(seqs, g)
<1> DEFINE n == Len(seqs)
           flatten(f) == [i \in 1..n |-> IF i = 1 THEN seqs[i] ELSE f[i - 1] \o seqs[i]]
           A == Seq(T)
           base == seqs[1]
           step == [i \in 1..(n - 1) |-> [v \in A |-> v \o seqs[i + 1]]]
<1>1. n - 1 \in Nat /\ n \in Nat /\ n # 0 /\ 1 \in 1..n /\ base \in A
  OBVIOUS
<1>2. ASSUME NEW i \in 1..(n - 1), NEW v \in A PROVE v \o seqs[i + 1] \in A
  <2>1. i + 1 \in 1..n
    BY <1>1
  <2> QED BY <2>1, ConcatProperties
<1>3. step \in [1..(n - 1) -> [A -> A]]
  <2> HIDE DEF A, n
  <2> QED BY <1>2
<1>4. Steps(n - 1, A, base, step)
  BY <1>1, <1>3 DEF Steps
<1>5. PICK f : TakesSteps(f, n - 1, A, base, step)
  BY <1>4, StepByStep
<1> DEFINE h == [i \in 1..n |-> f[i - 1]]
<1>6. ASSUME NEW i \in 1..n PROVE h[i] = IF i = 1 THEN seqs[i] ELSE h[i - 1] \o seqs[i]
  <2>1. CASE i = 1
    <3>1. f[0] = seqs[1] /\ h[1] = f[0]
      BY <1>1, <1>5 DEF TakesSteps
    <3> QED BY <2>1, <3>1
  <2>2. CASE i # 1
    <3>1. i - 1 \in 1..(n - 1) /\ i - 1 \in 1..n /\ (i - 1) + 1 = i /\ i - 2 \in 0..(n - 1) /\ (i - 1) - 1 = i - 2
      BY <1>1, <2>2
    <3>2. f[i - 1] = step[i - 1][f[i - 2]] /\ f[i - 2] \in A
      BY <1>5, <3>1 DEF TakesSteps
    <3>3. step[i - 1][f[i - 2]] = f[i - 2] \o seqs[i]
      <4> HIDE DEF A, n
      <4> QED BY <3>1, <3>2
    <3>4. h[i] = f[i - 1] /\ h[i - 1] = f[i - 2]
      BY <3>1
    <3> QED BY <2>2, <3>2, <3>3, <3>4
  <2> QED BY <2>1, <2>2
<1>7. \E g : g = flatten(g)
  <2>1. h = flatten(h)
    BY <1>6
  <2> QED BY <2>1
<1> DEFINE g == CHOOSE g : g = flatten(g)
<1>8. g = flatten(g)
  BY <1>7, Zenon
<1>9. FlattenSeq(seqs) = g[n]
  BY <1>1 DEF FlattenSeq
<1> HIDE DEF g
<1> QED BY <1>8, <1>9 DEF Flattens

LEMMA FlattenType ==
    ASSUME NEW T, NEW seqs, DOMAIN seqs = 1..Len(seqs), Len(seqs) \in Nat,
           \A i \in 1..Len(seqs) : seqs[i] \in Seq(T), Len(seqs) = 0 => seqs = <<>>
    PROVE  FlattenSeq(seqs) \in Seq(T)
<1> DEFINE n == Len(seqs)
           A == Seq(T)
<1>1. CASE n = 0
  <2>1. FlattenSeq(seqs) = <<>>
    BY <1>1 DEF FlattenSeq
  <2> QED BY <2>1
<1>2. CASE n # 0
  <2>1. n - 1 \in Nat /\ n \in Nat \ {0} /\ 1 \in 1..n /\ seqs[1] \in A
    BY <1>2
  <2>2. PICK g : Flattens(seqs, g)
    BY <2>1, Flattening
  <2>3. \A i \in 1..n : g[i] = IF i = 1 THEN seqs[i] ELSE g[i - 1] \o seqs[i]
    BY <2>2 DEF Flattens
  <2> DEFINE shifted == [i \in 0..(n - 1) |-> g[i + 1]]
  <2>4. shifted[0] \in A
    BY <2>1, <2>3
  <2>5. ASSUME NEW i \in 1..(n - 1), shifted[i - 1] \in A PROVE shifted[i] \in A
    <3>1. /\ i + 1 \in 1..n /\ i + 1 # 1 /\ (i + 1) - 1 = i
          /\ i - 1 \in 0..(n - 1) /\ i \in 0..(n - 1) /\ (i - 1) + 1 = i
      BY <2>1
    <3>2. g[i + 1] = g[i] \o seqs[i + 1] /\ shifted[i - 1] = g[i] /\ shifted[i] = g[i + 1]
      BY <2>3, <3>1
    <3>3. g[i] \in Seq(T) /\ seqs[i + 1] \in Seq(T)
      BY <2>5, <3>1, <3>2
    <3>4. g[i] \o seqs[i + 1] \in Seq(T)
      BY <3>3, ConcatProperties
    <3> HIDE DEF shifted
    <3> QED BY <3>2, <3>4
  <2>6. shifted[n - 1] \in A
    <3> HIDE DEF shifted, A
    <3>1. \A i \in 0..(n - 1) : shifted[i] \in A
      BY <2>1, <2>4, <2>5, StepsStay
    <3> QED BY <2>1, <3>1
  <2>7. shifted[n - 1] = g[n]
    <3>1. n - 1 \in 0..(n - 1) /\ (n - 1) + 1 = n
      BY <2>1
    <3> QED BY <3>1
  <2> QED BY <2>2, <2>6, <2>7 DEF Flattens
<1> QED BY <1>1, <1>2

-----------------------------------------------------------------------------
(* The lines of a file.                                                    *)

LEMMA LineFields ==
    ASSUME NEW line \in Lines
    PROVE  /\ line.joins \in BOOLEAN
           /\ line.kind \in {"blank", "comment", "header", "unclosed", "assign", "reset", "include", "bad"}
           /\ line.kind = "header" => line.section \in Sections
           /\ line.kind \in {"assign", "reset"} => line.option \in Options
           /\ line.kind = "include" => line.path \in Paths
<1>0. ASSUME line = Blank PROVE line.joins \in BOOLEAN /\ line.kind = "blank"
  BY <1>0 DEF Blank
<1>1. ASSUME line = Unclosed PROVE line.joins \in BOOLEAN /\ line.kind = "unclosed"
  BY <1>1 DEF Unclosed
<1>8. ASSUME line = Bad PROVE line.joins \in BOOLEAN /\ line.kind = "bad"
  BY <1>8 DEF Bad
<1>2. ASSUME NEW j \in BOOLEAN, line = Comment(j) PROVE line.joins \in BOOLEAN /\ line.kind = "comment"
  BY <1>2 DEF Comment
<1>3. ASSUME NEW s \in Sections, line = Header(s)
      PROVE  line.joins \in BOOLEAN /\ line.kind = "header" /\ line.section \in Sections
  BY <1>3 DEF Header
<1>4. ASSUME NEW o \in Options, NEW j \in BOOLEAN, line = Assign(o, j)
      PROVE  line.joins \in BOOLEAN /\ line.kind = "assign" /\ line.option \in Options
  BY <1>4 DEF Assign
<1>5. ASSUME NEW o \in Options, line = Reset(o)
      PROVE  line.joins \in BOOLEAN /\ line.kind = "reset" /\ line.option \in Options
  BY <1>5 DEF Reset
<1>6. ASSUME NEW path \in Paths, line = Include(path)
      PROVE  line.joins \in BOOLEAN /\ line.kind = "include" /\ line.path \in Paths
  BY <1>6 DEF Include
<1>7. \/ line = Blank \/ line = Unclosed \/ line = Bad
      \/ \E j \in BOOLEAN : line = Comment(j)
      \/ \E s \in Sections : line = Header(s)
      \/ \E o \in Options, j \in BOOLEAN : line = Assign(o, j)
      \/ \E o \in Options : line = Reset(o)
      \/ \E path \in Paths : line = Include(path)
  BY DEF Lines
<1> QED BY <1>0, <1>1, <1>2, <1>3, <1>4, <1>5, <1>6, <1>7, <1>8

\* After the line the assignment goes on that started at the line start.
NextStart(line, i, start) ==
    IF start > 0 THEN IF line.joins THEN start ELSE 0
    ELSE IF line.kind = "assign" /\ line.joins THEN i ELSE 0

LEMMA StartIs ==
    ASSUME NEW path, text[path] \in Seq(Lines)
    PROVE  /\ \A i \in 0..Len(text[path]) : Start(path)[i] \in Nat
           /\ Start(path)[0] = 0
           /\ \A i \in 1..Len(text[path]) :
                 Start(path)[i] = NextStart(text[path][i], i, Start(path)[i - 1])
<1> DEFINE t == text[path]
           n == Len(t)
           step == [i \in 1..n |-> [v \in Nat |-> NextStart(t[i], i, v)]]
           g == Start(path)
<1>1. n \in Nat
  BY LenProperties
<1>2. step \in [1..n -> [Nat -> Nat]]
  BY <1>1 DEF NextStart
<1>3. PICK f \in [0..n -> Nat] : f[0] = 0 /\ \A i \in 1..n : f[i] = step[i][f[i - 1]]
  <2>1. Steps(n, Nat, 0, step)
    BY <1>1, <1>2 DEF Steps
  <2>2. PICK f : TakesSteps(f, n, Nat, 0, step)
    BY <2>1, StepByStep
  <2> QED BY <2>2 DEF TakesSteps
<1>4. ASSUME NEW i \in 0..n, i # 0 PROVE f[i] = NextStart(t[i], i, f[i - 1])
  <2>1. i \in 1..n /\ i - 1 \in 0..n
    BY <1>1, <1>4
  <2> QED BY <1>3, <2>1
<1>5. f = [i \in 0..n |-> IF i = 0 THEN 0 ELSE NextStart(t[i], i, f[i - 1])]
  BY <1>3, <1>4
<1>6. g = [i \in 0..n |-> IF i = 0 THEN 0 ELSE NextStart(t[i], i, g[i - 1])]
  BY <1>5, Zenon DEF Start, NextStart
<1> HIDE DEF g
<1>7. g[0] = 0 /\ \A i \in 1..n : g[i] = NextStart(t[i], i, g[i - 1])
  <2>1. 0 \in 0..n /\ \A i \in 1..n : i \in 0..n /\ i # 0
    BY <1>1
  <2> QED BY <1>6, <2>1
<1>8. \A i \in 0..n : g[i] \in Nat
  <2>1. \A i \in 1..n : g[i - 1] \in Nat => g[i] \in Nat
    BY <1>1, <1>7 DEF NextStart
  <2>2. g[0] \in Nat
    BY <1>7
  <2> HIDE DEF n
  <2> QED BY <1>1, <2>1, <2>2, StepsStay
<1> QED BY <1>7, <1>8 DEF g

LEMMA EndOfIs ==
    ASSUME NEW path, text[path] \in Seq(Lines), NEW i \in 1..Len(text[path])
    PROVE  /\ EndOf(path, i) \in i..Len(text[path])
           /\ \A m \in i..Len(text[path]) :
                 Start(path)[m] = 0 /\ (\A j \in i..(m - 1) : Start(path)[j] # 0) => EndOf(path, i) = m
           /\ (\A j \in i..Len(text[path]) : Start(path)[j] # 0) => EndOf(path, i) = Len(text[path])
<1> DEFINE n == Len(text[path])
           ends == {j \in i..n : Start(path)[j] = 0}
<1>1. n \in Nat /\ i \in Nat /\ i <= n /\ ends \in SUBSET Nat
  BY LenProperties
<1>2. CASE ends = {}
  <2>1. EndOf(path, i) = n
    BY <1>2 DEF EndOf
  <2> QED BY <1>1, <1>2, <2>1
<1>3. CASE ends # {}
  <2> DEFINE c == CHOOSE j \in ends : \A k \in ends : j <= k
  <2>1. c \in ends /\ \A k \in ends : c <= k
    BY <1>1, <1>3, Smallest
  <2>2. EndOf(path, i) = c
    BY <1>3 DEF EndOf
  <2> HIDE DEF c
  <2>3. ASSUME NEW m \in i..n, Start(path)[m] = 0, \A j \in i..(m - 1) : Start(path)[j] # 0 PROVE c = m
    <3>1. c <= m /\ c \in i..n /\ Start(path)[c] = 0
      BY <2>1, <2>3
    <3>2. c \notin i..(m - 1)
      BY <2>3, <3>1
    <3> QED BY <1>1, <3>1, <3>2
  <2> QED BY <1>3, <2>1, <2>2, <2>3
<1> QED BY <1>2, <1>3

\* The section changes at the headers only.
LEMMA SectionIs ==
    ASSUME NEW path, NEW i \in Nat \ {0}
    PROVE  /\ SectionAt(path, 1) = "GLOBAL"
           /\ text[path][i].kind # "header" \/ ~ OwnLine(path, i) => SectionAt(path, i + 1) = SectionAt(path, i)
           /\ text[path][i].kind = "header" /\ OwnLine(path, i) => SectionAt(path, i + 1) = text[path][i].section
<1> DEFINE own(h) == text[path][h].kind = "header" /\ OwnLine(path, h)
           headers(l) == {h \in 1..(l - 1) : own(h)}
<1>1. SectionAt(path, 1) = "GLOBAL"
  <2>1. headers(1) = {}
    OBVIOUS
  <2> QED BY <2>1 DEF SectionAt
<1>2. ASSUME ~ own(i) PROVE SectionAt(path, i + 1) = SectionAt(path, i)
  <2>1. ASSUME NEW h PROVE h \in headers(i) <=> h \in headers(i + 1)
    <3>1. h \in 1..(i - 1) <=> h \in 1..((i + 1) - 1) /\ h # i
      OBVIOUS
    <3> HIDE DEF own
    <3> QED BY <1>2, <3>1
  <2>2. headers(i) = headers(i + 1)
    BY <2>1
  <2> DEFINE of(H) == IF H = {} THEN "GLOBAL" ELSE text[path][CHOOSE h \in H : \A g \in H : g <= h].section
  <2>3. SectionAt(path, i) = of(headers(i)) /\ SectionAt(path, i + 1) = of(headers(i + 1))
    BY DEF SectionAt
  <2> HIDE DEF of, headers
  <2> QED BY <2>2, <2>3
<1>3. ASSUME own(i) PROVE SectionAt(path, i + 1) = text[path][i].section
  <2> DEFINE c == CHOOSE h \in headers(i + 1) : \A g \in headers(i + 1) : g <= h
  <2>1. i \in headers(i + 1) /\ \A g \in headers(i + 1) : g <= i /\ g \in Nat
    BY <1>3
  <2>2. c \in headers(i + 1) /\ \A g \in headers(i + 1) : g <= c
    BY <2>1, Zenon
  <2>3. SectionAt(path, i + 1) = text[path][c].section
    BY <2>1, Zenon DEF SectionAt
  <2> HIDE DEF c
  <2>4. c <= i /\ i <= c /\ c \in Nat
    BY <2>1, <2>2
  <2>5. c = i
    BY <2>4
  <2> QED BY <2>3, <2>5
<1> QED BY <1>1, <1>2, <1>3

TextOK == /\ DOMAIN text = Paths
          /\ \A path \in Paths : text[path] = Missing \/ text[path] \in Seq(Lines)

LEMMA LineEffectType ==
    ASSUME NEW k, NEW path \in Paths, text[path] \in Seq(Lines), NEW i \in 1..Len(text[path]),
           NEW included \in [Paths -> Effect]
    PROVE  LineEffect(k, path, i, included) \in Effect
<1> DEFINE value == [path |-> path, from |-> i, to |-> EndOf(path, i)]
           line == text[path][i]
<1>1. Len(text[path]) \in Nat /\ line \in Lines
  BY LenProperties, ElementOfSeq
<1>2. EndOf(path, i) \in Nat \ {0} /\ i \in Nat \ {0}
  BY <1>1, EndOfIs
<1>3. value \in Value
  BY <1>2 DEF Value
<1> HIDE DEF value
<1>4. Adding(value) \in Effect
  BY <1>3, AddingType
<1>5. line.kind = "include" => included[line.path] \in Effect
  BY <1>1, LineFields
<1>6. \/ LineEffect(k, path, i, included) \in {Nothing, Failure, Taking, Adding(value)}
      \/ line.kind = "include" /\ LineEffect(k, path, i, included) = included[line.path]
  BY Zenon DEF LineEffect, value
<1> QED BY <1>4, <1>5, <1>6, NothingType

LEMMA LinesInTurnIs ==
    ASSUME NEW k, NEW path \in Paths, text[path] \in Seq(Lines), NEW included \in [Paths -> Effect]
    PROVE  /\ LinesInTurn(k, path, included) \in [1..(Len(text[path]) + 1) -> Effect]
           /\ LinesInTurn(k, path, included)[Len(text[path]) + 1] = Nothing
           /\ \A i \in 1..Len(text[path]) :
                 LinesInTurn(k, path, included)[i]
                   = Then(LineEffect(k, path, i, included), LinesInTurn(k, path, included)[i + 1])
<1> DEFINE n == Len(text[path])
           effects == [i \in DOMAIN text[path] |-> LineEffect(k, path, i, included)]
<1>1. n \in Nat /\ DOMAIN text[path] = 1..n
  BY LenProperties
<1>2. effects \in [1..n -> Effect]
  BY <1>1, LineEffectType
<1>3. effects \in Seq(Effect) /\ Len(effects) = n
  <2> HIDE DEF effects, n
  <2> QED BY <1>1, <1>2
<1>4. LinesInTurn(k, path, included) = InTurn(effects)
  BY DEF LinesInTurn
<1>5. \A i \in 1..n : effects[i] = LineEffect(k, path, i, included)
  BY <1>1
<1> HIDE DEF effects, n
<1>6. /\ InTurn(effects) \in [1..(n + 1) -> Effect]
      /\ InTurn(effects)[n + 1] = Nothing
      /\ \A i \in 1..n : InTurn(effects)[i] = Then(effects[i], InTurn(effects)[i + 1])
  BY <1>3, InTurnIs
<1> QED BY <1>4, <1>5, <1>6 DEF n

LEMMA FileEffectsIs ==
    ASSUME TextOK, NEW k
    PROVE  /\ \A open \in 0..MaxOpen : FileEffects(k)[open] \in [Paths -> Effect]
           /\ \A path \in Paths : FileEffects(k)[0][path] = Failure
           /\ \A open \in 1..MaxOpen, path \in Paths :
                 FileEffects(k)[open][path]
                   = IF text[path] = Missing THEN Failure
                     ELSE LinesInTurn(k, path, FileEffects(k)[open - 1])[1]
<1> DEFINE A == [Paths -> Effect]
           one(path, v) == IF text[path] = Missing THEN Failure ELSE LinesInTurn(k, path, v)[1]
           base == [path \in Paths |-> Failure]
           next == [v \in A |-> [path \in Paths |-> one(path, v)]]
           step == [open \in 1..MaxOpen |-> next]
           g == FileEffects(k)
<1>1. MaxOpen \in Nat
  BY UnitFileAssumption
<1>2. ASSUME NEW v \in A, NEW path \in Paths PROVE one(path, v) \in Effect
  <2>1. CASE text[path] = Missing
    BY <2>1, NothingType
  <2>2. CASE text[path] # Missing
    <3>1. text[path] \in Seq(Lines)
      BY <2>2 DEF TextOK
    <3>2. LinesInTurn(k, path, v) \in [1..(Len(text[path]) + 1) -> Effect] /\ Len(text[path]) \in Nat
      BY <3>1, LinesInTurnIs, LenProperties
    <3> QED BY <2>2, <3>2
  <2> QED BY <2>1, <2>2
<1>3. base \in A /\ next \in [A -> A]
  <2>1. base \in A
    BY NothingType
  <2> HIDE DEF one
  <2>2. next \in [A -> A]
    BY <1>2
  <2> QED BY <2>1, <2>2
<1>4. step \in [1..MaxOpen -> [A -> A]]
  BY <1>3
<1>5. PICK f \in [0..MaxOpen -> A] : f[0] = base /\ \A i \in 1..MaxOpen : f[i] = step[i][f[i - 1]]
  <2>1. Steps(MaxOpen, A, base, step)
    BY <1>1, <1>3, <1>4 DEF Steps
  <2> HIDE DEF A, base, step
  <2>2. PICK f : TakesSteps(f, MaxOpen, A, base, step)
    BY <2>1, StepByStep
  <2> QED BY <2>2 DEF TakesSteps
<1>6. ASSUME NEW i \in 0..MaxOpen
      PROVE  f[i] = [path \in Paths |-> IF i = 0 \/ text[path] = Missing THEN Failure
                                        ELSE LinesInTurn(k, path, f[i - 1])[1]]
  <2>1. CASE i = 0
    BY <1>5, <2>1
  <2>2. CASE i # 0
    <3>1. i \in 1..MaxOpen /\ f[i - 1] \in A
      BY <1>1, <1>5, <2>2
    <3>2. f[i] = next[f[i - 1]]
      BY <1>5, <3>1
    <3> HIDE DEF A
    <3>3. f[i] = [path \in Paths |-> one(path, f[i - 1])]
      BY <3>1, <3>2
    <3> QED BY <2>2, <3>3
  <2> QED BY <2>1, <2>2
<1>7. f = [i \in 0..MaxOpen |-> [path \in Paths |-> IF i = 0 \/ text[path] = Missing THEN Failure
                                                   ELSE LinesInTurn(k, path, f[i - 1])[1]]]
  BY <1>5, <1>6
<1>8. g = [i \in 0..MaxOpen |-> [path \in Paths |-> IF i = 0 \/ text[path] = Missing THEN Failure
                                                   ELSE LinesInTurn(k, path, g[i - 1])[1]]]
  BY <1>7, Zenon DEF FileEffects
<1> HIDE DEF g
<1>9. g[0] = base
  <2>1. 0 \in 0..MaxOpen
    BY <1>1
  <2> QED BY <1>8, <2>1
<1>10. ASSUME NEW i \in 1..MaxOpen PROVE g[i] = [path \in Paths |-> one(path, g[i - 1])]
  <2>1. i \in 0..MaxOpen /\ i # 0
    BY <1>1
  <2> QED BY <1>8, <2>1
<1>11. ASSUME NEW i \in 1..MaxOpen, g[i - 1] \in A PROVE g[i] \in A
  <2>1. \A path \in Paths : one(path, g[i - 1]) \in Effect
    BY <1>2, <1>11
  <2> HIDE DEF one
  <2> QED BY <1>10, <2>1
<1>12. \A i \in 0..MaxOpen : g[i] \in A
  <2> HIDE DEF A, base
  <2> QED BY <1>1, <1>3, <1>9, <1>11, StepsStay
<1>13. \A path \in Paths : g[0][path] = Failure
  BY <1>9
<1>14. \A i \in 1..MaxOpen, path \in Paths : g[i][path] = one(path, g[i - 1])
  <2> HIDE DEF one
  <2> QED BY <1>10
<1> QED BY <1>12, <1>13, <1>14 DEF g

LEMMA ReadOrderType == ReadOrder \in Seq(Paths)
<1> DEFINE names == DOMAIN DropIns
           seqs == [i \in names |-> DropInFile(DropIns[i])]
<1>1. names = 1..Len(DropIns) /\ Len(DropIns) \in Nat
  BY UnitFileAssumption, LenProperties
<1>2. ASSUME NEW i \in names PROVE DropInFile(DropIns[i]) \in Seq(Paths)
  <2> DEFINE found == {f \in 1..Folders : text[<<f, DropIns[i]>>] # Missing}
             c == CHOOSE f \in found : \A g \in found : f <= g
  <2>1. CASE found = {}
    <3>1. DropInFile(DropIns[i]) = <<>>
      BY <2>1 DEF DropInFile
    <3> QED BY <3>1
  <2>2. CASE found # {}
    <3>1. found \in SUBSET Nat
      BY UnitFileAssumption
    <3>2. c \in found
      BY <2>2, <3>1, Smallest
    <3>3. DropInFile(DropIns[i]) = << <<c, DropIns[i]>> >>
      BY <2>2 DEF DropInFile
    <3> HIDE DEF c
    <3>4. <<c, DropIns[i]>> \in Paths
      BY <3>2 DEF Paths, Range
    <3> QED BY <3>3, <3>4
  <2> QED BY <2>1, <2>2
<1>3. Len(seqs) = Len(DropIns) /\ (Len(DropIns) = 0 => seqs = <<>>)
  BY <1>1
<1>4. FlattenSeq(seqs) \in Seq(Paths)
  <2>1. DOMAIN seqs = 1..Len(seqs) /\ Len(seqs) \in Nat /\ (Len(seqs) = 0 => seqs = <<>>)
    BY <1>1, <1>3
  <2>2. \A i \in 1..Len(seqs) : seqs[i] \in Seq(Paths)
    BY <1>1, <1>2, <1>3
  <2> HIDE DEF seqs
  <2> QED BY <2>1, <2>2, FlattenType
<1>5. <<Unit>> \in Seq(Paths)
  BY DEF Paths
<1>6. <<Unit>> \o FlattenSeq(seqs) \in Seq(Paths)
  BY <1>4, <1>5, ConcatProperties
<1> QED BY <1>6 DEF ReadOrder

LEMMA FilesInTurnIs ==
    ASSUME TextOK, NEW k
    PROVE  /\ FilesInTurn(k) \in [1..(Len(ReadOrder) + 1) -> Effect]
           /\ FilesInTurn(k)[Len(ReadOrder) + 1] = Nothing
           /\ \A i \in 1..Len(ReadOrder) :
                 FilesInTurn(k)[i] = Then(Ended(FileEffects(k)[MaxOpen][ReadOrder[i]]), FilesInTurn(k)[i + 1])
<1> DEFINE n == Len(ReadOrder)
           effects == [i \in DOMAIN ReadOrder |-> Ended(FileEffects(k)[MaxOpen][ReadOrder[i]])]
<1>1. n \in Nat /\ DOMAIN ReadOrder = 1..n /\ \A i \in 1..n : ReadOrder[i] \in Paths
  BY ReadOrderType, LenProperties, ElementOfSeq
<1>2. FileEffects(k)[MaxOpen] \in [Paths -> Effect]
  <2>1. MaxOpen \in 0..MaxOpen
    BY UnitFileAssumption
  <2> QED BY <2>1, FileEffectsIs
<1>3. \A i \in 1..n : Ended(FileEffects(k)[MaxOpen][ReadOrder[i]]) \in Effect
  BY <1>1, <1>2, EndedThen
<1>4. effects \in [1..n -> Effect]
  <2> HIDE DEF n
  <2> QED BY <1>1, <1>3
<1>5. \A i \in 1..n : effects[i] = Ended(FileEffects(k)[MaxOpen][ReadOrder[i]])
  BY <1>1
<1>6. FilesInTurn(k) = InTurn(effects)
  BY DEF FilesInTurn
<1> HIDE DEF effects, n
<1>7. effects \in Seq(Effect) /\ Len(effects) = n
  BY <1>1, <1>4
<1>8. /\ InTurn(effects) \in [1..(n + 1) -> Effect]
      /\ InTurn(effects)[n + 1] = Nothing
      /\ \A i \in 1..n : InTurn(effects)[i] = Then(effects[i], InTurn(effects)[i + 1])
  BY <1>7, InTurnIs
<1> QED BY <1>5, <1>6, <1>8 DEF n

-----------------------------------------------------------------------------
(* The invariant: what the readers and the files that are still to be read *)
(* will do to a value makes of it what all the files together make of none.*)

ReaderType == [path : Paths, next : Nat \ {0}, section : Sections, option : Options \cup {""}, from : Nat]

\* A reader knows what the lines before its next one say.
AtPlace(r) ==
    /\ text[r.path] # Missing /\ text[r.path] \in Seq(Lines)
    /\ r.next <= Len(text[r.path]) + 1
    /\ r.section = SectionAt(r.path, r.next)
    /\ Start(r.path)[r.next - 1] = r.from
    /\ r.from > 0 => /\ r.from < r.next
                     /\ OwnLine(r.path, r.from)
                     /\ text[r.path][r.from].kind = "assign"
                     /\ r.option = text[r.path][r.from].option
                     /\ r.section = SectionAt(r.path, r.from)
                     /\ \A j \in r.from..(r.next - 1) : Start(r.path)[j] # 0

ReadersOK(rs) == /\ rs \in Seq(ReaderType)
                 /\ Len(rs) <= MaxOpen
                 /\ \A j \in 1..Len(rs) : AtPlace(rs[j])

\* The files to read are the last ones of the order.
FilesToRead(fs) == /\ fs \in Seq(Paths)
                 /\ Len(fs) <= Len(ReadOrder)
                 /\ \A i \in 1..Len(fs) : fs[i] = ReadOrder[Len(ReadOrder) - Len(fs) + i]

\* What a reader will do, with the assignment that goes on.
RestEffect(k, r, open) ==
    LET included == FileEffects(k)[open - 1]
        rest     == LinesInTurn(k, r.path, included)[r.next]
    IN  IF r.from = 0 THEN rest ELSE Then(LineEffect(k, r.path, r.from, included), rest)

\* rest[j]: what the first j readers will do.
Stacked(k, rs, rest) ==
    /\ rest \in [0..Len(rs) -> Effect]
    /\ rest[0] = Nothing
    /\ \A j \in 1..Len(rs) : rest[j] = Then(RestEffect(k, rs[j], MaxOpen - j + 1), rest[j - 1])

Left(k, rs, fs, rest) == Then(Ended(rest[Len(rs)]), FilesInTurn(k)[Len(ReadOrder) - Len(fs) + 1])

Holds(k, rs, fs, v) ==
    \E rest : Stacked(k, rs, rest) /\ Applied(v, Left(k, rs, fs, rest)) = FilesInTurn(k)[1].adds

FileInv == /\ TextOK /\ masked \in BOOLEAN
           /\ NoEmptyLineJoined
           /\ conf \in [Keys -> Seq(Value)]
           /\ ReadersOK(readers)
           /\ FilesToRead(todo)
           /\ \A k \in Keys : Holds(k, readers, todo, conf[k])

LEMMA RestEffectType ==
    ASSUME TextOK, NEW k, NEW r \in ReaderType, AtPlace(r), NEW open \in 1..MaxOpen
    PROVE  RestEffect(k, r, open) \in Effect
<1> DEFINE included == FileEffects(k)[open - 1]
           lines == LinesInTurn(k, r.path, included)
           n == Len(text[r.path])
<1>1. open - 1 \in 0..MaxOpen
  BY UnitFileAssumption
<1>2. included \in [Paths -> Effect]
  BY <1>1, FileEffectsIs
<1>3. r.path \in Paths /\ text[r.path] \in Seq(Lines) /\ n \in Nat /\ r.next \in 1..(n + 1)
  <2>1. r.path \in Paths /\ r.next \in Nat \ {0}
    BY DEF ReaderType
  <2>2. text[r.path] \in Seq(Lines) /\ r.next <= n + 1
    BY DEF AtPlace
  <2> QED BY <2>1, <2>2, LenProperties
<1>4. lines[r.next] \in Effect
  <2>1. lines \in [1..(n + 1) -> Effect]
    BY <1>2, <1>3, LinesInTurnIs
  <2> HIDE DEF lines
  <2> QED BY <1>3, <2>1
<1>5. ASSUME r.from # 0 PROVE LineEffect(k, r.path, r.from, included) \in Effect
  <2>1. r.from \in 1..n
    <3>1. r.from \in Nat
      BY DEF ReaderType
    <3>2. r.from > 0 => r.from < r.next
      BY DEF AtPlace
    <3> QED BY <1>3, <1>5, <3>1, <3>2
  <2> QED BY <1>2, <1>3, <2>1, LineEffectType
<1> HIDE DEF lines, included
<1>6. RestEffect(k, r, open) \in {lines[r.next], Then(LineEffect(k, r.path, r.from, included), lines[r.next])}
        /\ (r.from = 0 => RestEffect(k, r, open) = lines[r.next])
  BY DEF RestEffect, lines, included
<1> QED BY <1>4, <1>5, <1>6, ThenType

LEMMA LeftType ==
    ASSUME TextOK, NEW k, NEW rs, NEW rest, Stacked(k, rs, rest), ReadersOK(rs), NEW fs, FilesToRead(fs)
    PROVE  /\ Len(rs) \in Nat /\ rest[Len(rs)] \in Effect /\ Ended(rest[Len(rs)]) \in Effect
           /\ Len(ReadOrder) - Len(fs) + 1 \in 1..(Len(ReadOrder) + 1)
           /\ FilesInTurn(k)[Len(ReadOrder) - Len(fs) + 1] \in Effect
           /\ FilesInTurn(k)[1] \in Effect
<1>1. Len(rs) \in Nat
  BY LenProperties DEF ReadersOK
<1>2. rest[Len(rs)] \in Effect
  BY <1>1 DEF Stacked
<1>3. Ended(rest[Len(rs)]) \in Effect
  BY <1>2, EndedThen
<1>4. Len(fs) \in Nat /\ Len(ReadOrder) \in Nat /\ Len(fs) <= Len(ReadOrder)
  BY ReadOrderType, LenProperties DEF FilesToRead
<1>5. Len(ReadOrder) - Len(fs) + 1 \in 1..(Len(ReadOrder) + 1) /\ 1 \in 1..(Len(ReadOrder) + 1)
  BY <1>4
<1>6. FilesInTurn(k) \in [1..(Len(ReadOrder) + 1) -> Effect]
  BY FilesInTurnIs
<1> QED BY <1>1, <1>2, <1>3, <1>5, <1>6

\* Outer, of any readers.
OuterOf(rs) == SubSeq(rs, 1, Len(rs) - 1)

LEMMA OuterIs ==
    ASSUME NEW rs \in Seq(ReaderType), Len(rs) # 0
    PROVE  /\ Len(rs) \in Nat \ {0} /\ rs[Len(rs)] \in ReaderType
           /\ OuterOf(rs) \in Seq(ReaderType) /\ Len(OuterOf(rs)) = Len(rs) - 1
           /\ \A j \in 1..(Len(rs) - 1) : OuterOf(rs)[j] = rs[j]
<1>1. Len(rs) \in Nat \ {0} /\ Len(rs) \in 1..Len(rs)
  BY LenProperties
<1>2. rs[Len(rs)] \in ReaderType
  BY <1>1, ElementOfSeq
<1>3. \A j \in 1..(Len(rs) - 1) : rs[j] \in ReaderType
  BY <1>1, ElementOfSeq
<1>4. OuterOf(rs) = [j \in 1..(Len(rs) - 1) |-> rs[j]]
  BY <1>1 DEF OuterOf
<1>5. Len(rs) - 1 \in Nat
  BY <1>1
<1>6. OuterOf(rs) \in Seq(ReaderType) /\ Len(OuterOf(rs)) = Len(rs) - 1
  BY <1>3, <1>4, <1>5
<1> QED BY <1>1, <1>2, <1>4, <1>6

LEMMA ReaderPushed ==
    ASSUME NEW rs \in Seq(ReaderType), NEW q \in ReaderType
    PROVE  /\ Append(rs, q) \in Seq(ReaderType) /\ Len(Append(rs, q)) = Len(rs) + 1
           /\ Append(rs, q)[Len(rs) + 1] = q
           /\ \A j \in 1..Len(rs) : Append(rs, q)[j] = rs[j]
BY AppendProperties

\* The readers but the last one.
LEMMA StackedOuter ==
    ASSUME NEW k, NEW rs \in Seq(ReaderType), Len(rs) # 0, NEW rest, Stacked(k, rs, rest)
    PROVE  /\ Stacked(k, OuterOf(rs), [j \in 0..(Len(rs) - 1) |-> rest[j]])
           /\ rest[Len(rs)] = Then(RestEffect(k, rs[Len(rs)], MaxOpen - Len(rs) + 1), rest[Len(rs) - 1])
<1> DEFINE n == Len(rs)
           down == [j \in 0..(n - 1) |-> rest[j]]
           e(r, j) == RestEffect(k, r, MaxOpen - j + 1)
<1> HIDE DEF e
<1>1. n \in Nat \ {0} /\ Len(OuterOf(rs)) = n - 1 /\ \A j \in 1..(n - 1) : OuterOf(rs)[j] = rs[j]
  BY OuterIs
<1>2. rest \in [0..n -> Effect] /\ rest[0] = Nothing /\ \A j \in 1..n : rest[j] = Then(e(rs[j], j), rest[j - 1])
  BY DEF Stacked, e
<1>3. down \in [0..(n - 1) -> Effect] /\ down[0] = Nothing
  BY <1>1, <1>2
<1>4. ASSUME NEW j \in 1..(n - 1) PROVE down[j] = Then(e(OuterOf(rs)[j], j), down[j - 1])
  <2>1. j \in 1..n /\ j \in 0..(n - 1) /\ j - 1 \in 0..(n - 1)
    BY <1>1
  <2>2. down[j] = rest[j] /\ down[j - 1] = rest[j - 1] /\ OuterOf(rs)[j] = rs[j]
    BY <1>1, <2>1
  <2> HIDE DEF down
  <2> QED BY <1>2, <2>1, <2>2
<1>5. Stacked(k, OuterOf(rs), down)
  <2> HIDE DEF down
  <2> QED BY <1>1, <1>3, <1>4 DEF Stacked, e
<1>6. n \in 1..n
  BY <1>1
<1> QED BY <1>2, <1>5, <1>6 DEF e

\* One more reader.
LEMMA StackedMore ==
    ASSUME NEW k, NEW rs \in Seq(ReaderType), NEW rest, Stacked(k, rs, rest), NEW q \in ReaderType,
           RestEffect(k, q, MaxOpen - Len(rs)) \in Effect
    PROVE  \E more : /\ Stacked(k, Append(rs, q), more)
                     /\ more[Len(rs) + 1] = Then(RestEffect(k, q, MaxOpen - Len(rs)), rest[Len(rs)])
<1> DEFINE n == Len(rs)
           t == Append(rs, q)
           e(r, j) == RestEffect(k, r, MaxOpen - j + 1)
           top == Then(e(q, n + 1), rest[n])
           more == [j \in 0..(n + 1) |-> IF j = n + 1 THEN top ELSE rest[j]]
<1>0. n \in Nat /\ MaxOpen \in Nat
  BY LenProperties, UnitFileAssumption
<1>1. MaxOpen - n = MaxOpen - (n + 1) + 1
  BY <1>0
<1>2. e(q, n + 1) = RestEffect(k, q, MaxOpen - n)
  BY <1>1
<1> HIDE DEF e
<1>3. Len(t) = n + 1 /\ t[n + 1] = q /\ \A j \in 1..n : t[j] = rs[j]
  BY ReaderPushed
<1>4. rest \in [0..n -> Effect] /\ rest[0] = Nothing /\ \A j \in 1..n : rest[j] = Then(e(rs[j], j), rest[j - 1])
  BY DEF Stacked, e
<1>5. top \in Effect
  BY <1>0, <1>2, <1>4, ThenType
<1> HIDE DEF top, n, t
<1>6. more \in [0..(n + 1) -> Effect] /\ more[0] = Nothing /\ more[n + 1] = top
  BY <1>0, <1>4, <1>5
<1>7. ASSUME NEW j \in 1..(n + 1) PROVE more[j] = Then(e(t[j], j), more[j - 1])
  <2>1. j - 1 \in 0..(n + 1) /\ j - 1 # n + 1 /\ more[j - 1] = rest[j - 1]
    BY <1>0
  <2>2. CASE j = n + 1
    <3>1. j - 1 = n
      BY <1>0, <2>2
    <3> HIDE DEF more
    <3> QED BY <1>3, <1>6, <2>1, <2>2, <3>1 DEF top
  <2>3. CASE j # n + 1
    <3>1. j \in 1..n /\ more[j] = rest[j]
      BY <1>0, <2>3
    <3> HIDE DEF more
    <3> QED BY <1>3, <1>4, <2>1, <3>1
  <2> QED BY <2>2, <2>3
<1> HIDE DEF more
<1>8. Stacked(k, t, more)
  BY <1>3, <1>6, <1>7 DEF Stacked, e
<1>9. more[n + 1] = Then(RestEffect(k, q, MaxOpen - n), rest[n])
  BY <1>2, <1>6 DEF top
<1> QED BY <1>8, <1>9 DEF n, t

LEMMA Consumed ==
    ASSUME NEW v \in Seq(Value), NEW x \in Effect, x.ok, NEW e \in Effect, NEW f \in Effect
    PROVE  Applied(v, Then(Ended(Then(x, e)), f)) = Applied(Applied(v, x), Then(Ended(e), f))
<1>1. Ended(Then(x, e)) = Then(x, Ended(e)) /\ Ended(e) \in Effect
  BY EndedThen
<1>2. Then(Then(x, Ended(e)), f) = Then(x, Then(Ended(e), f)) /\ Then(Ended(e), f) \in Effect
  BY <1>1, ThenThen, ThenType
<1> QED BY <1>1, <1>2, ThenApplied

LEMMA HoldsFor ==
    ASSUME NEW k, NEW rs, NEW fs, NEW v, NEW rest,
           Stacked(k, rs, rest), Applied(v, Left(k, rs, fs, rest)) = FilesInTurn(k)[1].adds
    PROVE  Holds(k, rs, fs, v)
BY DEF Holds

\* The last reader has done something, and goes on.
LEMMA TopAdvances ==
    ASSUME TextOK, NEW k, NEW rs, ReadersOK(rs), Len(rs) # 0, NEW fs, FilesToRead(fs),
           NEW v \in Seq(Value), Holds(k, rs, fs, v),
           NEW q \in ReaderType, AtPlace(q), NEW x \in Effect, x.ok,
           RestEffect(k, rs[Len(rs)], MaxOpen - Len(rs) + 1) = Then(x, RestEffect(k, q, MaxOpen - Len(rs) + 1))
    PROVE  Holds(k, Append(OuterOf(rs), q), fs, Applied(v, x))
<1> DEFINE n == Len(rs)
           outer == OuterOf(rs)
           t == Append(outer, q)
           f == FilesInTurn(k)[Len(ReadOrder) - Len(fs) + 1]
           e == RestEffect(k, q, MaxOpen - n + 1)
<1>0. rs \in Seq(ReaderType)
  BY DEF ReadersOK
<1>1. PICK rest : Stacked(k, rs, rest) /\ Applied(v, Left(k, rs, fs, rest)) = FilesInTurn(k)[1].adds
  BY DEF Holds
<1> DEFINE down == [j \in 0..(n - 1) |-> rest[j]]
<1>2. n \in Nat \ {0} /\ n <= MaxOpen /\ outer \in Seq(ReaderType) /\ Len(outer) = n - 1
  BY <1>0, OuterIs DEF ReadersOK
<1>3. /\ Stacked(k, outer, down) /\ down[n - 1] = rest[n - 1]
      /\ rest[n] = Then(Then(x, e), rest[n - 1])
  <2>1. n - 1 \in 0..(n - 1)
    BY <1>2
  <2> QED BY <1>0, <1>1, <2>1, StackedOuter
<1>4. MaxOpen - Len(outer) = MaxOpen - n + 1 /\ MaxOpen - n + 1 \in 1..MaxOpen /\ Len(outer) + 1 = n
  BY <1>2, UnitFileAssumption
<1>5. e \in Effect
  BY <1>4, RestEffectType
<1> HIDE DEF down
<1>6. PICK more : Stacked(k, t, more) /\ more[n] = Then(e, rest[n - 1])
  <2>1. RestEffect(k, q, MaxOpen - Len(outer)) = e
    BY <1>4
  <2> HIDE DEF e, outer
  <2>2. \E more : Stacked(k, Append(outer, q), more)
                  /\ more[Len(outer) + 1] = Then(RestEffect(k, q, MaxOpen - Len(outer)), down[Len(outer)])
    BY <1>2, <1>3, <1>5, <2>1, StackedMore
  <2> QED BY <1>2, <1>3, <1>4, <2>1, <2>2
<1>7. rest[n - 1] \in Effect /\ f \in Effect
  <2>1. n - 1 \in 0..n
    BY <1>2
  <2> QED BY <1>1, <2>1, LeftType DEF Stacked
<1>8. rest[n] = Then(x, more[n]) /\ more[n] \in Effect
  <2>1. Then(Then(x, e), rest[n - 1]) = Then(x, Then(e, rest[n - 1])) /\ Then(e, rest[n - 1]) \in Effect
    <3> HIDE DEF e, n
    <3>1. Then(e, rest[n - 1]) \in Effect
      BY <1>5, <1>7, ThenType
    <3>2. Then(Then(x, e), rest[n - 1]) = Then(x, Then(e, rest[n - 1]))
      BY <1>5, <1>7, ThenThen
    <3> QED BY <3>1, <3>2
  <2> HIDE DEF e, n, t
  <2> QED BY <1>3, <1>6, <2>1
<1>9. Len(t) = n
  BY <1>2, <1>4, ReaderPushed
<1>10. Applied(v, Left(k, rs, fs, rest)) = Applied(Applied(v, x), Left(k, t, fs, more))
  <2>1. Left(k, rs, fs, rest) = Then(Ended(Then(x, more[n])), f)
    BY <1>8 DEF Left
  <2>2. Left(k, t, fs, more) = Then(Ended(more[n]), f)
    BY <1>9 DEF Left
  <2> HIDE DEF f, t, n
  <2> QED BY <1>7, <1>8, <2>1, <2>2, Consumed
<1> HIDE DEF t
<1>11. Holds(k, t, fs, Applied(v, x))
  BY <1>1, <1>6, <1>10, HoldsFor
<1> QED BY <1>11 DEF t

\* The last reader comes to its end.
LEMMA TopReturns ==
    ASSUME TextOK, NEW k, NEW rs, ReadersOK(rs), Len(rs) # 0, NEW fs, FilesToRead(fs),
           NEW v \in Seq(Value), Holds(k, rs, fs, v), NEW x \in Effect, x.ok,
           RestEffect(k, rs[Len(rs)], MaxOpen - Len(rs) + 1) = x
    PROVE  Holds(k, OuterOf(rs), fs, Applied(v, x))
<1> DEFINE n == Len(rs)
           outer == OuterOf(rs)
           f == FilesInTurn(k)[Len(ReadOrder) - Len(fs) + 1]
<1>0. rs \in Seq(ReaderType)
  BY DEF ReadersOK
<1>1. PICK rest : Stacked(k, rs, rest) /\ Applied(v, Left(k, rs, fs, rest)) = FilesInTurn(k)[1].adds
  BY DEF Holds
<1> DEFINE down == [j \in 0..(n - 1) |-> rest[j]]
<1>2. n \in Nat \ {0} /\ Len(outer) = n - 1 /\ n - 1 \in 0..(n - 1) /\ n - 1 \in 0..n
  BY <1>0, OuterIs
<1>3. Stacked(k, outer, down) /\ down[n - 1] = rest[n - 1] /\ rest[n] = Then(x, rest[n - 1])
  BY <1>0, <1>1, <1>2, StackedOuter
<1>4. rest[n - 1] \in Effect /\ f \in Effect
  BY <1>1, <1>2, LeftType DEF Stacked
<1>5. Left(k, rs, fs, rest) = Then(Ended(Then(x, rest[n - 1])), f)
  BY <1>3 DEF Left
<1>6. Left(k, outer, fs, down) = Then(Ended(rest[n - 1]), f)
  BY <1>2, <1>3 DEF Left
<1> HIDE DEF f, outer, down
<1>7. Applied(v, Left(k, rs, fs, rest)) = Applied(Applied(v, x), Left(k, outer, fs, down))
  BY <1>4, <1>5, <1>6, Consumed
<1>8. Holds(k, outer, fs, Applied(v, x))
  BY <1>1, <1>3, <1>7, HoldsFor
<1> QED BY <1>8 DEF outer

\* The last reader ends all of them.
LEMMA TopFails ==
    ASSUME TextOK, NEW k, NEW rs, ReadersOK(rs), Len(rs) # 0, NEW fs, FilesToRead(fs),
           NEW v \in Seq(Value), Holds(k, rs, fs, v),
           RestEffect(k, rs[Len(rs)], MaxOpen - Len(rs) + 1) = Failure
    PROVE  Holds(k, <<>>, fs, v)
<1> DEFINE n == Len(rs)
           none == [j \in 0..0 |-> Nothing]
           f == FilesInTurn(k)[Len(ReadOrder) - Len(fs) + 1]
<1>0. rs \in Seq(ReaderType)
  BY DEF ReadersOK
<1>1. PICK rest : Stacked(k, rs, rest) /\ Applied(v, Left(k, rs, fs, rest)) = FilesInTurn(k)[1].adds
  BY DEF Holds
<1>2. rest[n] = Then(Failure, rest[n - 1])
  BY <1>0, <1>1, StackedOuter
<1>3. rest[n] = Failure
  BY <1>2 DEF Then, Failure
<1>4. Left(k, rs, fs, rest) = Then(Nothing, f)
  BY <1>3, NothingType, EndedThen DEF Left
<1>5. Stacked(k, <<>>, none) /\ none[0] = Nothing /\ Len(<<>>) = 0
  BY NothingType DEF Stacked
<1>6. Left(k, <<>>, fs, none) = Then(Nothing, f)
  BY <1>5, NothingType, EndedThen DEF Left
<1> HIDE DEF none
<1> QED BY <1>1, <1>4, <1>5, <1>6, HoldsFor

\* The last reader goes on when the file is read that it includes.
LEMMA TopIncludes ==
    ASSUME TextOK, NEW k, NEW rs, ReadersOK(rs), Len(rs) # 0, Len(rs) # MaxOpen,
           NEW fs, FilesToRead(fs), NEW v, Holds(k, rs, fs, v),
           NEW q \in ReaderType, AtPlace(q), NEW r \in ReaderType, AtPlace(r),
           RestEffect(k, rs[Len(rs)], MaxOpen - Len(rs) + 1)
             = Then(RestEffect(k, r, MaxOpen - Len(rs)), RestEffect(k, q, MaxOpen - Len(rs) + 1))
    PROVE  Holds(k, Append(Append(OuterOf(rs), q), r), fs, v)
<1> DEFINE n == Len(rs)
           outer == OuterOf(rs)
           t == Append(outer, q)
           u == Append(t, r)
           e == RestEffect(k, q, MaxOpen - n + 1)
           g == RestEffect(k, r, MaxOpen - n)
<1>0. rs \in Seq(ReaderType)
  BY DEF ReadersOK
<1>1. PICK rest : Stacked(k, rs, rest) /\ Applied(v, Left(k, rs, fs, rest)) = FilesInTurn(k)[1].adds
  BY DEF Holds
<1> DEFINE down == [j \in 0..(n - 1) |-> rest[j]]
<1>2. n \in Nat \ {0} /\ n <= MaxOpen /\ outer \in Seq(ReaderType) /\ Len(outer) = n - 1
  BY <1>0, OuterIs DEF ReadersOK
<1>3. /\ Stacked(k, outer, down) /\ down[n - 1] = rest[n - 1]
      /\ rest[n] = Then(Then(g, e), rest[n - 1])
  <2>1. n - 1 \in 0..(n - 1)
    BY <1>2
  <2> QED BY <1>0, <1>1, <2>1, StackedOuter
<1>4. /\ MaxOpen - Len(outer) = MaxOpen - n + 1 /\ MaxOpen - n + 1 \in 1..MaxOpen /\ Len(outer) + 1 = n
      /\ MaxOpen - n \in 1..MaxOpen
  BY <1>2, UnitFileAssumption
<1>5. e \in Effect /\ g \in Effect
  BY <1>4, RestEffectType
<1>6. t \in Seq(ReaderType) /\ Len(t) = n /\ u \in Seq(ReaderType) /\ Len(u) = n + 1
  BY <1>2, <1>4, ReaderPushed
<1> HIDE DEF down
<1>7. PICK more : Stacked(k, t, more) /\ more[n] = Then(e, rest[n - 1])
  <2>1. RestEffect(k, q, MaxOpen - Len(outer)) = e
    BY <1>4
  <2> HIDE DEF e, outer
  <2>2. \E more : Stacked(k, Append(outer, q), more)
                  /\ more[Len(outer) + 1] = Then(RestEffect(k, q, MaxOpen - Len(outer)), down[Len(outer)])
    BY <1>2, <1>3, <1>5, <2>1, StackedMore
  <2> QED BY <1>2, <1>3, <1>4, <2>1, <2>2
<1>8. PICK most : Stacked(k, u, most) /\ most[n + 1] = Then(g, more[n])
  <2>1. RestEffect(k, r, MaxOpen - Len(t)) = g
    BY <1>6
  <2> HIDE DEF g, t
  <2>2. \E most : Stacked(k, Append(t, r), most)
                  /\ most[Len(t) + 1] = Then(RestEffect(k, r, MaxOpen - Len(t)), more[Len(t)])
    BY <1>5, <1>6, <1>7, <2>1, StackedMore
  <2> QED BY <1>6, <2>1, <2>2
<1>9. rest[n - 1] \in Effect
  <2>1. n - 1 \in 0..n
    BY <1>2
  <2> QED BY <1>1, <2>1 DEF Stacked
<1>10. most[n + 1] = rest[n]
  <2> HIDE DEF e, g, n
  <2>1. Then(Then(g, e), rest[n - 1]) = Then(g, Then(e, rest[n - 1]))
    BY <1>5, <1>9, ThenThen
  <2> HIDE DEF t, u
  <2> QED BY <1>3, <1>7, <1>8, <2>1
<1>11. Left(k, u, fs, most) = Left(k, rs, fs, rest)
  <2> HIDE DEF u
  <2> QED BY <1>6, <1>10 DEF Left
<1> HIDE DEF u
<1>12. Holds(k, u, fs, v)
  BY <1>1, <1>8, <1>11, HoldsFor
<1> QED BY <1>12 DEF u

LEMMA ReaderIs ==
    ASSUME TextOK, NEW path \in Paths, text[path] # Missing
    PROVE  /\ Reader(path) \in ReaderType /\ AtPlace(Reader(path))
           /\ \A k : \A open \in 1..MaxOpen : RestEffect(k, Reader(path), open) = FileEffects(k)[open][path]
<1> DEFINE r == Reader(path)
<1>1. r.path = path /\ r.next = 1 /\ r.section = "GLOBAL" /\ r.option = "" /\ r.from = 0
  BY DEF Reader
<1>2. r \in ReaderType
  BY UnitFileAssumption DEF ReaderType, Reader
<1>3. text[path] \in Seq(Lines) /\ Len(text[path]) \in Nat
  BY LenProperties DEF TextOK
<1> HIDE DEF r
<1>4. AtPlace(r)
  <2>1. Start(path)[0] = 0 /\ SectionAt(path, 1) = "GLOBAL"
    BY <1>3, StartIs, SectionIs
  <2>2. r.next - 1 = 0 /\ ~ (r.from > 0)
    <3>1. 1 - 1 = 0 /\ ~ (0 > 0)
      OBVIOUS
    <3> QED BY <1>1, <3>1, Zenon
  <2>3. r.next <= Len(text[path]) + 1
    <3>1. 1 <= Len(text[path]) + 1
      BY <1>3
    <3> QED BY <1>1, <3>1
  <2> QED BY <1>1, <1>3, <2>1, <2>2, <2>3, Zenon DEF AtPlace
<1>5. ASSUME NEW k, NEW open \in 1..MaxOpen PROVE RestEffect(k, r, open) = FileEffects(k)[open][path]
  <2>1. RestEffect(k, r, open) = LinesInTurn(k, path, FileEffects(k)[open - 1])[1]
    BY <1>1 DEF RestEffect
  <2> QED BY <2>1, FileEffectsIs
<1> QED BY <1>2, <1>4, <1>5 DEF r

LEMMA TodoMoves ==
    ASSUME NEW fs, FilesToRead(fs), fs # <<>>
    PROVE  Head(fs) \in Paths /\ FilesToRead(Tail(fs))
<1> DEFINE m == Len(ReadOrder)
           l == Len(fs)
<1>1. /\ l \in Nat \ {0} /\ m \in Nat /\ l <= m
      /\ Head(fs) \in Paths /\ Len(Tail(fs)) = l - 1
      /\ Tail(fs) \in Seq(Paths) /\ \A i \in 1..(l - 1) : Tail(fs)[i] = fs[i + 1]
  BY ReadOrderType, LenProperties, HeadTailProperties, EmptySeq DEF FilesToRead
<1>2. \A i \in 1..l : fs[i] = ReadOrder[m - l + i]
  BY DEF FilesToRead
<1>3. ASSUME NEW i \in 1..(l - 1) PROVE Tail(fs)[i] = ReadOrder[m - (l - 1) + i]
  <2>1. i + 1 \in 1..l /\ m - l + (i + 1) = m - (l - 1) + i
    BY <1>1
  <2> QED BY <1>1, <1>2, <2>1
<1> QED BY <1>1, <1>3 DEF FilesToRead

\* The next file is opened, or there is none.
LEMMA NextOpens ==
    ASSUME TextOK, NEW k, NEW fs, FilesToRead(fs), fs # <<>>, NEW v \in Seq(Value),
           Holds(k, <<>>, fs, v)
    PROVE  /\ text[Head(fs)] = Missing => Holds(k, <<>>, Tail(fs), v)
           /\ text[Head(fs)] # Missing => Holds(k, <<Reader(Head(fs))>>, Tail(fs), v)
<1> DEFINE m == Len(ReadOrder)
           l == Len(fs)
           path == Head(fs)
           f == FilesInTurn(k)[m - l + 1]
           g == FilesInTurn(k)[m - l + 2]
           e == FileEffects(k)[MaxOpen][path]
<1>1. /\ l \in Nat \ {0} /\ m \in Nat /\ l <= m
      /\ path = fs[1] /\ path \in Paths /\ Len(Tail(fs)) = l - 1
      /\ Tail(fs) \in Seq(Paths) /\ \A i \in 1..(l - 1) : Tail(fs)[i] = fs[i + 1]
  BY ReadOrderType, LenProperties, HeadTailProperties, EmptySeq DEF FilesToRead
<1>2. \A i \in 1..l : fs[i] = ReadOrder[m - l + i]
  BY DEF FilesToRead
<1>4. m - l + 1 \in 1..m /\ (m - l + 1) + 1 = m - l + 2 /\ m - l + 2 \in 1..(m + 1) /\ 1 \in 1..l
  BY <1>1
<1>5. path = ReadOrder[m - l + 1]
  BY <1>1, <1>2, <1>4
<1>6. f = Then(Ended(e), g) /\ g \in Effect
  BY <1>4, <1>5, FilesInTurnIs
<1>7. e \in Effect
  <2>1. MaxOpen \in 0..MaxOpen
    BY UnitFileAssumption
  <2> QED BY <1>1, <2>1, FileEffectsIs
<1> DEFINE none == [j \in 0..0 |-> Nothing]
<1>8. PICK rest : Stacked(k, <<>>, rest) /\ Applied(v, Left(k, <<>>, fs, rest)) = FilesInTurn(k)[1].adds
  BY DEF Holds
<1>9. Len(<<>>) = 0 /\ rest[0] = Nothing
  BY <1>8 DEF Stacked
<1>10. Left(k, <<>>, fs, rest) = Then(Ended(e), g)
  <2>1. Left(k, <<>>, fs, rest) = Then(Ended(Nothing), f)
    BY <1>9 DEF Left
  <2>2. f \in Effect /\ Ended(Nothing) = Nothing
    BY <1>6, <1>7, NothingType, ThenType, EndedThen
  <2> QED BY <1>6, <2>1, <2>2, ThenNothing
<1>11. ASSUME NEW rs, NEW more PROVE Left(k, rs, Tail(fs), more) = Then(Ended(more[Len(rs)]), g)
  <2>1. m - (l - 1) + 1 = m - l + 2
    BY <1>1
  <2> QED BY <1>1, <2>1 DEF Left
<1>12. ASSUME text[path] = Missing PROVE Holds(k, <<>>, Tail(fs), v)
  <2>1. e = Failure
    <3>1. MaxOpen \in 1..MaxOpen
      BY UnitFileAssumption
    <3> QED BY <1>1, <1>12, <3>1, FileEffectsIs
  <2>2. Ended(e) = Ended(Nothing)
    BY <2>1, NothingType, EndedThen
  <2>3. Left(k, <<>>, Tail(fs), rest) = Left(k, <<>>, fs, rest)
    BY <1>9, <1>10, <1>11, <2>2
  <2> QED BY <1>8, <2>3, HoldsFor
<1>13. ASSUME text[path] # Missing PROVE Holds(k, <<Reader(path)>>, Tail(fs), v)
  <2> DEFINE r == Reader(path)
             two == <<r>>
  <2>1. r \in ReaderType /\ RestEffect(k, r, MaxOpen) = e
    <3>1. MaxOpen \in 1..MaxOpen
      BY UnitFileAssumption
    <3> QED BY <1>1, <1>13, <3>1, ReaderIs
  <2>2. <<>> \in Seq(ReaderType) /\ Append(<<>>, r) = two /\ Len(two) = 1 /\ MaxOpen - 0 = MaxOpen
    BY UnitFileAssumption
  <2> HIDE DEF r, e
  <2>3. PICK more : Stacked(k, two, more) /\ more[1] = Then(e, rest[0])
    <3>1. RestEffect(k, r, MaxOpen - Len(<<>>)) = e
      BY <1>9, <2>1, <2>2
    <3>2. \E more : Stacked(k, Append(<<>>, r), more)
                    /\ more[Len(<<>>) + 1] = Then(RestEffect(k, r, MaxOpen - Len(<<>>)), rest[Len(<<>>)])
      BY <1>7, <1>8, <2>1, <2>2, <3>1, StackedMore
    <3> QED BY <1>9, <2>2, <3>1, <3>2
  <2>4. more[1] = e
    BY <1>7, <1>9, <2>3, ThenNothing
  <2> HIDE DEF two
  <2>5. Left(k, two, Tail(fs), more) = Left(k, <<>>, fs, rest)
    BY <1>10, <1>11, <2>2, <2>4
  <2>6. Holds(k, two, Tail(fs), v)
    BY <1>8, <2>3, <2>5, HoldsFor
  <2> QED BY <2>6 DEF two, r
<1> QED BY <1>1, <1>12, <1>13

\* The files stay as they are.
LEMMA FileInvNext ==
    ASSUME FileInv, UNCHANGED fileInput, conf' \in [Keys -> Seq(Value)], ReadersOK(readers'), FilesToRead(todo'),
           \A k \in Keys : Holds(k, readers', todo', conf'[k])
    PROVE  FileInv'
<1>1. TextOK' /\ masked' \in BOOLEAN
  BY DEF FileInv, TextOK, fileInput
<1>2. text' = text /\ masked' = masked
  BY DEF fileInput
<1>3. ReadersOK(readers)'
  <2>1. ASSUME NEW j \in 1..Len(readers') PROVE (AtPlace(readers[j]))'
    <3>1. AtPlace(readers'[j])
      BY DEF ReadersOK
    <3>2. Start(readers[j].path)' = Start(readers'[j].path)
      BY <1>2 DEF Start
    <3>3. /\ SectionAt(readers[j].path, readers[j].next)' = SectionAt(readers'[j].path, readers'[j].next)
          /\ SectionAt(readers[j].path, readers[j].from)' = SectionAt(readers'[j].path, readers'[j].from)
      BY <1>2 DEF SectionAt, OwnLine, Start
    <3>4. OwnLine(readers[j].path, readers[j].from)' = OwnLine(readers'[j].path, readers'[j].from)
      BY <1>2 DEF OwnLine, Start
    <3> QED BY <1>2, <3>1, <3>2, <3>3, <3>4 DEF AtPlace
  <2> QED BY <2>1 DEF ReadersOK
<1>4. FilesToRead(todo)'
  <2>1. ReadOrder' = ReadOrder
    BY <1>2 DEF ReadOrder, DropInFile
  <2> QED BY <2>1 DEF FilesToRead
<1>5. ASSUME NEW k \in Keys PROVE Holds(k, readers, todo, conf[k])'
  <2>1. FilesInTurn(k)' = FilesInTurn(k) /\ ReadOrder' = ReadOrder
    BY <1>2 DEF FilesInTurn, FileEffects, LinesInTurn, LineEffect, OwnLine, SectionAt, EndOf, Start,
                ReadOrder, DropInFile
  <2>2. ASSUME NEW j \in 1..Len(readers')
        PROVE  RestEffect(k, readers[j], MaxOpen - j + 1)' = RestEffect(k, readers'[j], MaxOpen - j + 1)
    BY <1>2 DEF RestEffect, FileEffects, LinesInTurn, LineEffect, OwnLine, SectionAt, EndOf, Start
  <2>3. PICK rest : /\ Stacked(k, readers', rest)
                    /\ Applied(conf'[k], Left(k, readers', todo', rest)) = FilesInTurn(k)[1].adds
    BY DEF Holds
  <2>4. Stacked(k, readers, rest)'
    BY <2>2, <2>3 DEF Stacked
  <2>5. Left(k, readers, todo, rest)' = Left(k, readers', todo', rest)
    BY <2>1 DEF Left
  <2>6. Applied(conf[k], Left(k, readers, todo, rest))' = FilesInTurn(k)'[1].adds
    BY <2>1, <2>3, <2>5 DEF Applied
  <2> QED BY <2>4, <2>6 DEF Holds
<1>6. NoEmptyLineJoined'
  <2>1. \A path, i : OwnLine(path, i)' <=> OwnLine(path, i)
    BY <1>2 DEF OwnLine, Start
  <2> QED BY <1>2, <2>1 DEF FileInv, NoEmptyLineJoined
<1> QED BY <1>1, <1>3, <1>4, <1>5, <1>6 DEF FileInv

-----------------------------------------------------------------------------
(* The steps.                                                              *)

LEMMA FileInvInit == FileInit /\ NoEmptyLineJoined => FileInv
<1> SUFFICES ASSUME FileInit, NoEmptyLineJoined PROVE FileInv
  OBVIOUS
<1>1. TextOK /\ masked \in BOOLEAN
  BY UnitFileAssumption DEF FileInit, TextOK
<1>2. <<>> \in Seq(Value) /\ <<>> \in Seq(ReaderType) /\ Len(<<>>) = 0
  OBVIOUS
<1>3. conf \in [Keys -> Seq(Value)] /\ readers = <<>> /\ todo = ReadOrder
  BY <1>2 DEF FileInit
<1>4. ReadersOK(readers)
  BY <1>2, <1>3, UnitFileAssumption DEF ReadersOK
<1>5. FilesToRead(todo)
  <2>1. Len(ReadOrder) \in Nat
    BY ReadOrderType, LenProperties
  <2>2. \A i \in 1..Len(ReadOrder) : Len(ReadOrder) - Len(ReadOrder) + i = i
    BY <2>1
  <2> QED BY <1>3, <2>1, <2>2, ReadOrderType DEF FilesToRead
<1>6. ASSUME NEW k \in Keys PROVE Holds(k, readers, todo, conf[k])
  <2> DEFINE none == [j \in 0..0 |-> Nothing]
             f == FilesInTurn(k)[1]
  <2>1. Stacked(k, <<>>, none) /\ none[0] = Nothing
    BY <1>2, NothingType DEF Stacked
  <2>2. Len(ReadOrder) - Len(ReadOrder) + 1 = 1 /\ 1 \in 1..(Len(ReadOrder) + 1)
    <3>1. Len(ReadOrder) \in Nat
      BY ReadOrderType, LenProperties
    <3> QED BY <3>1
  <2>3. f \in Effect
    BY <1>1, <2>2, FilesInTurnIs
  <2> HIDE DEF none
  <2>4. Left(k, <<>>, todo, none) = f
    <3>1. Left(k, <<>>, todo, none) = Then(Ended(Nothing), f)
      BY <1>2, <1>3, <2>1, <2>2 DEF Left
    <3> HIDE DEF f
    <3> QED BY <2>3, <3>1, NothingType, EndedThen, ThenNothing
  <2>5. Applied(<<>>, f) = f.adds
    <3> HIDE DEF f
    <3>1. <<>> \o f.adds = f.adds
      BY <2>3, EffectFields, ConcatEmptySeq
    <3> QED BY <3>1 DEF Applied
  <2>6. conf[k] = <<>>
    BY DEF FileInit
  <2> QED BY <1>3, <2>1, <2>4, <2>5, <2>6, HoldsFor
<1> QED BY <1>1, <1>3, <1>4, <1>5, <1>6 DEF FileInv

\* The facts of the last reader.
LEMMA TopIs ==
    ASSUME FileInv, readers # <<>>
    PROVE  /\ readers \in Seq(ReaderType) /\ Len(readers) \in 1..MaxOpen /\ Len(readers) # 0
           /\ Innermost \in ReaderType /\ AtPlace(Innermost) /\ Innermost = readers[Len(readers)]
           /\ Outer = OuterOf(readers)
           /\ Innermost.path \in Paths /\ text[Innermost.path] \in Seq(Lines)
           /\ Len(text[Innermost.path]) \in Nat
           /\ Innermost.next \in 1..(Len(text[Innermost.path]) + 1)
           /\ Innermost.section \in Sections /\ Innermost.from \in Nat
<1>1. readers \in Seq(ReaderType) /\ Len(readers) <= MaxOpen /\ \A j \in 1..Len(readers) : AtPlace(readers[j])
  BY DEF FileInv, ReadersOK
<1>2. Len(readers) \in Nat \ {0}
  BY <1>1, LenProperties, EmptySeq
<1>3. Len(readers) \in 1..MaxOpen /\ Len(readers) \in 1..Len(readers)
  BY <1>1, <1>2, UnitFileAssumption
<1>4. Innermost \in ReaderType /\ AtPlace(Innermost)
  BY <1>1, <1>3, ElementOfSeq DEF Innermost
<1>5. /\ Innermost.path \in Paths /\ Innermost.next \in Nat \ {0}
      /\ Innermost.section \in Sections /\ Innermost.from \in Nat
  BY <1>4 DEF ReaderType
<1>6. text[Innermost.path] \in Seq(Lines) /\ Innermost.next <= Len(text[Innermost.path]) + 1
  BY <1>4 DEF AtPlace
<1>7. Innermost.next \in 1..(Len(text[Innermost.path]) + 1) /\ Len(text[Innermost.path]) \in Nat
  BY <1>5, <1>6, LenProperties
<1> QED BY <1>1, <1>2, <1>3, <1>4, <1>5, <1>6, <1>7 DEF Innermost, Outer, OuterOf

\* The reader after a line.
LEMMA NextPlace ==
    ASSUME TextOK, NEW r \in ReaderType, AtPlace(r), r.next <= Len(text[r.path]),
           NEW q \in ReaderType, q.path = r.path, q.next = r.next + 1,
           NEW line, line = text[r.path][r.next],
           q.section = IF r.from = 0 /\ line.kind = "header" THEN line.section ELSE r.section,
           q.from = NextStart(line, r.next, r.from),
           q.from > 0 => q.option = IF r.from > 0 THEN r.option ELSE line.option
    PROVE  AtPlace(q)
<1> DEFINE p == r.path
           i == r.next
           n == Len(text[p])
<1>1. i \in Nat \ {0} /\ r.from \in Nat /\ q.from \in Nat /\ p \in Paths
  BY DEF ReaderType
<1>2. /\ text[p] # Missing /\ text[p] \in Seq(Lines) /\ n \in Nat /\ i \in 1..n
      /\ r.section = SectionAt(p, i) /\ Start(p)[i - 1] = r.from
  <2>1. text[p] # Missing /\ text[p] \in Seq(Lines) /\ r.section = SectionAt(p, i) /\ Start(p)[i - 1] = r.from
    BY DEF AtPlace
  <2> QED BY <1>1, <2>1, LenProperties
<1>3. r.from > 0 => /\ r.from < i /\ OwnLine(p, r.from) /\ text[p][r.from].kind = "assign"
                    /\ r.option = text[p][r.from].option /\ r.section = SectionAt(p, r.from)
                    /\ \A j \in r.from..(i - 1) : Start(p)[j] # 0
  BY DEF AtPlace
<1>4. OwnLine(p, i) <=> r.from = 0
  BY <1>2 DEF OwnLine
<1>5. Start(p)[i] = q.from
  BY <1>2, StartIs
<1>6. q.section = SectionAt(p, i + 1)
  BY <1>1, <1>2, <1>4, SectionIs
<1> HIDE DEF p, i, n
<1>7. (i + 1) - 1 = i /\ i + 1 <= n + 1
  BY <1>1, <1>2
<1>8. ASSUME q.from > 0, r.from > 0
      PROVE  /\ q.from = r.from /\ q.section = r.section
             /\ q.from < i + 1 /\ \A j \in q.from..i : Start(p)[j] # 0
  <2>1. q.from = r.from
    BY <1>8 DEF NextStart, i
  <2>2. q.section = r.section
    BY <1>8
  <2>3. q.from < i + 1
    BY <1>1, <1>3, <1>8, <2>1
  <2>4. ASSUME NEW j \in q.from..i PROVE Start(p)[j] # 0
    <3>1. CASE j = i
      BY <1>5, <1>8, <3>1
    <3>2. CASE j # i
      <4>1. j \in r.from..(i - 1)
        BY <1>1, <2>1, <3>2
      <4> QED BY <1>3, <1>8, <4>1
    <3> QED BY <3>1, <3>2
  <2> QED BY <2>1, <2>2, <2>3, <2>4
<1>9. ASSUME q.from > 0, ~ (r.from > 0)
      PROVE  /\ q.from = i /\ line.kind = "assign" /\ q.section = r.section /\ r.from = 0
             /\ q.from < i + 1 /\ \A j \in q.from..i : Start(p)[j] # 0
  <2>1. q.from = i /\ line.kind = "assign" /\ r.from = 0
    BY <1>1, <1>9 DEF NextStart, i
  <2>2. \A j \in i..i : j = i
    BY <1>1
  <2> QED BY <1>1, <1>5, <1>9, <2>1, <2>2
<1>10. ASSUME q.from > 0
       PROVE  /\ q.from < i + 1 /\ OwnLine(p, q.from) /\ text[p][q.from].kind = "assign"
              /\ q.option = text[p][q.from].option /\ q.section = SectionAt(p, q.from)
              /\ \A j \in q.from..i : Start(p)[j] # 0
  <2>1. line = text[p][i]
    BY DEF p, i
  <2>2. CASE r.from > 0
    BY <1>3, <1>8, <1>10, <2>2
  <2>3. CASE ~ (r.from > 0)
    BY <1>2, <1>4, <1>9, <1>10, <2>1, <2>3
  <2> QED BY <2>2, <2>3
<1>11. q.path = p /\ q.next = i + 1
  BY DEF p, i
<1> QED BY <1>2, <1>5, <1>6, <1>7, <1>10, <1>11 DEF AtPlace, n

\* The line whose effect a reader will have next: its next one, or the one where the
\* assignment started that goes on.
At(r) == IF r.from = 0 THEN r.next ELSE r.from

\* The reader r is at a line and q is past it; e is what the lines after it do.
Moves(k, r, q, open, included, e) ==
    /\ RestEffect(k, r, open) = Then(LineEffect(k, r.path, At(r), included), e)
    /\ RestEffect(k, q, open) = IF q.from = 0 THEN e
                                ELSE Then(LineEffect(k, r.path, q.from, included), e)

LEMMA RestMoves ==
    ASSUME TextOK, NEW k, NEW r \in ReaderType, AtPlace(r), r.next <= Len(text[r.path]),
           NEW q, q.path = r.path, q.next = r.next + 1, NEW open \in 1..MaxOpen,
           NEW included, included = FileEffects(k)[open - 1]
    PROVE  \E e \in Effect : Moves(k, r, q, open, included, e)
<1> DEFINE p == r.path
           i == r.next
           n == Len(text[p])
           lines == LinesInTurn(k, p, included)
<1>1. open - 1 \in 0..MaxOpen
  BY UnitFileAssumption
<1>2. included \in [Paths -> Effect]
  BY <1>1, FileEffectsIs
<1>3. p \in Paths /\ text[p] \in Seq(Lines) /\ n \in Nat /\ i \in 1..n /\ i + 1 \in 1..(n + 1)
  <2>1. p \in Paths /\ i \in Nat \ {0} /\ text[p] \in Seq(Lines)
    BY DEF ReaderType, AtPlace
  <2> QED BY <2>1, LenProperties
<1>4. lines[i] = Then(LineEffect(k, p, i, included), lines[i + 1]) /\ lines[i + 1] \in Effect
  <2>1. /\ lines \in [1..(n + 1) -> Effect]
        /\ \A j \in 1..n : lines[j] = Then(LineEffect(k, p, j, included), lines[j + 1])
    BY <1>2, <1>3, LinesInTurnIs
  <2> HIDE DEF lines
  <2> QED BY <1>3, <2>1
<1>5. RestEffect(k, r, open) = IF r.from = 0 THEN lines[i] ELSE Then(LineEffect(k, p, r.from, included), lines[i])
  BY DEF RestEffect
<1>6. RestEffect(k, q, open) = IF q.from = 0 THEN lines[i + 1]
                               ELSE Then(LineEffect(k, p, q.from, included), lines[i + 1])
  BY DEF RestEffect
<1>7. ASSUME r.from # 0 PROVE lines[i] = lines[i + 1]
  <2>1. LineEffect(k, p, i, included) = Nothing
    BY <1>7 DEF LineEffect, OwnLine, AtPlace
  <2> HIDE DEF lines
  <2> QED BY <1>4, <2>1, ThenNothing
<1> HIDE DEF lines
<1>8. Moves(k, r, q, open, included, lines[i + 1])
  BY <1>5, <1>6, <1>7, <1>4 DEF At, Moves
<1> QED BY <1>4, <1>8

LEMMA LineEffectIsOk ==
    ASSUME NEW k, NEW path, NEW i, NEW included, text[path][i].kind \notin {"include", "bad"}
    PROVE  LineEffect(k, path, i, included).ok
<1>1. Nothing.ok /\ Taking.ok /\ \A v : Adding(v).ok
  BY DEF Nothing, Taking, Adding
<1>2. \/ LineEffect(k, path, i, included) \in {Nothing, Taking}
      \/ \E v : LineEffect(k, path, i, included) = Adding(v)
  BY Zenon DEF LineEffect
<1> QED BY <1>1, <1>2

LEMMA AppliedNothing == ASSUME NEW v \in Seq(Value) PROVE Applied(v, Nothing) = v
<1>1. v \o <<>> = v
  BY ConcatEmptySeq
<1> QED BY <1>1 DEF Applied, Nothing

\* A step of the last reader from a line to the next one.
LEMMA LineStep ==
    ASSUME FileInv, readers # <<>>, Innermost.next <= Len(text[Innermost.path]),
           NEW q \in ReaderType, q.path = Innermost.path, q.next = Innermost.next + 1,
           q.section = IF Innermost.from = 0 /\ Line.kind = "header" THEN Line.section ELSE Innermost.section,
           q.from = NextStart(Line, Innermost.next, Innermost.from),
           q.from > 0 => q.option = IF Innermost.from > 0 THEN Innermost.option ELSE Line.option,
           Innermost.from > 0 \/ Line.kind \notin {"include", "bad"},
           readers' = Append(Outer, q), UNCHANGED <<fileInput, todo>>,
           q.from > 0 => conf' = conf,
           q.from = 0 => /\ conf' \in [Keys -> Seq(Value)]
                         /\ \A k \in Keys : \A included :
                               conf'[k] = Applied(conf[k], LineEffect(k, Innermost.path, At(Innermost), included))
    PROVE  FileInv'
<1> DEFINE r == Innermost
           n == Len(readers)
           open == MaxOpen - n + 1
<1>1. /\ readers \in Seq(ReaderType) /\ n \in 1..MaxOpen /\ n # 0 /\ n \in Nat
      /\ r \in ReaderType /\ AtPlace(r) /\ r = readers[n] /\ Outer = OuterOf(readers)
      /\ r.path \in Paths /\ text[r.path] \in Seq(Lines) /\ r.next \in Nat /\ r.from \in Nat
  <2>1. MaxOpen \in Nat
    BY UnitFileAssumption
  <2> QED BY <2>1, TopIs
<1>2. TextOK /\ ReadersOK(readers) /\ FilesToRead(todo) /\ conf \in [Keys -> Seq(Value)]
      /\ \A k \in Keys : Holds(k, readers, todo, conf[k])
  BY DEF FileInv
<1>3. AtPlace(q)
  <2>1. Line = text[r.path][r.next]
    BY DEF Line
  <2> QED BY <1>1, <1>2, <2>1, NextPlace
<1>4. open \in 1..MaxOpen
  BY <1>1, UnitFileAssumption
<1>5. conf' \in [Keys -> Seq(Value)]
  <2>1. q.from \in Nat
    BY DEF ReaderType
  <2>2. q.from = 0 \/ q.from > 0
    BY <2>1
  <2> HIDE DEF r, n, open
  <2> QED BY <1>2, <2>2, Zenon
<1>6. ReadersOK(readers')
  <2>1. Outer \in Seq(ReaderType) /\ Len(Outer) = n - 1 /\ \A j \in 1..(n - 1) : Outer[j] = readers[j]
    BY <1>1, OuterIs
  <2>2. readers' \in Seq(ReaderType) /\ Len(readers') = (n - 1) + 1 /\ readers'[(n - 1) + 1] = q
        /\ \A j \in 1..(n - 1) : readers'[j] = readers[j]
    BY <2>1, ReaderPushed
  <2>3. \A j \in 1..Len(readers') : AtPlace(readers'[j])
    <3> SUFFICES ASSUME NEW j \in 1..n PROVE AtPlace(readers'[j])
      BY <1>1, <2>2
    <3>1. CASE j = n
      <4>1. (n - 1) + 1 = n
        BY <1>1
      <4> QED BY <1>3, <2>2, <3>1, <4>1
    <3>2. CASE j # n
      <4>1. j \in 1..(n - 1)
        BY <1>1, <3>2
      <4> QED BY <1>2, <2>2, <4>1 DEF ReadersOK
    <3> QED BY <3>1, <3>2
  <2>4. Len(readers') <= MaxOpen
    BY <1>1, <2>2, UnitFileAssumption
  <2> QED BY <2>2, <2>3, <2>4 DEF ReadersOK
<1>7. ASSUME NEW k \in Keys PROVE Holds(k, readers', todo', conf'[k])
  <2> DEFINE included == FileEffects(k)[open - 1]
             x == LineEffect(k, r.path, At(r), included)
             y == IF q.from = 0 THEN x ELSE Nothing
  <2>1. PICK e \in Effect : /\ RestEffect(k, r, open) = Then(LineEffect(k, r.path, At(r), included), e)
                            /\ RestEffect(k, q, open) = IF q.from = 0 THEN e
                                                        ELSE Then(LineEffect(k, r.path, q.from, included), e)
    <3>1. included = FileEffects(k)[open - 1] /\ r.next <= Len(text[r.path]) /\ q.path = r.path /\ q.next = r.next + 1
      OBVIOUS
    <3>2. TextOK /\ r \in ReaderType /\ AtPlace(r) /\ open \in 1..MaxOpen
      BY <1>1, <1>2, <1>4
    <3> HIDE DEF included, r, open
    <3>3. PICK e \in Effect : Moves(k, r, q, open, included, e)
      BY <3>1, <3>2, RestMoves
    <3> QED BY <3>3 DEF Moves
  <2>2. x.ok
    <3>1. CASE r.from > 0
      <4>1. At(r) = r.from /\ text[r.path][r.from].kind = "assign"
        BY <1>1, <3>1 DEF At, AtPlace
      <4> QED BY <4>1, LineEffectIsOk
    <3>2. CASE ~ (r.from > 0)
      <4>1. At(r) = r.next /\ text[r.path][r.next].kind \notin {"include", "bad"}
        BY <1>1, <3>2 DEF At, Line
      <4> QED BY <4>1, LineEffectIsOk
    <3> QED BY <3>1, <3>2
  <2>3. x \in Effect
    <3>1. open - 1 \in 0..MaxOpen
      BY <1>4, UnitFileAssumption
    <3>2. included \in [Paths -> Effect]
      BY <1>2, <3>1, FileEffectsIs
    <3>3. At(r) \in 1..Len(text[r.path])
      <4>1. r.from > 0 => r.from < r.next
        BY <1>1 DEF AtPlace
      <4>2. r.next \in Nat \ {0} /\ Len(text[r.path]) \in Nat
        BY <1>1, LenProperties DEF ReaderType
      <4> QED BY <1>1, <4>1, <4>2 DEF At
    <3> QED BY <1>1, <3>2, <3>3, LineEffectType
  <2>4. q.from = 0 \/ (q.from > 0 /\ q.from = At(r))
    <3>1. q.from \in Nat
      BY DEF ReaderType
    <3>2. q.from > 0 => q.from = At(r)
      BY <1>1 DEF NextStart, At
    <3> QED BY <3>1, <3>2
  <2> HIDE DEF x, included, open, r
  <2>5. /\ y \in Effect /\ y.ok
        /\ RestEffect(k, r, open) = Then(y, RestEffect(k, q, open))
        /\ conf'[k] = Applied(conf[k], y)
    <3>1. CASE q.from = 0
      BY <2>1, <2>2, <2>3, <3>1 DEF x, r
    <3>2. CASE q.from > 0 /\ q.from = At(r)
      <4>1. y = Nothing /\ conf'[k] = conf[k] /\ conf[k] \in Seq(Value)
        BY <1>2, <3>2
      <4>2. RestEffect(k, q, open) = Then(x, e) /\ Then(x, e) \in Effect
        BY <2>1, <2>3, <3>2, ThenType DEF x
      <4>3. Nothing \in Effect /\ Nothing.ok
        BY NothingType DEF Nothing
      <4>4. RestEffect(k, r, open) = Then(x, e)
        BY <2>1 DEF x
      <4> HIDE DEF y
      <4> QED BY <4>1, <4>2, <4>3, <4>4, ThenNothing, AppliedNothing
    <3> QED BY <2>4, <3>1, <3>2
  <2> HIDE DEF y
  <2>6. conf[k] \in Seq(Value) /\ Holds(k, readers, todo, conf[k])
    BY <1>2
  <2>7. Holds(k, Append(OuterOf(readers), q), todo, Applied(conf[k], y))
    BY <1>1, <1>2, <1>3, <2>5, <2>6, TopAdvances DEF open, r
  <2>8. readers' = Append(OuterOf(readers), q) /\ todo' = todo
    BY <1>1
  <2> QED BY <2>5, <2>7, <2>8, Zenon
<1>8. FilesToRead(todo')
  BY <1>2
<1> QED BY <1>5, <1>6, <1>7, <1>8, FileInvNext

LEMMA AtLineIs ==
    ASSUME FileInv, NEW kind, AtLine(kind)
    PROVE  /\ readers # <<>> /\ Innermost.next \in 1..Len(text[Innermost.path])
           /\ Innermost.next <= Len(text[Innermost.path])
           /\ Line \in Lines /\ Line = text[Innermost.path][Innermost.next]
           /\ kind = "continued" => Innermost.from > 0
           /\ kind # "continued" => Innermost.from = 0 /\ Line.kind = kind
<1>1. readers # <<>> /\ Innermost.next <= Len(text[Innermost.path])
  BY DEF AtLine
<1>2. Innermost.next \in 1..Len(text[Innermost.path]) /\ text[Innermost.path] \in Seq(Lines) /\ Innermost.from \in Nat
  BY <1>1, TopIs
<1>3. Line = text[Innermost.path][Innermost.next] /\ Line \in Lines
  BY <1>2, ElementOfSeq DEF Line
<1>4. Line.kind # "continued"
  BY <1>3, LineFields
<1>5. kind = IF Innermost.from > 0 THEN "continued" ELSE Line.kind
  BY DEF AtLine, Line
<1>6. Innermost.from = 0 \/ Innermost.from > 0
  BY <1>2
<1> QED BY <1>1, <1>2, <1>3, <1>4, <1>5, <1>6

\* A value at the end of those there are.
LEMMA WithValueIs ==
    ASSUME FileInv, readers # <<>>, NEW o \in Options, NEW from \in Nat \ {0}, NEW to \in Nat \ {0},
           NEW v, v = [path |-> Innermost.path, from |-> from, to |-> to]
    PROVE  /\ WithValue(o, from, to) \in [Keys -> Seq(Value)]
           /\ \A k \in Keys : WithValue(o, from, to)[k]
                = Applied(conf[k], IF k = <<Innermost.section, o>> THEN Adding(v) ELSE Nothing)
<1> DEFINE key == <<Innermost.section, o>>
<1>1. v \in Value /\ key \in Keys /\ conf \in [Keys -> Seq(Value)]
  BY TopIs DEF FileInv, Value, Keys
<1>2. WithValue(o, from, to) = [conf EXCEPT ![key] = Append(conf[key], v)]
  BY DEF WithValue
<1>3. ASSUME NEW s \in Seq(Value) PROVE Append(s, v) = Applied(s, Adding(v)) /\ Append(s, v) \in Seq(Value)
  <2>1. Applied(s, Adding(v)) = s \o <<v>>
    BY DEF Applied, Adding
  <2>2. Append(s, v) = s \o <<v>> /\ Append(s, v) \in Seq(Value)
    BY <1>1, AppendIsConcat, AppendProperties
  <2> QED BY <2>1, <2>2
<1>4. conf[key] \in Seq(Value) /\ \A k \in Keys : Applied(conf[k], Nothing) = conf[k]
  BY <1>1, AppliedNothing
<1> HIDE DEF key
<1>5. Append(conf[key], v) = Applied(conf[key], Adding(v)) /\ Append(conf[key], v) \in Seq(Value)
  BY <1>3, <1>4
<1> QED BY <1>1, <1>2, <1>4, <1>5 DEF key

\* What the next line does that is a line of its own.
LEMMA OwnLineEffect ==
    ASSUME FileInv, readers # <<>>, Innermost.next \in 1..Len(text[Innermost.path]), Innermost.from = 0,
           NEW k, NEW included, NEW x, x = LineEffect(k, Innermost.path, Innermost.next, included)
    PROVE  /\ Line.kind = "include" => x = included[Line.path]
           /\ Line.kind = "bad" => x = Failure
           /\ Line.kind = "reset" => x = IF k = <<Innermost.section, Line.option>> THEN Taking ELSE Nothing
           /\ Line.kind = "assign" /\ ~ Line.joins =>
                x = IF k = <<Innermost.section, Line.option>>
                    THEN Adding([path |-> Innermost.path, from |-> Innermost.next, to |-> Innermost.next])
                    ELSE Nothing
           /\ Line.kind \notin {"include", "bad", "reset", "assign"} => x = Nothing
<1> DEFINE p == Innermost.path
           i == Innermost.next
<1>1. AtPlace(Innermost) /\ text[p] \in Seq(Lines) /\ i \in Nat
  BY TopIs
<1>2. OwnLine(p, i) /\ SectionAt(p, i) = Innermost.section
  BY <1>1 DEF AtPlace, OwnLine
<1>3. ASSUME Line.kind = "assign", ~ Line.joins PROVE EndOf(p, i) = i
  <2>1. Start(p)[i] = NextStart(Line, i, Start(p)[i - 1])
    BY <1>1, StartIs DEF Line
  <2>2. Start(p)[i - 1] = 0
    BY <1>2 DEF OwnLine
  <2>3. Start(p)[i] = 0
    BY <1>3, <2>1, <2>2 DEF NextStart
  <2>4. i \in i..Len(text[p]) /\ \A j \in i..(i - 1) : Start(p)[j] # 0
    BY <1>1
  <2> HIDE DEF p, i
  <2> QED BY <1>1, <2>3, <2>4, EndOfIs DEF p, i
<1>4. Line = text[p][i]
  BY DEF Line
<1> HIDE DEF p, i
<1> QED BY <1>2, <1>3, <1>4 DEF LineEffect, p, i

\* What an assignment does that has gone on up to the line to.
LEMMA ContinuedEffect ==
    ASSUME FileInv, readers # <<>>, Innermost.from > 0,
           NEW to \in Innermost.from..Len(text[Innermost.path]),
           \A j \in Innermost.from..(to - 1) : Start(Innermost.path)[j] # 0,
           \/ Start(Innermost.path)[to] = 0
           \/ to = Len(text[Innermost.path]) /\ Start(Innermost.path)[to] # 0,
           NEW k, NEW included,
           NEW v, v = [path |-> Innermost.path, from |-> Innermost.from, to |-> to]
    PROVE  /\ LineEffect(k, Innermost.path, Innermost.from, included)
                = IF k = <<Innermost.section, Innermost.option>> THEN Adding(v) ELSE Nothing
           /\ Innermost.option \in Options
<1> DEFINE p == Innermost.path
           i == Innermost.from
<1>1. AtPlace(Innermost) /\ text[p] \in Seq(Lines) /\ i \in Nat /\ Len(text[p]) \in Nat
  BY TopIs
<1>2. /\ OwnLine(p, i) /\ SectionAt(p, i) = Innermost.section
      /\ text[p][i].kind = "assign" /\ Innermost.option = text[p][i].option
  BY <1>1 DEF AtPlace
<1>3. i \in 1..Len(text[p])
  BY <1>1
<1>4. EndOf(p, i) = to
  <2>1. CASE Start(p)[to] = 0
    BY <1>1, <1>3, <2>1, EndOfIs
  <2>2. CASE to = Len(text[p]) /\ Start(p)[to] # 0
    <3>1. ASSUME NEW j \in i..Len(text[p]) PROVE Start(p)[j] # 0
      <4>1. j = to \/ j \in i..(to - 1)
        BY <1>1, <2>2
      <4> QED BY <2>2, <4>1
    <3> QED BY <1>1, <1>3, <2>2, <3>1, EndOfIs
  <2> QED BY <2>1, <2>2
<1>5. text[p][i].option \in Options
  BY <1>1, <1>2, <1>3, ElementOfSeq, LineFields
<1> HIDE DEF p, i
<1> QED BY <1>2, <1>4, <1>5 DEF LineEffect, p, i

\* A reader by its parts.
IsReader(q, path, next, section, option, from) ==
    /\ q \in ReaderType
    /\ q.path = path /\ q.next = next /\ q.section = section /\ q.option = option /\ q.from = from

LEMMA NextNumber == \A n \in Nat : n + 1 \in Nat \ {0}
OBVIOUS

LEMMA ReaderParts ==
    ASSUME NEW r \in ReaderType, NEW n \in Nat \ {0}
    PROVE  /\ IsReader([r EXCEPT !.next = n], r.path, n, r.section, r.option, r.from)
           /\ \A s \in Sections :
                 IsReader([[r EXCEPT !.section = s] EXCEPT !.next = n], r.path, n, s, r.option, r.from)
           /\ \A from \in Nat :
                 /\ IsReader([[r EXCEPT !.from = from] EXCEPT !.next = n], r.path, n, r.section, r.option, from)
                 /\ \A o \in Options :
                       IsReader([[r EXCEPT !.option = o, !.from = from] EXCEPT !.next = n],
                                r.path, n, r.section, o, from)
BY DEF ReaderType, IsReader

\* The reader after a line.
LEMMA PassedIs ==
    ASSUME FileInv, readers # <<>>
    PROVE  LET r == Innermost
               n == r.next + 1
           IN  /\ IsReader([r EXCEPT !.next = n], r.path, n, r.section, r.option, r.from)
               /\ \A s \in Sections :
                     IsReader([[r EXCEPT !.section = s] EXCEPT !.next = n], r.path, n, s, r.option, r.from)
               /\ \A from \in Nat :
                     /\ IsReader([[r EXCEPT !.from = from] EXCEPT !.next = n],
                                 r.path, n, r.section, r.option, from)
                     /\ \A o \in Options :
                           IsReader([[r EXCEPT !.option = o, !.from = from] EXCEPT !.next = n],
                                    r.path, n, r.section, o, from)
<1> DEFINE r == Innermost
           n == r.next + 1
<1>1. r \in ReaderType
  BY TopIs
<1>2. n \in Nat \ {0}
  <2>1. r.next \in Nat
    BY <1>1 DEF ReaderType
  <2> HIDE DEF r
  <2> QED BY <2>1, NextNumber
<1> HIDE DEF r, n
<1>3. /\ IsReader([r EXCEPT !.next = n], r.path, n, r.section, r.option, r.from)
      /\ \A s \in Sections :
            IsReader([[r EXCEPT !.section = s] EXCEPT !.next = n], r.path, n, s, r.option, r.from)
      /\ \A from \in Nat :
            /\ IsReader([[r EXCEPT !.from = from] EXCEPT !.next = n], r.path, n, r.section, r.option, from)
            /\ \A o \in Options :
                  IsReader([[r EXCEPT !.option = o, !.from = from] EXCEPT !.next = n],
                           r.path, n, r.section, o, from)
  BY <1>1, <1>2, ReaderParts
<1> QED BY <1>3, Zenon DEF r, n

\* Lines that say nothing of a value.
LEMMA QuietStep ==
    ASSUME FileInv, NEW kind \in {"blank", "comment", "unclosed", "header"}, AtLine(kind), NEW q,
           IsReader(q, Innermost.path, Innermost.next + 1,
                    IF Line.kind = "header" THEN Line.section ELSE Innermost.section,
                    Innermost.option, Innermost.from),
           readers' = Append(Outer, q), UNCHANGED <<fileInput, todo, conf>>
    PROVE  FileInv'
<1>1. /\ readers # <<>> /\ Innermost.next \in 1..Len(text[Innermost.path])
      /\ Innermost.next <= Len(text[Innermost.path]) /\ Innermost.from = 0 /\ Line.kind = kind /\ Line \in Lines
  BY AtLineIs
<1>3. /\ q \in ReaderType /\ q.path = Innermost.path /\ q.next = Innermost.next + 1
      /\ q.section = IF Line.kind = "header" THEN Line.section ELSE Innermost.section
      /\ q.from = 0
  BY <1>1 DEF IsReader
<1>4. NextStart(Line, Innermost.next, Innermost.from) = 0
  BY <1>1 DEF NextStart
<1>5. At(Innermost) = Innermost.next
  BY <1>1 DEF At
<1>6. conf' = conf /\ conf \in [Keys -> Seq(Value)]
  BY DEF FileInv
<1>7. ASSUME NEW k \in Keys, NEW included
      PROVE  conf'[k] = Applied(conf[k], LineEffect(k, Innermost.path, At(Innermost), included))
  <2>1. Line.kind \notin {"include", "bad", "reset", "assign"}
    BY <1>1
  <2>2. LineEffect(k, Innermost.path, Innermost.next, included) = Nothing
    BY <1>1, <2>1, OwnLineEffect
  <2>3. conf[k] \in Seq(Value)
    BY <1>6
  <2> QED BY <1>5, <1>6, <2>2, <2>3, AppliedNothing
<1>8. Line.kind \notin {"include", "bad"}
  BY <1>1
<1>9. ~ (q.from > 0)
  BY <1>3
<1>10. q.section = IF Innermost.from = 0 /\ Line.kind = "header" THEN Line.section ELSE Innermost.section
  BY <1>1, <1>3
<1> QED BY <1>1, <1>3, <1>4, <1>6, <1>7, <1>8, <1>9, <1>10, LineStep

LEMMA PassOverKeeps == ASSUME FileInv, PassOver PROVE FileInv'
<1>1. PICK kind \in {"blank", "comment", "unclosed"} : AtLine(kind)
  BY DEF PassOver
<1>2. readers # <<>> /\ Line.kind = kind
  BY <1>1, AtLineIs
<1> DEFINE q == [Innermost EXCEPT !.next = Innermost.next + 1]
<1>3. IsReader(q, Innermost.path, Innermost.next + 1, Innermost.section, Innermost.option, Innermost.from)
  BY <1>2, PassedIs
<1>4. readers' = Append(Outer, q) /\ UNCHANGED <<fileInput, todo, conf>>
  BY DEF PassOver, Passed
<1> HIDE DEF q
<1>5. (IF Line.kind = "header" THEN Line.section ELSE Innermost.section) = Innermost.section
  BY <1>1, <1>2
<1> QED BY <1>1, <1>3, <1>4, <1>5, QuietStep

LEMMA EnterSectionKeeps == ASSUME FileInv, EnterSection PROVE FileInv'
<1>1. AtLine("header")
  BY DEF EnterSection
<1>2. readers # <<>> /\ Line.kind = "header" /\ Line.section \in Sections
  BY <1>1, AtLineIs, LineFields
<1> DEFINE q == [[Innermost EXCEPT !.section = Line.section] EXCEPT !.next = Innermost.next + 1]
<1>3. IsReader(q, Innermost.path, Innermost.next + 1, Line.section, Innermost.option, Innermost.from)
  BY <1>2, PassedIs
<1>4. readers' = Append(Outer, q) /\ UNCHANGED <<fileInput, todo, conf>>
  BY DEF EnterSection, Passed
<1> HIDE DEF q
<1>5. (IF Line.kind = "header" THEN Line.section ELSE Innermost.section) = Line.section
  BY <1>2
<1> QED BY <1>1, <1>3, <1>4, <1>5, QuietStep

LEMMA ReadResetKeeps == ASSUME FileInv, ReadReset PROVE FileInv'
<1>1. /\ readers # <<>> /\ Innermost.next \in 1..Len(text[Innermost.path])
      /\ Innermost.next <= Len(text[Innermost.path]) /\ Innermost.from = 0 /\ Line.kind = "reset" /\ Line \in Lines
  <2>1. AtLine("reset")
    BY DEF ReadReset
  <2> QED BY <2>1, AtLineIs
<1> DEFINE q == [Innermost EXCEPT !.next = Innermost.next + 1]
           key == <<Innermost.section, Line.option>>
<1>2. /\ q \in ReaderType /\ q.path = Innermost.path /\ q.next = Innermost.next + 1
      /\ q.section = Innermost.section /\ q.from = 0
  <2>1. IsReader(q, Innermost.path, Innermost.next + 1, Innermost.section, Innermost.option, Innermost.from)
    BY <1>1, PassedIs
  <2> HIDE DEF q
  <2> QED BY <1>1, <2>1 DEF IsReader
<1>3. NextStart(Line, Innermost.next, Innermost.from) = 0
  BY <1>1 DEF NextStart
<1>4. At(Innermost) = Innermost.next /\ ~ (q.from > 0)
  BY <1>1, <1>2 DEF At
<1>5. /\ readers' = Append(Outer, q) /\ UNCHANGED <<fileInput, todo>>
      /\ conf' = [conf EXCEPT ![key] = <<>>] /\ conf \in [Keys -> Seq(Value)]
  BY DEF ReadReset, Passed, FileInv
<1>6. conf' \in [Keys -> Seq(Value)]
  <2>1. <<>> \in Seq(Value)
    OBVIOUS
  <2> HIDE DEF key
  <2> QED BY <1>5, <2>1
<1>7. ASSUME NEW k \in Keys, NEW included
      PROVE  conf'[k] = Applied(conf[k], LineEffect(k, Innermost.path, At(Innermost), included))
  <2>1. LineEffect(k, Innermost.path, Innermost.next, included) = IF k = key THEN Taking ELSE Nothing
    BY <1>1, OwnLineEffect
  <2>2. conf[k] \in Seq(Value) /\ conf'[k] = IF k = key THEN <<>> ELSE conf[k]
    <3> HIDE DEF key
    <3> QED BY <1>5
  <2>3. Applied(conf[k], Taking) = <<>> /\ Applied(conf[k], Nothing) = conf[k]
    BY <2>2, AppliedNothing DEF Applied, Taking
  <2> HIDE DEF key
  <2> QED BY <1>4, <2>1, <2>2, <2>3
<1>8. /\ Line.kind \notin {"include", "bad"}
      /\ q.section = IF Innermost.from = 0 /\ Line.kind = "header" THEN Line.section ELSE Innermost.section
  BY <1>1, <1>2
<1> HIDE DEF q, key
<1> QED BY <1>1, <1>2, <1>3, <1>4, <1>5, <1>6, <1>7, <1>8, LineStep

LEMMA ReadAssignKeeps == ASSUME FileInv, ReadAssign PROVE FileInv'
<1>1. /\ readers # <<>> /\ Innermost.next \in 1..Len(text[Innermost.path])
      /\ Innermost.next <= Len(text[Innermost.path]) /\ Innermost.from = 0 /\ Line.kind = "assign" /\ Line \in Lines
      /\ Line.option \in Options /\ Innermost.section \in Sections /\ Innermost.next \in Nat \ {0}
  <2>1. AtLine("assign")
    BY DEF ReadAssign
  <2>2. /\ readers # <<>> /\ Innermost.next \in 1..Len(text[Innermost.path])
        /\ Innermost.next <= Len(text[Innermost.path]) /\ Innermost.from = 0 /\ Line.kind = "assign" /\ Line \in Lines
    BY <2>1, AtLineIs
  <2>3. Line.option \in Options
    BY <2>2, LineFields
  <2>4. Innermost.section \in Sections /\ Innermost.next \in Nat \ {0}
    BY <2>2, TopIs
  <2> QED BY <2>2, <2>3, <2>4
<1>2. UNCHANGED <<fileInput, todo>> /\ conf \in [Keys -> Seq(Value)]
  BY DEF ReadAssign, FileInv
<1>3. /\ Line.kind \notin {"include", "bad"} /\ ~ (Innermost.from > 0)
      /\ Innermost.section = IF Innermost.from = 0 /\ Line.kind = "header" THEN Line.section ELSE Innermost.section
  BY <1>1
<1>4. CASE Line.joins
  <2> DEFINE q == [[Innermost EXCEPT !.option = Line.option, !.from = Innermost.next]
                     EXCEPT !.next = Innermost.next + 1]
  <2>1. /\ q \in ReaderType /\ q.path = Innermost.path /\ q.next = Innermost.next + 1
        /\ q.section = Innermost.section /\ q.from = Innermost.next /\ q.option = Line.option
    <3>1. IsReader(q, Innermost.path, Innermost.next + 1, Innermost.section, Line.option, Innermost.next)
      BY <1>1, <1>3, PassedIs
    <3> HIDE DEF q
    <3> QED BY <1>1, <3>1 DEF IsReader
  <2>2. NextStart(Line, Innermost.next, Innermost.from) = Innermost.next
    BY <1>1, <1>4 DEF NextStart
  <2>3. readers' = Append(Outer, q) /\ conf' = conf
    BY <1>4 DEF ReadAssign, Passed
  <2>4. q.from # 0
    BY <1>1, <2>1
  <2> HIDE DEF q
  <2> QED BY <1>1, <1>2, <1>3, <2>1, <2>2, <2>3, <2>4, LineStep
<1>5. CASE ~ Line.joins
  <2> DEFINE q == [Innermost EXCEPT !.next = Innermost.next + 1]
             v == [path |-> Innermost.path, from |-> Innermost.next, to |-> Innermost.next]
  <2>1. /\ q \in ReaderType /\ q.path = Innermost.path /\ q.next = Innermost.next + 1
        /\ q.section = Innermost.section /\ q.from = 0
    <3>1. IsReader(q, Innermost.path, Innermost.next + 1, Innermost.section, Innermost.option, Innermost.from)
      BY <1>1, <1>3, PassedIs
    <3> HIDE DEF q
    <3> QED BY <1>1, <3>1 DEF IsReader
  <2>2. NextStart(Line, Innermost.next, Innermost.from) = 0
    BY <1>1, <1>5 DEF NextStart
  <2>3. readers' = Append(Outer, q) /\ conf' = WithValue(Line.option, Innermost.next, Innermost.next)
    BY <1>5 DEF ReadAssign, Passed
  <2>4. At(Innermost) = Innermost.next /\ ~ (q.from > 0)
    BY <1>1, <2>1 DEF At
  <2> HIDE DEF q
  <2>5. /\ conf' \in [Keys -> Seq(Value)]
        /\ \A k \in Keys : conf'[k]
             = Applied(conf[k], IF k = <<Innermost.section, Line.option>> THEN Adding(v) ELSE Nothing)
    <3> HIDE DEF v
    <3>1. v = [path |-> Innermost.path, from |-> Innermost.next, to |-> Innermost.next]
      BY DEF v
    <3> QED BY <1>1, <2>3, <3>1, WithValueIs
  <2>6. ASSUME NEW k, NEW included
        PROVE  LineEffect(k, Innermost.path, At(Innermost), included)
                 = IF k = <<Innermost.section, Line.option>> THEN Adding(v) ELSE Nothing
    <3>1. LineEffect(k, Innermost.path, Innermost.next, included)
            = IF k = <<Innermost.section, Line.option>> THEN Adding(v) ELSE Nothing
      BY <1>1, <1>5, OwnLineEffect
    <3> QED BY <2>4, <3>1, Zenon
  <2> HIDE DEF v
  <2>7. \A k \in Keys : \A included :
           conf'[k] = Applied(conf[k], LineEffect(k, Innermost.path, At(Innermost), included))
    BY <2>5, <2>6
  <2> QED BY <1>1, <1>2, <1>3, <2>1, <2>2, <2>3, <2>4, <2>5, <2>7, LineStep
<1> QED BY <1>4, <1>5

LEMMA ReadContinuedKeeps == ASSUME FileInv, ReadContinued PROVE FileInv'
<1>1. /\ readers # <<>> /\ Innermost.next \in 1..Len(text[Innermost.path])
      /\ Innermost.next <= Len(text[Innermost.path]) /\ Innermost.from > 0 /\ Line \in Lines
      /\ Line = text[Innermost.path][Innermost.next]
  <2>1. AtLine("continued")
    BY DEF ReadContinued
  <2> QED BY <2>1, AtLineIs
<1>2. UNCHANGED <<fileInput, todo>> /\ conf \in [Keys -> Seq(Value)]
  BY DEF ReadContinued, FileInv
<1>3. /\ Innermost.from \in Nat \ {0} /\ Innermost.next \in Nat \ {0} /\ Innermost.section \in Sections
      /\ AtPlace(Innermost) /\ text[Innermost.path] \in Seq(Lines)
      /\ Innermost.from # 0
  <2>1. Innermost.from \in Nat
    BY <1>1, TopIs
  <2> QED BY <1>1, <2>1, TopIs
<1>4. Innermost.section = IF Innermost.from = 0 /\ Line.kind = "header" THEN Line.section ELSE Innermost.section
  BY <1>3
<1>0. Line.kind # "blank"
  <2>1. Start(Innermost.path)[Innermost.next - 1] # 0 /\ Innermost.path \in Paths
    BY <1>1, <1>3, TopIs DEF AtPlace
  <2>2. text[Innermost.path] # Missing /\ Innermost.next \in DOMAIN text[Innermost.path]
    BY <1>1, <1>3, LenProperties DEF AtPlace
  <2> QED BY <1>1, <2>1, <2>2 DEF FileInv, NoEmptyLineJoined, OwnLine
<1>5. CASE Line.joins
  <2> DEFINE q == [Innermost EXCEPT !.next = Innermost.next + 1]
  <2>1. /\ q \in ReaderType /\ q.path = Innermost.path /\ q.next = Innermost.next + 1
        /\ q.section = Innermost.section /\ q.from = Innermost.from /\ q.option = Innermost.option
    <3>1. IsReader(q, Innermost.path, Innermost.next + 1, Innermost.section, Innermost.option, Innermost.from)
      BY <1>1, <1>3, PassedIs
    <3> HIDE DEF q
    <3> QED BY <1>1, <3>1 DEF IsReader
  <2>2. NextStart(Line, Innermost.next, Innermost.from) = Innermost.from
    BY <1>1, <1>5 DEF NextStart
  <2>3. readers' = Append(Outer, q) /\ conf' = conf
    BY <1>0, <1>5 DEF ReadContinued, Passed
  <2>4. q.from # 0
    BY <1>3, <2>1
  <2> HIDE DEF q
  <2> QED BY <1>1, <1>2, <1>4, <2>1, <2>2, <2>3, <2>4, LineStep
<1>6. CASE ~ Line.joins
  <2> DEFINE q == [[Innermost EXCEPT !.from = 0] EXCEPT !.next = Innermost.next + 1]
             v == [path |-> Innermost.path, from |-> Innermost.from, to |-> Innermost.next]
  <2>1. /\ q \in ReaderType /\ q.path = Innermost.path /\ q.next = Innermost.next + 1
        /\ q.section = Innermost.section /\ q.from = 0
    <3>1. IsReader(q, Innermost.path, Innermost.next + 1, Innermost.section, Innermost.option, 0)
      BY <1>1, <1>3, PassedIs
    <3> HIDE DEF q
    <3> QED BY <1>1, <3>1 DEF IsReader
  <2>2. NextStart(Line, Innermost.next, Innermost.from) = 0
    BY <1>1, <1>6 DEF NextStart
  <2>3. readers' = Append(Outer, q) /\ conf' = WithValue(Innermost.option, Innermost.from, Innermost.next)
    BY <1>0, <1>6 DEF ReadContinued, Passed
  <2>4. At(Innermost) = Innermost.from /\ ~ (q.from > 0)
    BY <1>3, <2>1 DEF At
  <2> HIDE DEF q
  <2>5. ASSUME NEW k, NEW included
        PROVE  /\ LineEffect(k, Innermost.path, At(Innermost), included)
                    = IF k = <<Innermost.section, Innermost.option>> THEN Adding(v) ELSE Nothing
               /\ Innermost.option \in Options
    <3> DEFINE p == Innermost.path
    <3>1. Start(p)[Innermost.next] = 0
      <4>1. Start(p)[Innermost.next] = NextStart(Line, Innermost.next, Start(p)[Innermost.next - 1])
        BY <1>1, <1>3, StartIs
      <4>2. Start(p)[Innermost.next - 1] = Innermost.from
        BY <1>3 DEF AtPlace
      <4> QED BY <2>2, <4>1, <4>2
    <3>2. /\ Innermost.from < Innermost.next
          /\ \A j \in Innermost.from..(Innermost.next - 1) : Start(p)[j] # 0
      BY <1>1, <1>3 DEF AtPlace
    <3>3. Innermost.next \in Innermost.from..Len(text[p])
      <4>1. Len(text[p]) \in Nat
        BY <1>3, LenProperties
      <4> QED BY <1>1, <1>3, <3>2, <4>1
    <3>4. /\ LineEffect(k, p, Innermost.from, included)
               = IF k = <<Innermost.section, Innermost.option>> THEN Adding(v) ELSE Nothing
          /\ Innermost.option \in Options
      BY <1>1, <3>1, <3>2, <3>3, ContinuedEffect
    <3> QED BY <2>4, <3>4, Zenon
  <2>6. /\ conf' \in [Keys -> Seq(Value)]
        /\ \A k \in Keys : conf'[k]
             = Applied(conf[k], IF k = <<Innermost.section, Innermost.option>> THEN Adding(v) ELSE Nothing)
    <3>1. v = [path |-> Innermost.path, from |-> Innermost.from, to |-> Innermost.next]
      BY DEF v
    <3>2. Innermost.option \in Options
      BY <2>5
    <3> HIDE DEF v
    <3> QED BY <1>1, <1>3, <2>3, <3>1, <3>2, WithValueIs
  <2> HIDE DEF v
  <2>7. \A k \in Keys : \A included :
           conf'[k] = Applied(conf[k], LineEffect(k, Innermost.path, At(Innermost), included))
    BY <2>5, <2>6
  <2> QED BY <1>1, <1>2, <1>4, <2>1, <2>2, <2>3, <2>4, <2>6, <2>7, LineStep
<1> QED BY <1>5, <1>6

LEMMA OuterOK ==
    ASSUME NEW rs, ReadersOK(rs), Len(rs) # 0
    PROVE  /\ ReadersOK(OuterOf(rs)) /\ Len(OuterOf(rs)) = Len(rs) - 1
           /\ Len(rs) - 1 < MaxOpen /\ Len(rs) - 1 \in Nat
<1>1. /\ rs \in Seq(ReaderType) /\ Len(rs) <= MaxOpen /\ \A j \in 1..Len(rs) : AtPlace(rs[j])
  BY DEF ReadersOK
<1>2. /\ Len(rs) \in Nat \ {0} /\ OuterOf(rs) \in Seq(ReaderType) /\ Len(OuterOf(rs)) = Len(rs) - 1
      /\ \A j \in 1..(Len(rs) - 1) : OuterOf(rs)[j] = rs[j]
  BY <1>1, OuterIs
<1>3. Len(rs) - 1 \in Nat /\ Len(rs) - 1 < MaxOpen /\ \A j \in 1..(Len(rs) - 1) : j \in 1..Len(rs)
  BY <1>1, <1>2, UnitFileAssumption
<1>4. Len(rs) - 1 <= MaxOpen
  BY <1>3, UnitFileAssumption
<1>5. \A j \in 1..Len(OuterOf(rs)) : AtPlace(OuterOf(rs)[j])
  BY <1>1, <1>2, <1>3
<1> QED BY <1>2, <1>3, <1>4, <1>5 DEF ReadersOK

LEMMA PushedOK ==
    ASSUME NEW rs, ReadersOK(rs), Len(rs) < MaxOpen, NEW q \in ReaderType, AtPlace(q)
    PROVE  ReadersOK(Append(rs, q)) /\ Len(Append(rs, q)) = Len(rs) + 1
<1>1. /\ rs \in Seq(ReaderType) /\ Len(rs) \in Nat /\ \A j \in 1..Len(rs) : AtPlace(rs[j])
  BY LenProperties DEF ReadersOK
<1>2. /\ Append(rs, q) \in Seq(ReaderType) /\ Len(Append(rs, q)) = Len(rs) + 1
      /\ Append(rs, q)[Len(rs) + 1] = q /\ \A j \in 1..Len(rs) : Append(rs, q)[j] = rs[j]
  BY <1>1, ReaderPushed
<1>3. Len(rs) + 1 <= MaxOpen /\ \A j \in 1..(Len(rs) + 1) : j = Len(rs) + 1 \/ j \in 1..Len(rs)
  BY <1>1, UnitFileAssumption
<1>4. \A j \in 1..Len(Append(rs, q)) : AtPlace(Append(rs, q)[j])
  BY <1>1, <1>2, <1>3
<1> QED BY <1>2, <1>3, <1>4 DEF ReadersOK

LEMMA NoneOK == ReadersOK(<<>>)
BY UnitFileAssumption DEF ReadersOK

\* All the readers have ended with an error.
LEMMA FailedStep ==
    ASSUME FileInv, readers # <<>>, readers' = <<>>, UNCHANGED <<fileInput, todo, conf>>,
           \A k \in Keys : RestEffect(k, readers[Len(readers)], MaxOpen - Len(readers) + 1) = Failure
    PROVE  FileInv'
<1>1. /\ TextOK /\ ReadersOK(readers) /\ FilesToRead(todo) /\ conf \in [Keys -> Seq(Value)]
      /\ \A k \in Keys : Holds(k, readers, todo, conf[k])
  BY DEF FileInv
<1>2. Len(readers) # 0
  BY TopIs
<1>3. ASSUME NEW k \in Keys PROVE Holds(k, readers', todo', conf'[k])
  <2>1. conf[k] \in Seq(Value)
    BY <1>1
  <2>2. Holds(k, <<>>, todo, conf[k])
    BY <1>1, <1>2, <2>1, TopFails
  <2> QED BY <2>2, Zenon
<1>4. ReadersOK(readers') /\ FilesToRead(todo') /\ conf' \in [Keys -> Seq(Value)]
  BY <1>1, NoneOK
<1> QED BY <1>3, <1>4, FileInvNext

\* What the last reader will do, from a line of its own on.
LEMMA RestIs ==
    ASSUME FileInv, readers # <<>>, Innermost.next \in 1..Len(text[Innermost.path]), Innermost.from = 0,
           NEW k, NEW q, q.path = Innermost.path, q.next = Innermost.next + 1, q.from = 0,
           NEW open, open = MaxOpen - Len(readers) + 1
    PROVE  /\ RestEffect(k, readers[Len(readers)], open)
                = Then(LineEffect(k, Innermost.path, Innermost.next, FileEffects(k)[open - 1]),
                       RestEffect(k, q, open))
           /\ open \in 1..MaxOpen /\ open - 1 = MaxOpen - Len(readers)
<1> DEFINE r == Innermost
           included == FileEffects(k)[open - 1]
<1>1. /\ TextOK /\ r \in ReaderType /\ AtPlace(r) /\ r = readers[Len(readers)] /\ Len(readers) \in 1..MaxOpen
      /\ r.next <= Len(text[r.path])
  <2>1. Len(text[r.path]) \in Nat
    BY TopIs
  <2> QED BY <2>1, TopIs DEF FileInv
<1>2. open \in 1..MaxOpen /\ open - 1 = MaxOpen - Len(readers)
  BY <1>1, UnitFileAssumption
<1>3. PICK e \in Effect : Moves(k, r, q, open, included, e)
  <2>1. included = FileEffects(k)[open - 1]
    OBVIOUS
  <2> HIDE DEF included, r
  <2> QED BY <1>1, <1>2, <2>1, RestMoves DEF r
<1>4. At(r) = r.next
  BY DEF At
<1> QED BY <1>1, <1>2, <1>3, <1>4 DEF Moves

LEMMA ReadBadKeeps == ASSUME FileInv, ReadBad PROVE FileInv'
<1>1. /\ readers # <<>> /\ Innermost.next \in 1..Len(text[Innermost.path])
      /\ Innermost.from = 0 /\ Line.kind = "bad"
  <2>1. AtLine("bad")
    BY DEF ReadBad
  <2> QED BY <2>1, AtLineIs
<1> DEFINE q == [Innermost EXCEPT !.next = Innermost.next + 1]
           open == MaxOpen - Len(readers) + 1
<1>2. q.path = Innermost.path /\ q.next = Innermost.next + 1 /\ q.from = 0
  BY <1>1, PassedIs DEF IsReader
<1>3. ASSUME NEW k \in Keys PROVE RestEffect(k, readers[Len(readers)], open) = Failure
  <2> DEFINE x == LineEffect(k, Innermost.path, Innermost.next, FileEffects(k)[open - 1])
  <2>1. x = Failure
    BY <1>1, OwnLineEffect
  <2> HIDE DEF q
  <2>2. RestEffect(k, readers[Len(readers)], open) = Then(x, RestEffect(k, q, open))
    BY <1>1, <1>2, RestIs
  <2> HIDE DEF x, open
  <2> QED BY <2>1, <2>2 DEF Then, Failure
<1>4. readers' = <<>> /\ UNCHANGED <<fileInput, todo, conf>>
  BY DEF ReadBad
<1> QED BY <1>1, <1>3, <1>4, FailedStep

LEMMA ReadIncludeKeeps == ASSUME FileInv, ReadInclude PROVE FileInv'
<1>1. /\ readers # <<>> /\ Innermost.next \in 1..Len(text[Innermost.path])
      /\ Innermost.from = 0 /\ Line.kind = "include" /\ Line \in Lines /\ Line = text[Innermost.path][Innermost.next]
      /\ Innermost.next <= Len(text[Innermost.path])
  <2>1. AtLine("include")
    BY DEF ReadInclude
  <2> QED BY <2>1, AtLineIs
<1> DEFINE q == [Innermost EXCEPT !.next = Innermost.next + 1]
           n == Len(readers)
           open == MaxOpen - n + 1
           path == Line.path
           r == Reader(path)
           of(k) == FileEffects(k)[MaxOpen - n][path]
<1>2. /\ TextOK /\ ReadersOK(readers) /\ FilesToRead(todo) /\ conf \in [Keys -> Seq(Value)]
      /\ \A k \in Keys : Holds(k, readers, todo, conf[k])
  BY DEF FileInv
<1>3. path \in Paths /\ n \in 1..MaxOpen /\ n # 0 /\ Outer = OuterOf(readers)
  BY <1>1, LineFields, TopIs
<1>4. /\ q \in ReaderType /\ q.path = Innermost.path /\ q.next = Innermost.next + 1 /\ q.from = 0
      /\ q.section = Innermost.section
  BY <1>1, PassedIs DEF IsReader
<1>5. ASSUME NEW k
      PROVE  RestEffect(k, readers[n], open) = Then(of(k), RestEffect(k, q, open))
  <2> DEFINE x == LineEffect(k, Innermost.path, Innermost.next, FileEffects(k)[open - 1])
  <2>1. x = FileEffects(k)[open - 1][path]
    BY <1>1, OwnLineEffect
  <2> HIDE DEF q
  <2>2. RestEffect(k, readers[n], open) = Then(x, RestEffect(k, q, open)) /\ open - 1 = MaxOpen - n
    BY <1>1, <1>4, RestIs
  <2> HIDE DEF x, open, n, path
  <2> QED BY <2>1, <2>2 DEF n
<1>6. CASE text[path] = Missing \/ n = MaxOpen
  <2>1. ASSUME NEW k \in Keys PROVE RestEffect(k, readers[n], open) = Failure
    <3>1. of(k) = Failure
      <4>1. CASE n = MaxOpen
        <5>1. MaxOpen - n = 0
          BY <1>3, <4>1, UnitFileAssumption
        <5> QED BY <1>2, <1>3, <5>1, FileEffectsIs
      <4>2. CASE text[path] = Missing /\ n # MaxOpen
        <5>1. MaxOpen - n \in 1..MaxOpen
          BY <1>3, <4>2, UnitFileAssumption
        <5> HIDE DEF n, path
        <5> QED BY <1>2, <1>3, <4>2, <5>1, FileEffectsIs
      <4> QED BY <1>6, <4>1, <4>2
    <3>2. Then(Failure, RestEffect(k, q, open)) = Failure
      BY DEF Then, Failure
    <3> HIDE DEF of, open, n, q
    <3> QED BY <1>5, <3>1, <3>2
  <2>2. readers' = <<>> /\ UNCHANGED <<fileInput, todo, conf>>
    BY <1>6 DEF ReadInclude
  <2> QED BY <1>1, <2>1, <2>2, FailedStep
<1>7. CASE ~ (text[path] = Missing \/ n = MaxOpen)
  <2>1. AtPlace(q)
    <3>1. Innermost \in ReaderType /\ AtPlace(Innermost)
      BY <1>1, TopIs
    <3>2. q.section = IF Innermost.from = 0 /\ Line.kind = "header" THEN Line.section ELSE Innermost.section
      BY <1>1, <1>4
    <3>3. NextStart(Line, Innermost.next, Innermost.from) = 0 /\ ~ (q.from > 0)
      BY <1>1, <1>4 DEF NextStart
    <3> HIDE DEF q
    <3> QED BY <1>1, <1>2, <1>4, <3>1, <3>2, <3>3, NextPlace
  <2>2. /\ r \in ReaderType /\ AtPlace(r)
        /\ \A k : \A o \in 1..MaxOpen : RestEffect(k, r, o) = FileEffects(k)[o][path]
    BY <1>2, <1>3, <1>7, ReaderIs
  <2>3. MaxOpen - n \in 1..MaxOpen /\ n # MaxOpen
    BY <1>3, <1>7, UnitFileAssumption
  <2>4. readers' = Append(Append(OuterOf(readers), q), r) /\ UNCHANGED <<fileInput, todo, conf>>
    BY <1>3, <1>7 DEF ReadInclude, Passed
  <2> HIDE DEF q, r
  <2>5. ReadersOK(readers')
    <3>1. ReadersOK(OuterOf(readers)) /\ Len(OuterOf(readers)) = n - 1 /\ n - 1 < MaxOpen
      BY <1>2, <1>3, OuterOK
    <3>2. ReadersOK(Append(OuterOf(readers), q)) /\ Len(Append(OuterOf(readers), q)) = (n - 1) + 1
      BY <1>4, <2>1, <3>1, PushedOK
    <3>3. (n - 1) + 1 < MaxOpen
      BY <1>3, <2>3, UnitFileAssumption
    <3>4. ReadersOK(Append(Append(OuterOf(readers), q), r))
      BY <2>2, <3>2, <3>3, PushedOK
    <3> QED BY <2>4, <3>4
  <2>6. ASSUME NEW k \in Keys PROVE Holds(k, readers', todo', conf'[k])
    <3>1. RestEffect(k, readers[n], open) = Then(RestEffect(k, r, MaxOpen - n), RestEffect(k, q, open))
      <4>1. of(k) = RestEffect(k, r, MaxOpen - n)
        BY <2>2, <2>3
      <4> HIDE DEF of, open, n
      <4> QED BY <1>5, <4>1
    <3>2. Holds(k, readers, todo, conf[k])
      BY <1>2
    <3>3. Holds(k, Append(Append(OuterOf(readers), q), r), todo, conf[k])
      BY <1>2, <1>3, <1>4, <2>1, <2>2, <2>3, <3>1, <3>2, TopIncludes
    <3> QED BY <2>4, <3>3, Zenon
  <2>7. FilesToRead(todo') /\ conf' \in [Keys -> Seq(Value)] /\ UNCHANGED fileInput
    BY <1>2, <2>4
  <2> QED BY <2>5, <2>6, <2>7, FileInvNext
<1> QED BY <1>6, <1>7

LEMMA FileEndsKeeps == ASSUME FileInv, FileEnds PROVE FileInv'
<1> DEFINE r == Innermost
           n == Len(readers)
           p == r.path
           l == Len(text[p])
           open == MaxOpen - n + 1
           v == [path |-> p, from |-> r.from, to |-> r.next - 1]
           key == <<r.section, r.option>>
<1>1. /\ readers # <<>> /\ r.next > l /\ readers' = Outer /\ UNCHANGED <<fileInput, todo>>
      /\ conf' = IF r.from > 0 THEN WithValue(r.option, r.from, r.next - 1) ELSE conf
  BY DEF FileEnds
<1>2. /\ TextOK /\ ReadersOK(readers) /\ FilesToRead(todo) /\ conf \in [Keys -> Seq(Value)]
      /\ \A k \in Keys : Holds(k, readers, todo, conf[k])
  BY DEF FileInv
<1>3. /\ n \in 1..MaxOpen /\ n # 0 /\ Outer = OuterOf(readers) /\ r = readers[n]
      /\ r \in ReaderType /\ AtPlace(r) /\ p \in Paths /\ text[p] \in Seq(Lines) /\ l \in Nat
      /\ r.next \in 1..(l + 1) /\ r.section \in Sections /\ r.from \in Nat
  BY <1>1, TopIs
<1>4. r.next = l + 1 /\ r.next - 1 = l
  <2> HIDE DEF r, l
  <2> QED BY <1>1, <1>3
<1>5. open \in 1..MaxOpen /\ open - 1 \in 0..MaxOpen
  BY <1>3, UnitFileAssumption
<1>6. ASSUME NEW k
      PROVE  RestEffect(k, readers[n], open)
               = IF r.from = 0 THEN Nothing ELSE LineEffect(k, p, r.from, FileEffects(k)[open - 1])
  <2> DEFINE included == FileEffects(k)[open - 1]
             x == LineEffect(k, p, r.from, included)
  <2>1. included \in [Paths -> Effect]
    BY <1>2, <1>5, FileEffectsIs
  <2>2. LinesInTurn(k, p, included)[r.next] = Nothing
    <3>1. LinesInTurn(k, p, included)[l + 1] = Nothing
      <4>1. p \in Paths /\ text[p] \in Seq(Lines)
        BY <1>3
      <4> HIDE DEF included, p
      <4>2. LinesInTurn(k, p, included)[Len(text[p]) + 1] = Nothing
        BY <2>1, <4>1, LinesInTurnIs
      <4> QED BY <4>2
    <3> QED BY <1>4, <3>1
  <2>3. RestEffect(k, r, open) = IF r.from = 0 THEN Nothing ELSE Then(x, Nothing)
    BY <2>2 DEF RestEffect
  <2>4. ASSUME r.from # 0 PROVE Then(x, Nothing) = x
    <3>1. r.from \in 1..l
      <4>1. r.from > 0 => r.from < r.next
        BY <1>3 DEF AtPlace
      <4> HIDE DEF r, l
      <4> QED BY <1>3, <1>4, <2>4, <4>1
    <3>2. x \in Effect
      BY <1>3, <2>1, <3>1, LineEffectType
    <3> HIDE DEF x
    <3> QED BY <3>2, ThenNothing
  <2> HIDE DEF x, r, open
  <2> QED BY <1>3, <2>3, <2>4 DEF x
<1>7. ASSUME r.from > 0, NEW k, NEW included
      PROVE  LineEffect(k, p, r.from, included) = (IF k = key THEN Adding(v) ELSE Nothing) /\ r.option \in Options
  <2>1. r.from < r.next /\ \A j \in r.from..(r.next - 1) : Start(p)[j] # 0
    BY <1>3, <1>7 DEF AtPlace
  <2>2. r.from <= l /\ l \in r.from..l
    <3> HIDE DEF r, l
    <3> QED BY <1>3, <1>4, <1>7, <2>1
  <2>3. \A j \in r.from..(l - 1) : j \in r.from..l
    <3> HIDE DEF r, l
    <3> QED BY <1>3
  <2>4. Start(p)[l] # 0 /\ \A j \in r.from..(l - 1) : Start(p)[j] # 0
    BY <1>4, <2>1, <2>2, <2>3
  <2>5. v = [path |-> p, from |-> r.from, to |-> l]
    BY <1>4
  <2> HIDE DEF v
  <2> QED BY <1>1, <1>7, <2>2, <2>4, <2>5, ContinuedEffect
<1>8. CASE r.from = 0
  <2>1. conf' = conf
    BY <1>1, <1>8
  <2>2. ASSUME NEW k \in Keys PROVE Holds(k, readers', todo', conf'[k])
    <3>1. RestEffect(k, readers[n], open) = Nothing /\ Nothing \in Effect /\ Nothing.ok
      BY <1>6, <1>8, NothingType DEF Nothing
    <3>2. conf[k] \in Seq(Value) /\ Holds(k, readers, todo, conf[k])
      BY <1>2
    <3>3. Holds(k, OuterOf(readers), todo, Applied(conf[k], Nothing))
      BY <1>2, <1>3, <3>1, <3>2, TopReturns
    <3>4. Applied(conf[k], Nothing) = conf[k]
      BY <3>2, AppliedNothing
    <3>5. readers' = OuterOf(readers) /\ todo' = todo /\ conf' = conf
      BY <1>1, <1>3, <2>1
    <3> QED BY <3>3, <3>4, <3>5, Zenon
  <2>3. ReadersOK(readers') /\ FilesToRead(todo') /\ conf' \in [Keys -> Seq(Value)] /\ UNCHANGED fileInput
    BY <1>1, <1>2, <1>3, <2>1, OuterOK
  <2> QED BY <2>2, <2>3, FileInvNext
<1>9. CASE r.from > 0
  <2>1. r.option \in Options /\ r.from \in Nat \ {0} /\ r.next - 1 \in Nat \ {0}
    <3>1. r.option \in Options
      BY <1>7, <1>9
    <3>2. r.from < r.next
      BY <1>3, <1>9 DEF AtPlace
    <3> HIDE DEF r, l
    <3> QED BY <1>3, <1>4, <1>9, <3>1, <3>2
  <2>2. /\ conf' \in [Keys -> Seq(Value)]
        /\ \A k \in Keys : conf'[k] = Applied(conf[k], IF k = key THEN Adding(v) ELSE Nothing)
    <3>1. v = [path |-> Innermost.path, from |-> r.from, to |-> r.next - 1]
      OBVIOUS
    <3>2. conf' = WithValue(r.option, r.from, r.next - 1)
      BY <1>1, <1>9
    <3>3. readers # <<>>
      BY <1>1
    <3> DEFINE to == r.next - 1
               o == r.option
               from == r.from
    <3>4. /\ to \in Nat \ {0} /\ o \in Options /\ from \in Nat \ {0}
          /\ v = [path |-> Innermost.path, from |-> from, to |-> to]
      BY <2>1, <3>1
    <3>5. key = <<Innermost.section, o>>
      OBVIOUS
    <3> HIDE DEF v, to, o, from, key
    <3>6. /\ WithValue(o, from, to) \in [Keys -> Seq(Value)]
          /\ \A k \in Keys : WithValue(o, from, to)[k]
               = Applied(conf[k], IF k = <<Innermost.section, o>> THEN Adding(v) ELSE Nothing)
      BY <3>3, <3>4, WithValueIs
    <3>7. conf' = WithValue(o, from, to)
      BY <3>2 DEF o, from, to
    <3> QED BY <3>5, <3>6, <3>7
  <2>3. ASSUME NEW k \in Keys PROVE Holds(k, readers', todo', conf'[k])
    <3> DEFINE x == LineEffect(k, p, r.from, FileEffects(k)[open - 1])
    <3>1. x = IF k = key THEN Adding(v) ELSE Nothing
      BY <1>7, <1>9
    <3>2. RestEffect(k, readers[n], open) = x
      <4>1. r.from # 0
        BY <1>9
      <4> HIDE DEF x, r, n, open
      <4> QED BY <1>6, <4>1 DEF x
    <3>3. x \in Effect /\ x.ok
      <4>1. v \in Value
        BY <1>3, <2>1 DEF Value
      <4> HIDE DEF v
      <4>2. Adding(v) \in Effect /\ Adding(v).ok /\ Nothing \in Effect /\ Nothing.ok
        BY <4>1, AddingType, NothingType DEF Adding, Nothing
      <4> HIDE DEF x, key
      <4> QED BY <3>1, <4>2
    <3>4. conf[k] \in Seq(Value) /\ Holds(k, readers, todo, conf[k])
      BY <1>2
    <3> HIDE DEF x
    <3>5. Holds(k, OuterOf(readers), todo, Applied(conf[k], x))
      BY <1>2, <1>3, <3>2, <3>3, <3>4, TopReturns
    <3>6. readers' = OuterOf(readers) /\ todo' = todo /\ conf'[k] = Applied(conf[k], x)
      <4> HIDE DEF v, key
      <4> QED BY <1>1, <1>3, <2>2, <3>1
    <3> QED BY <3>5, <3>6, Zenon
  <2>4. ReadersOK(readers') /\ FilesToRead(todo') /\ UNCHANGED fileInput
    BY <1>1, <1>2, <1>3, OuterOK
  <2> QED BY <2>2, <2>3, <2>4, FileInvNext
<1> HIDE DEF r
<1> QED BY <1>3, <1>8, <1>9

LEMMA OpenNextKeeps == ASSUME FileInv, OpenNext PROVE FileInv'
<1> DEFINE path == Head(todo)
<1>1. /\ TextOK /\ FilesToRead(todo) /\ conf \in [Keys -> Seq(Value)]
      /\ \A k \in Keys : Holds(k, <<>>, todo, conf[k])
  BY DEF FileInv, OpenNext
<1>2. /\ readers = <<>> /\ todo # <<>> /\ todo' = Tail(todo) /\ UNCHANGED fileInput /\ conf' = conf
      /\ readers' = IF text[path] = Missing THEN <<>> ELSE <<Reader(path)>>
  BY DEF OpenNext
<1>3. /\ path \in Paths /\ FilesToRead(Tail(todo))
      /\ \A k \in Keys : IF text[path] = Missing THEN Holds(k, <<>>, Tail(todo), conf[k])
                         ELSE Holds(k, <<Reader(path)>>, Tail(todo), conf[k])
  <2>1. ASSUME NEW k, Holds(k, <<>>, todo, conf[k]), conf[k] \in Seq(Value)
        PROVE  /\ text[path] = Missing => Holds(k, <<>>, Tail(todo), conf[k])
               /\ text[path] # Missing => Holds(k, <<Reader(path)>>, Tail(todo), conf[k])
    BY <1>1, <1>2, <2>1, NextOpens
  <2>2. path \in Paths /\ FilesToRead(Tail(todo))
    BY <1>1, <1>2, TodoMoves
  <2> HIDE DEF path
  <2> QED BY <1>1, <2>1, <2>2
<1>4. ReadersOK(readers')
  <2>1. CASE text[path] = Missing
    BY <1>2, <2>1, NoneOK
  <2>2. CASE text[path] # Missing
    <3> DEFINE r == Reader(path)
    <3>1. r \in ReaderType /\ AtPlace(r)
      BY <1>1, <1>3, <2>2, ReaderIs
    <3>2. ReadersOK(<<>>) /\ Len(<<>>) < MaxOpen
      BY NoneOK, UnitFileAssumption
    <3> HIDE DEF r
    <3>3. ReadersOK(Append(<<>>, r))
      BY <3>1, <3>2, PushedOK
    <3>4. Append(<<>>, r) = <<r>>
      OBVIOUS
    <3> QED BY <1>2, <2>2, <3>3, <3>4 DEF r
  <2> QED BY <2>1, <2>2
<1>5. ASSUME NEW k \in Keys PROVE Holds(k, readers', todo', conf'[k])
  <2>1. CASE text[path] = Missing
    <3>1. Holds(k, <<>>, Tail(todo), conf[k]) /\ readers' = <<>>
      BY <1>2, <1>3, <2>1
    <3> QED BY <1>2, <3>1, Zenon
  <2>2. CASE text[path] # Missing
    <3>1. Holds(k, <<Reader(path)>>, Tail(todo), conf[k]) /\ readers' = <<Reader(path)>>
      BY <1>2, <1>3, <2>2
    <3> QED BY <1>2, <3>1, Zenon
  <2> QED BY <2>1, <2>2
<1> QED BY <1>1, <1>2, <1>3, <1>4, <1>5, FileInvNext

LEMMA FileInvStep == FileInv /\ [FileNext]_fileVars => FileInv'
<1> SUFFICES ASSUME FileInv, [FileNext]_fileVars PROVE FileInv'
  OBVIOUS
<1>1. CASE UNCHANGED fileVars
  <2>1. /\ UNCHANGED fileInput /\ readers' = readers /\ todo' = todo /\ conf' = conf
    BY <1>1 DEF fileVars, fileInput
  <2>2. /\ conf \in [Keys -> Seq(Value)] /\ ReadersOK(readers) /\ FilesToRead(todo)
        /\ \A k \in Keys : Holds(k, readers, todo, conf[k])
    BY DEF FileInv
  <2>3. /\ conf' \in [Keys -> Seq(Value)] /\ ReadersOK(readers') /\ FilesToRead(todo')
        /\ \A k \in Keys : Holds(k, readers', todo', conf'[k])
    BY <2>1, <2>2, Zenon
  <2> QED BY <2>1, <2>3, FileInvNext
<1> QED BY <1>1, OpenNextKeeps, PassOverKeeps, EnterSectionKeeps, ReadAssignKeeps, ReadResetKeeps,
           ReadContinuedKeeps, ReadIncludeKeeps, ReadBadKeeps, FileEndsKeeps DEF FileNext

LEMMA FileInvMeans == FileInv => ConfIsAsWritten /\ FileTypeOK
<1> SUFFICES ASSUME FileInv PROVE ConfIsAsWritten /\ FileTypeOK
  OBVIOUS
<1>1. /\ TextOK /\ masked \in BOOLEAN /\ conf \in [Keys -> Seq(Value)] /\ ReadersOK(readers) /\ FilesToRead(todo)
      /\ \A k \in Keys : Holds(k, readers, todo, conf[k])
  BY DEF FileInv
<1>2. FileTypeOK
  BY <1>1 DEF FileTypeOK, TextOK, ReadersOK, ReaderType, FilesToRead
<1>3. ASSUME AllRead, NEW k \in Keys PROVE conf[k] = FilesInTurn(k)[1].adds
  <2>1. readers = <<>> /\ todo = <<>> /\ Len(<<>>) = 0
    BY <1>3 DEF AllRead
  <2>2. PICK rest : Stacked(k, <<>>, rest) /\ Applied(conf[k], Left(k, <<>>, <<>>, rest)) = FilesInTurn(k)[1].adds
    BY <1>1, <2>1 DEF Holds
  <2>3. rest[0] = Nothing
    BY <2>2 DEF Stacked
  <2>4. FilesInTurn(k)[Len(ReadOrder) - Len(<<>>) + 1] = Nothing
    <3>1. Len(ReadOrder) - Len(<<>>) + 1 = Len(ReadOrder) + 1
      BY <2>1, ReadOrderType, LenProperties
    <3> QED BY <1>1, <3>1, FilesInTurnIs
  <2>5. Left(k, <<>>, <<>>, rest) = Then(Ended(Nothing), Nothing)
    BY <2>1, <2>3, <2>4 DEF Left
  <2>6. Then(Ended(Nothing), Nothing) = Nothing
    BY NothingType, EndedThen, ThenNothing
  <2>7. Applied(conf[k], Nothing) = conf[k]
    BY <1>1, AppliedNothing
  <2> QED BY <2>2, <2>5, <2>6, <2>7
<1> QED BY <1>2, <1>3 DEF ConfIsAsWritten

\* When all files are read every option has the values that the files say, told from
\* their texts as a whole: ConfIsAsWritten, for any depth of includes and any files but
\* those with an empty line in an assignment.
THEOREM ConfMeansTheFiles == FileSpec => []ConfIsAsWritten
<1> DEFINE inv == NoEmptyLineJoined => FileInv
<1>1. FileInit => inv
  BY FileInvInit
<1>2. inv /\ [FileNext]_fileVars => inv'
  <2> SUFFICES ASSUME inv, [FileNext]_fileVars, NoEmptyLineJoined' PROVE FileInv'
    OBVIOUS
  <2>1. text' = text
    BY DEF FileNext, OpenNext, PassOver, EnterSection, ReadAssign, ReadReset, ReadContinued, ReadInclude,
           ReadBad, FileEnds, fileVars, fileInput
  <2>2. \A path, i : OwnLine(path, i)' <=> OwnLine(path, i)
    BY <2>1 DEF OwnLine, Start
  <2>3. NoEmptyLineJoined
    BY <2>1, <2>2 DEF NoEmptyLineJoined
  <2> QED BY <2>3, FileInvStep
<1>3. inv => ConfIsAsWritten
  BY FileInvMeans DEF ConfIsAsWritten
<1> QED BY <1>1, <1>2, <1>3, PTL DEF FileSpec

\* The types alone, whatever the files say.
ReaderTyped(r) ==
    /\ r \in ReaderType /\ text[r.path] \in Seq(Lines)
    /\ r.from > 0 => r.from < r.next /\ r.option \in Options

FileTypeInv == /\ TextOK /\ masked \in BOOLEAN
               /\ conf \in [Keys -> Seq(Value)]
               /\ todo \in Seq(Paths)
               /\ readers \in Seq(ReaderType)
               /\ \A j \in 1..Len(readers) : ReaderTyped(readers[j])

\* A step that leaves the inner readers alone keeps the types.
LEMMA ReadersTyped ==
    ASSUME FileTypeInv, UNCHANGED fileInput, conf' \in [Keys -> Seq(Value)], todo' \in Seq(Paths),
           NEW rs \in Seq(ReaderType), \A j \in 1..Len(rs) : ReaderTyped(rs[j]),
           \/ readers' = rs
           \/ \E q : ReaderTyped(q) /\ readers' = Append(rs, q)
    PROVE  FileTypeInv'
<1>1. text' = text /\ TextOK' /\ masked' \in BOOLEAN
  BY DEF FileTypeInv, TextOK, fileInput
<1>2. readers' \in Seq(ReaderType) /\ \A j \in 1..Len(readers') : ReaderTyped(readers'[j])
  <2>1. CASE readers' = rs
    BY <2>1
  <2>2. ASSUME NEW q, ReaderTyped(q), readers' = Append(rs, q)
        PROVE  readers' \in Seq(ReaderType) /\ \A j \in 1..Len(readers') : ReaderTyped(readers'[j])
    <3>1. q \in ReaderType
      BY <2>2 DEF ReaderTyped
    <3>2. /\ readers' \in Seq(ReaderType) /\ Len(readers') = Len(rs) + 1 /\ Len(rs) \in Nat
          /\ readers'[Len(rs) + 1] = q /\ \A j \in 1..Len(rs) : readers'[j] = rs[j]
      BY <2>2, <3>1, ReaderPushed, LenProperties
    <3>3. \A j \in 1..(Len(rs) + 1) : j = Len(rs) + 1 \/ j \in 1..Len(rs)
      BY <3>2
    <3> QED BY <2>2, <3>2, <3>3
  <2> QED BY <2>1, <2>2
<1>3. \A j \in 1..Len(readers') : ReaderTyped(readers[j])'
  BY <1>1, <1>2 DEF ReaderTyped
<1> QED BY <1>1, <1>2, <1>3 DEF FileTypeInv

LEMMA FileTypeStep == FileTypeInv /\ [FileNext]_fileVars => FileTypeInv'
<1> SUFFICES ASSUME FileTypeInv, [FileNext]_fileVars PROVE FileTypeInv'
  OBVIOUS
<1>1. /\ TextOK /\ conf \in [Keys -> Seq(Value)] /\ todo \in Seq(Paths) /\ readers \in Seq(ReaderType)
      /\ \A j \in 1..Len(readers) : ReaderTyped(readers[j])
  BY DEF FileTypeInv
<1>2. <<>> \in Seq(ReaderType) /\ \A j \in 1..Len(<<>>) : ReaderTyped(<<>>[j])
  OBVIOUS
<1>3. CASE UNCHANGED fileVars
  BY <1>1, <1>3, ReadersTyped DEF fileVars, fileInput
<1>4. CASE OpenNext
  <2>1. Head(todo) \in Paths /\ Tail(todo) \in Seq(Paths)
    BY <1>1, <1>4, HeadTailProperties, EmptySeq DEF OpenNext
  <2>2. text[Head(todo)] # Missing => ReaderTyped(Reader(Head(todo)))
    <3>1. Reader(Head(todo)).from = 0 /\ Reader(Head(todo)).path = Head(todo)
      BY DEF Reader
    <3>2. text[Head(todo)] # Missing => Reader(Head(todo)) \in ReaderType
      BY <1>1, <2>1, ReaderIs
    <3>3. ~ (0 > 0)
      OBVIOUS
    <3> QED BY <1>1, <2>1, <3>1, <3>2, <3>3 DEF ReaderTyped, TextOK
  <2>3. readers' = <<>> \/ (text[Head(todo)] # Missing /\ readers' = Append(<<>>, Reader(Head(todo))))
    BY <1>4 DEF OpenNext
  <2>4. UNCHANGED fileInput /\ conf' \in [Keys -> Seq(Value)] /\ todo' \in Seq(Paths)
    BY <1>1, <1>4, <2>1 DEF OpenNext
  <2> QED BY <1>2, <2>2, <2>3, <2>4, ReadersTyped
<1>5. ASSUME readers # <<>>
      PROVE  /\ Innermost \in ReaderType /\ ReaderTyped(Innermost) /\ text[Innermost.path] \in Seq(Lines)
             /\ Outer \in Seq(ReaderType) /\ \A j \in 1..Len(Outer) : ReaderTyped(Outer[j])
  <2>1. Len(readers) # 0
    BY <1>1, <1>5, EmptySeq
  <2>2. /\ Len(readers) \in Nat \ {0} /\ Outer \in Seq(ReaderType) /\ Len(Outer) = Len(readers) - 1
        /\ \A j \in 1..(Len(readers) - 1) : Outer[j] = readers[j]
    BY <1>1, <2>1, OuterIs DEF Outer, OuterOf
  <2>3. Len(readers) \in 1..Len(readers) /\ \A j \in 1..(Len(readers) - 1) : j \in 1..Len(readers)
    BY <2>2
  <2>4. ReaderTyped(Innermost)
    BY <1>1, <2>3 DEF Innermost
  <2> QED BY <1>1, <2>2, <2>3, <2>4 DEF ReaderTyped
\* After a line.
<1>6. ASSUME readers # <<>>, NEW s \in Sections, NEW o, NEW from \in Nat, NEW q,
             IsReader(q, Innermost.path, Innermost.next + 1, s, o, from),
             from > 0 => o \in Options /\ (from = Innermost.next \/ from = Innermost.from)
      PROVE  ReaderTyped(q)
  <2>1. from > 0 => from < Innermost.next + 1
    <3>1. Innermost.next \in Nat /\ Innermost.from \in Nat
      BY <1>5, <1>6 DEF ReaderType
    <3>2. Innermost.from > 0 => Innermost.from < Innermost.next
      BY <1>5, <1>6 DEF ReaderTyped
    <3> QED BY <1>6, <3>1, <3>2
  <2> QED BY <1>5, <1>6, <2>1 DEF ReaderTyped, IsReader
<1>7. ASSUME NEW kind, AtLine(kind)
      PROVE  /\ readers # <<>> /\ Line \in Lines
             /\ kind = "continued" => Innermost.from > 0
             /\ kind # "continued" => Innermost.from = 0 /\ Line.kind = kind
  <2>1. readers # <<>> /\ Innermost.next <= Len(text[Innermost.path])
    BY <1>7 DEF AtLine
  <2>2. text[Innermost.path] \in Seq(Lines) /\ Innermost.next \in Nat \ {0} /\ Innermost.from \in Nat
    BY <1>5, <2>1 DEF ReaderType
  <2>3. Innermost.next \in 1..Len(text[Innermost.path])
    BY <2>1, <2>2, LenProperties
  <2>4. Line \in Lines /\ Line = text[Innermost.path][Innermost.next]
    BY <2>2, <2>3, ElementOfSeq DEF Line
  <2>5. kind = IF Innermost.from > 0 THEN "continued" ELSE Line.kind
    BY <1>7, <2>4 DEF AtLine
  <2>6. Line.kind # "continued" /\ (Innermost.from = 0 \/ Innermost.from > 0)
    BY <2>2, <2>4, LineFields
  <2> QED BY <2>1, <2>4, <2>5, <2>6
<1>8. ASSUME readers # <<>>, NEW o \in Options, NEW from \in Nat \ {0}, NEW to \in Nat \ {0}
      PROVE  WithValue(o, from, to) \in [Keys -> Seq(Value)]
  <2> DEFINE v == [path |-> Innermost.path, from |-> from, to |-> to]
             key == <<Innermost.section, o>>
  <2>1. v \in Value /\ key \in Keys
    BY <1>5, <1>8 DEF Value, Keys, ReaderType
  <2>2. WithValue(o, from, to) = [conf EXCEPT ![key] = Append(conf[key], v)]
    BY DEF WithValue
  <2> HIDE DEF v, key
  <2>3. Append(conf[key], v) \in Seq(Value)
    BY <1>1, <2>1, AppendProperties
  <2> QED BY <1>1, <2>2, <2>3
<1>9. ASSUME readers # <<>>
      PROVE  /\ Innermost.next \in Nat \ {0} /\ Innermost.next + 1 \in Nat \ {0} /\ Innermost.from \in Nat
             /\ Innermost.section \in Sections
             /\ Innermost.from > 0 => /\ Innermost.option \in Options /\ Innermost.from \in Nat \ {0}
                                      /\ Innermost.next - 1 \in Nat \ {0}
             /\ ReaderTyped([Innermost EXCEPT !.next = Innermost.next + 1])
  <2>0. Innermost.next \in Nat \ {0} /\ Innermost.from \in Nat /\ Innermost.section \in Sections
    BY <1>5, <1>9 DEF ReaderType
  <2>1. /\ Innermost.next \in Nat \ {0} /\ Innermost.next + 1 \in Nat \ {0} /\ Innermost.from \in Nat
        /\ Innermost.section \in Sections
    BY <2>0, NextNumber
  <2>2. Innermost.from > 0 => Innermost.option \in Options /\ Innermost.from < Innermost.next
    BY <1>5, <1>9 DEF ReaderTyped
  <2>3. Innermost.from > 0 => Innermost.from \in Nat \ {0} /\ Innermost.next - 1 \in Nat \ {0}
    BY <2>1, <2>2
  <2>4. IsReader([Innermost EXCEPT !.next = Innermost.next + 1], Innermost.path, Innermost.next + 1,
                 Innermost.section, Innermost.option, Innermost.from)
    BY <1>5, <1>9, <2>1, ReaderParts
  <2>5. ReaderTyped([Innermost EXCEPT !.next = Innermost.next + 1])
    BY <1>6, <1>9, <2>1, <2>2, <2>4
  <2> QED BY <2>1, <2>2, <2>3, <2>5
<1>10. CASE PassOver
  <2>1. PICK kind \in {"blank", "comment", "unclosed"} : AtLine(kind)
    BY <1>10 DEF PassOver
  <2>2. readers # <<>>
    BY <1>7, <2>1
  <2>3. readers' = Append(Outer, [Innermost EXCEPT !.next = Innermost.next + 1])
        /\ UNCHANGED <<fileInput, todo, conf>>
    BY <1>10 DEF PassOver, Passed
  <2> QED BY <1>1, <1>5, <1>9, <2>2, <2>3, ReadersTyped
<1>11. CASE EnterSection
  <2> DEFINE q == [[Innermost EXCEPT !.section = Line.section] EXCEPT !.next = Innermost.next + 1]
  <2>1. readers # <<>> /\ Line.section \in Sections /\ Innermost.from = 0
    BY <1>7, <1>11, LineFields DEF EnterSection
  <2>2. IsReader(q, Innermost.path, Innermost.next + 1, Line.section, Innermost.option, Innermost.from)
    BY <1>5, <1>9, <2>1, ReaderParts
  <2>3. readers' = Append(Outer, q) /\ UNCHANGED <<fileInput, todo, conf>>
    BY <1>11 DEF EnterSection, Passed
  <2> HIDE DEF q
  <2>4. ReaderTyped(q)
    BY <1>6, <1>9, <2>1, <2>2
  <2> QED BY <1>1, <1>5, <2>1, <2>3, <2>4, ReadersTyped
<1>12. CASE ReadAssign
  <2> DEFINE q == [[Innermost EXCEPT !.option = Line.option, !.from = Innermost.next] EXCEPT !.next = Innermost.next + 1]
  <2>1. readers # <<>> /\ Line.option \in Options
    BY <1>7, <1>12, LineFields DEF ReadAssign
  <2>2. IsReader(q, Innermost.path, Innermost.next + 1, Innermost.section, Line.option, Innermost.next)
    BY <1>5, <1>9, <2>1, ReaderParts
  <2>3. /\ \/ readers' = Append(Outer, q) /\ conf' = conf
           \/ /\ readers' = Append(Outer, [Innermost EXCEPT !.next = Innermost.next + 1])
              /\ conf' = WithValue(Line.option, Innermost.next, Innermost.next)
        /\ UNCHANGED <<fileInput, todo>>
    BY <1>12 DEF ReadAssign, Passed
  <2> HIDE DEF q
  <2>4. ReaderTyped(q)
    BY <1>6, <1>9, <2>1, <2>2
  <2>5. conf' \in [Keys -> Seq(Value)]
    BY <1>1, <1>8, <1>9, <2>1, <2>3
  <2>6. \E p : ReaderTyped(p) /\ readers' = Append(Outer, p)
    BY <1>9, <2>1, <2>3, <2>4
  <2> QED BY <1>1, <1>5, <2>1, <2>3, <2>5, <2>6, ReadersTyped
<1>13. CASE ReadReset
  <2>1. readers # <<>>
    BY <1>7, <1>13 DEF ReadReset
  <2>2. /\ readers' = Append(Outer, [Innermost EXCEPT !.next = Innermost.next + 1])
        /\ UNCHANGED <<fileInput, todo>>
        /\ conf' = [conf EXCEPT ![<<Innermost.section, Line.option>>] = <<>>]
    BY <1>13 DEF ReadReset, Passed
  <2>3. <<>> \in Seq(Value)
    OBVIOUS
  <2>4. conf' \in [Keys -> Seq(Value)]
    BY <1>1, <2>2, <2>3
  <2> QED BY <1>1, <1>5, <1>9, <2>1, <2>2, <2>4, ReadersTyped
<1>14. CASE ReadContinued
  <2> DEFINE q == [[Innermost EXCEPT !.from = 0] EXCEPT !.next = Innermost.next + 1]
  <2>1. readers # <<>> /\ Innermost.from > 0
    BY <1>7, <1>14 DEF ReadContinued
  <2>2. IsReader(q, Innermost.path, Innermost.next + 1, Innermost.section, Innermost.option, 0)
    BY <1>5, <1>9, <2>1, ReaderParts
  <2>3. /\ \/ readers' = Append(Outer, q) /\ conf' = WithValue(Innermost.option, Innermost.from, Innermost.next)
           \/ readers' = Append(Outer, [Innermost EXCEPT !.next = Innermost.next + 1]) /\ conf' = conf
        /\ UNCHANGED <<fileInput, todo>>
    BY <1>14 DEF ReadContinued, Passed
  <2> HIDE DEF q
  <2>4. ReaderTyped(q)
    <3>1. ~ (0 > 0)
      OBVIOUS
    <3> QED BY <1>6, <1>9, <2>1, <2>2, <3>1
  <2>5. conf' \in [Keys -> Seq(Value)]
    <3>1. WithValue(Innermost.option, Innermost.from, Innermost.next) \in [Keys -> Seq(Value)]
      BY <1>8, <1>9, <2>1
    <3> QED BY <1>1, <2>3, <3>1, Zenon
  <2>6. \E p : ReaderTyped(p) /\ readers' = Append(Outer, p)
    BY <1>9, <2>1, <2>3, <2>4
  <2> QED BY <1>1, <1>5, <2>1, <2>3, <2>5, <2>6, ReadersTyped
<1>15. CASE ReadInclude
  <2> DEFINE r == [Innermost EXCEPT !.next = Innermost.next + 1]
             q == Reader(Line.path)
  <2>1. readers # <<>> /\ Line.path \in Paths
    BY <1>7, <1>15, LineFields DEF ReadInclude
  <2>2. /\ \/ readers' = <<>>
           \/ text[Line.path] # Missing /\ readers' = Append(Append(Outer, r), q)
        /\ UNCHANGED <<fileInput, todo, conf>>
    BY <1>15 DEF ReadInclude, Passed
  <2>3. ASSUME text[Line.path] # Missing PROVE ReaderTyped(q)
    <3>1. q \in ReaderType /\ text[Line.path] \in Seq(Lines)
      BY <1>1, <2>1, <2>3, ReaderIs DEF TextOK
    <3>2. q.from = 0 /\ q.path = Line.path /\ ~ (0 > 0)
      BY DEF Reader
    <3> QED BY <3>1, <3>2 DEF ReaderTyped
  <2>4. ReaderTyped(r)
    BY <1>9, <2>1
  <2> HIDE DEF r, q
  <2>5. /\ Append(Outer, r) \in Seq(ReaderType)
        /\ \A j \in 1..Len(Append(Outer, r)) : ReaderTyped(Append(Outer, r)[j])
    <3>1. r \in ReaderType
      BY <2>4 DEF ReaderTyped
    <3>2. /\ Append(Outer, r) \in Seq(ReaderType) /\ Len(Append(Outer, r)) = Len(Outer) + 1 /\ Len(Outer) \in Nat
          /\ Append(Outer, r)[Len(Outer) + 1] = r /\ \A j \in 1..Len(Outer) : Append(Outer, r)[j] = Outer[j]
      BY <1>5, <2>1, <3>1, ReaderPushed, LenProperties
    <3>3. \A j \in 1..(Len(Outer) + 1) : j = Len(Outer) + 1 \/ j \in 1..Len(Outer)
      BY <3>2
    <3> QED BY <1>5, <2>1, <2>4, <3>2, <3>3
  <2>6. CASE readers' = <<>>
    BY <1>1, <1>2, <2>2, <2>6, ReadersTyped
  <2>7. CASE text[Line.path] # Missing /\ readers' = Append(Append(Outer, r), q)
    BY <1>1, <2>2, <2>3, <2>5, <2>7, ReadersTyped
  <2> QED BY <2>2, <2>6, <2>7
<1>16. CASE ReadBad
  BY <1>1, <1>2, <1>16, ReadersTyped DEF ReadBad
<1>17. CASE FileEnds
  <2>1. readers # <<>> /\ readers' = Outer /\ UNCHANGED <<fileInput, todo>>
    BY <1>17 DEF FileEnds
  <2>2. \/ conf' = conf
        \/ Innermost.from > 0 /\ conf' = WithValue(Innermost.option, Innermost.from, Innermost.next - 1)
    BY <1>17 DEF FileEnds
  <2>3. conf' \in [Keys -> Seq(Value)]
    BY <1>1, <1>8, <1>9, <2>1, <2>2
  <2> QED BY <1>1, <1>5, <2>1, <2>3, ReadersTyped
<1> QED BY <1>3, <1>4, <1>10, <1>11, <1>12, <1>13, <1>14, <1>15, <1>16, <1>17 DEF FileNext

\* The types of what LoadUnitConf and ReadUnitFile keep: FileTypeOK.
THEOREM FileTypes == FileSpec => []FileTypeOK
<1>1. FileInit => FileTypeInv
  <2> SUFFICES ASSUME FileInit PROVE FileTypeInv
    OBVIOUS
  <2>1. TextOK /\ masked \in BOOLEAN
    BY UnitFileAssumption DEF FileInit, TextOK
  <2>2. <<>> \in Seq(Value) /\ <<>> \in Seq(ReaderType) /\ Len(<<>>) = 0
    OBVIOUS
  <2>3. conf \in [Keys -> Seq(Value)] /\ readers = <<>> /\ todo \in Seq(Paths)
    BY <2>2, ReadOrderType DEF FileInit
  <2> QED BY <2>1, <2>2, <2>3 DEF FileTypeInv
<1>2. FileTypeInv => FileTypeOK
  BY DEF FileTypeInv, FileTypeOK, TextOK, ReaderType
<1> QED BY <1>1, <1>2, FileTypeStep, PTL DEF FileSpec

-----------------------------------------------------------------------------
(* The environment of a service: the strongest source counts.              *)

\* All definitions in the order they are made, and what the first k of them come to.
Defs == BuildServiceEnv(given)

Counts(n, def) == made[n] = def /\ (def.how # "expand" => env[n] = def.value)

Made(k) ==
    /\ \A n \in Names : n \in DOMAIN env <=> \E i \in 1..k : Defs[i].name = n
    /\ \A i \in 1..k :
          /\ Defs[i].how = "default" => \A j \in 1..(i - 1) : Defs[j].name # Defs[i].name
          /\ \A j \in (i + 1)..k : Defs[j].name = Defs[i].name => Defs[j].how = "default"
          => Counts(Defs[i].name, Defs[i])

\* What is still to be made is the end of the list, and the variables are what the
\* part before it says.
SourcesInv ==
    /\ given \in Givens
    /\ expanding.round > 0 => queue # <<>> /\ Head(queue).how = "expand"
    /\ \E k \in 0..Len(Defs) : queue = SubSeq(Defs, k + 1, Len(Defs)) /\ Made(k)

\* A finite set as a sequence has all its elements.
LEMMA SetToSeqIsFull ==
    ASSUME NEW S, IsFiniteSet(S)
    PROVE  /\ SetToSeq(S) \in Seq(S)
           /\ \A x \in S : \E i \in 1..Len(SetToSeq(S)) : SetToSeq(S)[i] = x
<1> DEFINE m == Cardinality(S)
<1>1. m \in Nat /\ IsFiniteSet(1..m) /\ Cardinality(1..m) = m
  BY FS_CardinalityType, FS_Interval
<1>2. PICK f : f \in Bijection(1..m, S)
  BY <1>1, FS_SameCardinalityBij DEF ExistsBijection
<1>3. f \in [1..m -> S] /\ IsInjective(f)
  BY <1>2 DEF Bijection, Injection
<1>4. SetToSeq(S) \in [1..m -> S] /\ IsInjective(SetToSeq(S))
  BY <1>3 DEF SetToSeq
<1>5. SetToSeq(S) \in Injection(1..m, S)
  BY <1>4 DEF Injection
<1>6. SetToSeq(S) \in Surjection(1..m, S)
  BY <1>1, <1>5, FS_Injection
<1>7. SetToSeq(S) \in Seq(S) /\ Len(SetToSeq(S)) = m
  BY <1>1, <1>4
<1> QED BY <1>6, <1>7 DEF Surjection

\* The reset of the locale.
LocaleReset == SetToSeq({Def("set", n, <<>>) : n \in Locale})

LEMMA ResetIsFull ==
    /\ LocaleReset \in Seq(Definition)
    /\ \A i \in 1..Len(LocaleReset) : /\ LocaleReset[i].name \in Locale
                                     /\ LocaleReset[i] = Def("set", LocaleReset[i].name, <<>>)
    /\ \A n \in Locale : \E i \in 1..Len(LocaleReset) : LocaleReset[i].name = n
<1> DEFINE R == {Def("set", n, <<>>) : n \in Locale}
           f == [n \in Locale |-> Def("set", n, <<>>)]
<1>1. f \in Surjection(Locale, R)
  BY DEF Surjection
<1>2. IsFiniteSet(R)
  BY <1>1, FS_Surjection, FS_Subset, EnvironmentAssumption
<1>3. /\ LocaleReset \in Seq(R)
      /\ \A x \in R : \E i \in 1..Len(LocaleReset) : LocaleReset[i] = x
  BY <1>2, SetToSeqIsFull DEF LocaleReset
<1>4. R \subseteq Definition
  <2>1. <<>> \in Seq(Token)
    BY EmptySeq
  <2>2. ASSUME NEW n \in Locale PROVE Def("set", n, <<>>) \in Definition
    BY <2>1, EnvironmentAssumption DEF Definition, Def
  <2> QED BY <2>2
<1>5. \A i \in 1..Len(LocaleReset) : LocaleReset[i] \in R
  BY <1>3
<1>6. \A x \in R : x.name \in Locale /\ x = Def("set", x.name, <<>>)
  BY DEF Def
<1>7. \A n \in Locale : Def("set", n, <<>>) \in R /\ Def("set", n, <<>>).name = n
  BY DEF Def
<1>8. LocaleReset \in Seq(Definition)
  BY <1>3, <1>4, SeqMonotonic
<1> HIDE DEF R
<1> QED BY <1>3, <1>5, <1>6, <1>7, <1>8

\* What a concatenation has, and where.
Joined(r, s, t) ==
    /\ r \in Seq(Definition) /\ Len(s) \in Nat /\ Len(t) \in Nat
    /\ Len(r) = Len(s) + Len(t)
    /\ \A i \in 1..Len(s) : r[i] = s[i]
    /\ \A i \in 1..Len(t) : r[Len(s) + i] = t[i]

LEMMA Concatenated == ASSUME NEW s \in Seq(Definition), NEW t \in Seq(Definition) PROVE Joined(s \o t, s, t)
<1>1. Len(s) \in Nat /\ Len(t) \in Nat
  BY LenProperties
<1>2. /\ s \o t \in Seq(Definition) /\ Len(s \o t) = Len(s) + Len(t)
      /\ \A i \in 1..(Len(s) + Len(t)) : (s \o t)[i] = IF i <= Len(s) THEN s[i] ELSE t[i - Len(s)]
  BY ConcatProperties
<1>3. ASSUME NEW i \in 1..Len(s) PROVE (s \o t)[i] = s[i]
  BY <1>1, <1>2
<1>4. ASSUME NEW i \in 1..Len(t) PROVE (s \o t)[Len(s) + i] = t[i]
  <2>1. /\ Len(s) + i \in 1..(Len(s) + Len(t))
        /\ ~ (Len(s) + i <= Len(s)) /\ (Len(s) + i) - Len(s) = i
    BY <1>1
  <2> QED BY <1>2, <2>1
<1> QED BY <1>1, <1>2, <1>3, <1>4 DEF Joined

\* The one default.
Path == <<Def("default", "PATH", <<Text(DefaultPath)>>)>>

LEMMA PathType == Path \in Seq(Definition) /\ Len(Path) = 1 /\ Path[1].name = "PATH" /\ Path[1].how = "default"
<1> DEFINE d == Def("default", "PATH", <<Text(DefaultPath)>>)
<1>1. Text(DefaultPath) \in Token
  BY EnvironmentAssumption DEF Text, Token
<1>2. d \in Definition /\ d.name = "PATH" /\ d.how = "default"
  BY <1>1, EnvironmentAssumption DEF Definition, Def
<1> HIDE DEF d
<1>3. Path = <<d>>
  BY DEF Path, d
<1> QED BY <1>2, <1>3

\* The extra variables, as sequences of definitions.
Extras == [i \in DOMAIN given.extra |-> ReadExtra(given.extra[i])]

\* What GetEnv puts together.
LEMMA GivenTypes ==
    ASSUME given \in Givens
    PROVE  /\ Set(given.environ) \in Seq(Definition) /\ Set(given.unit) \in Seq(Definition)
           /\ Expand(ReadEnvFile(given.files)) \in Seq(Definition)
           /\ Extras \in Seq(Seq(Definition)) /\ FlattenSeq(Extras) \in Seq(Definition)
           /\ GetEnv(given) \in Seq(Definition)
           /\ GetEnv(given) = ((Set(given.environ) \o Set(given.unit)) \o Expand(ReadEnvFile(given.files)))
                                \o FlattenSeq(Extras)
<1>1. /\ Set(given.environ) \in Seq(Definition) /\ Set(given.unit) \in Seq(Definition)
      /\ Expand(ReadEnvFile(given.files)) \in Seq(Definition)
      /\ DOMAIN given.extra = 1..Len(given.extra) /\ Len(given.extra) \in Nat
      /\ \A i \in 1..Len(given.extra) : ReadExtra(given.extra[i]) \in Seq(Definition)
  BY EnvironmentAssumption
<1>2. /\ DOMAIN Extras = 1..Len(given.extra) /\ \A i \in 1..Len(given.extra) : Extras[i] \in Seq(Definition)
  BY <1>1 DEF Extras
<1>3. Extras \in [1..Len(given.extra) -> Seq(Definition)]
  BY <1>1, <1>2 DEF Extras
<1>4. Extras \in Seq(Seq(Definition)) /\ Len(Extras) = Len(given.extra)
  <2>1. PICK k \in Nat : k = Len(given.extra)
    BY <1>1
  <2>2. Extras \in [1..k -> Seq(Definition)]
    BY <1>3, <2>1
  <2>3. Extras \in Seq(Seq(Definition)) /\ DOMAIN Extras = 1..k
    <3>1. PICK seqs : seqs = Extras
      OBVIOUS
    <3>2. seqs \in [1..k -> Seq(Definition)]
      BY <2>2, <3>1
    <3>3. seqs \in Seq(Seq(Definition))
      BY <3>2
    <3>4. DOMAIN seqs = 1..k
      BY <3>2
    <3> QED BY <3>1, <3>3, <3>4
  <2>4. Len(Extras) = k
    BY <2>1, <2>3
  <2> QED BY <2>1, <2>3, <2>4
<1>5. FlattenSeq(Extras) \in Seq(Definition)
  <2>1. Len(Extras) = 0 => Extras = <<>>
    BY <1>4, EmptySeq
  <2> QED BY <1>1, <1>2, <1>4, <2>1, FlattenType
<1>6. GetEnv(given) = ((Set(given.environ) \o Set(given.unit)) \o Expand(ReadEnvFile(given.files)))
                        \o FlattenSeq(Extras)
  BY Zenon DEF GetEnv, Extras
<1>7. GetEnv(given) \in Seq(Definition)
  <2> HIDE DEF Extras
  <2> QED BY <1>1, <1>5, <1>6, ConcatProperties
<1> QED BY <1>1, <1>4, <1>5, <1>6, <1>7

\* Where the definitions of each source are.
InOrder(unit, locale, dirs, m, o, l) ==
    /\ {unit, locale, dirs, Defs} \subseteq Seq(Definition)
    /\ {Len(unit), Len(LocaleReset), Len(locale), Len(dirs), m, o, l} \subseteq Nat
    /\ Len(Defs) = l + Len(dirs)
    /\ \A i \in 1..Len(unit) : Defs[i] = unit[i]
    /\ Defs[m] = Path[1]
    /\ \A i \in 1..Len(LocaleReset) : Defs[m + i] = LocaleReset[i]
    /\ \A i \in 1..Len(locale) : Defs[o + i] = locale[i]
    /\ \A i \in 1..Len(dirs) : Defs[l + i] = dirs[i]

LEMMA SourcesInOrder ==
    ASSUME given \in Givens,
           NEW unit, unit = GetEnv(given), NEW locale, locale = Set(ReadEnvFile(given.locale)),
           NEW dirs, dirs = Set(given.directories), NEW m, m = Len(unit) + 1,
           NEW o, o = m + Len(LocaleReset), NEW l, l = o + Len(locale)
    PROVE  InOrder(unit, locale, dirs, m, o, l)
<1>1. /\ unit \in Seq(Definition) /\ locale \in Seq(Definition) /\ dirs \in Seq(Definition)
      /\ LocaleReset \in Seq(Definition) /\ Path \in Seq(Definition) /\ Len(Path) = 1
  BY EnvironmentAssumption, GivenTypes, ResetIsFull, PathType
<1>2. Defs = (unit \o ((Path \o LocaleReset) \o locale)) \o dirs
  BY DEF Defs, BuildServiceEnv, ExtendExecEnv, LocaleReset, Path
<1>3. PICK s : s = Path \o LocaleReset
  OBVIOUS
<1>4. Joined(s, Path, LocaleReset)
  BY <1>1, <1>3, Concatenated, Zenon
<1>5. /\ s \in Seq(Definition) /\ Len(LocaleReset) \in Nat /\ Len(s) = 1 + Len(LocaleReset)
      /\ s[1] = Path[1] /\ \A i \in 1..Len(LocaleReset) : s[1 + i] = LocaleReset[i]
  BY <1>1, <1>4 DEF Joined
<1>6. PICK t : t = s \o locale
  OBVIOUS
<1>7. Joined(t, s, locale)
  BY <1>1, <1>5, <1>6, Concatenated, Zenon
<1>8. /\ t \in Seq(Definition) /\ Len(locale) \in Nat /\ Len(t) = Len(s) + Len(locale)
      /\ \A i \in 1..Len(s) : t[i] = s[i]
      /\ \A i \in 1..Len(locale) : t[Len(s) + i] = locale[i]
  BY <1>7 DEF Joined
<1>9. PICK w : w = unit \o t
  OBVIOUS
<1>10. Joined(w, unit, t)
  BY <1>1, <1>8, <1>9, Concatenated, Zenon
<1>11. /\ w \in Seq(Definition) /\ Len(unit) \in Nat /\ Len(w) = Len(unit) + Len(t)
       /\ \A i \in 1..Len(unit) : w[i] = unit[i]
       /\ \A i \in 1..Len(t) : w[Len(unit) + i] = t[i]
  BY <1>10 DEF Joined
<1>12. /\ Defs \in Seq(Definition) /\ Len(dirs) \in Nat /\ Len(Defs) = Len(w) + Len(dirs)
       /\ \A i \in 1..Len(w) : Defs[i] = w[i]
       /\ \A i \in 1..Len(dirs) : Defs[Len(w) + i] = dirs[i]
  <2>1. Defs = w \o dirs
    BY <1>2, <1>3, <1>6, <1>9
  <2>2. Joined(Defs, w, dirs)
    BY <1>1, <1>11, <2>1, Concatenated, Zenon
  <2> QED BY <2>2 DEF Joined
<1>13. Len(w) = l /\ {m, o, l} \subseteq Nat
  BY <1>5, <1>8, <1>11
<1>14. \A i \in 1..Len(t) : Defs[Len(unit) + i] = t[i]
  <2>1. \A i \in 1..Len(t) : Len(unit) + i \in 1..Len(w)
    BY <1>5, <1>8, <1>11
  <2>2. \A i \in 1..Len(t) : w[Len(unit) + i] = t[i]
    BY <1>10, Zenon DEF Joined
  <2>3. \A i \in 1..Len(w) : Defs[i] = w[i]
    BY <1>12, Zenon
  <2> QED BY <2>1, <2>2, <2>3, Zenon
<1>15. ASSUME NEW i \in 1..Len(unit) PROVE Defs[i] = unit[i]
  <2>1. i \in 1..Len(w)
    BY <1>5, <1>8, <1>11
  <2> QED BY <1>11, <1>12, <2>1
<1>16. Defs[m] = Path[1]
  BY <1>5, <1>8, <1>14
<1>17. ASSUME NEW i \in 1..Len(LocaleReset) PROVE Defs[m + i] = LocaleReset[i]
  <2>1. 1 + i \in 1..Len(s) /\ 1 + i \in 1..Len(t) /\ Len(unit) + (1 + i) = m + i
    BY <1>5, <1>8, <1>11
  <2>2. t[1 + i] = LocaleReset[i]
    BY <1>5, <1>8, <2>1
  <2> QED BY <1>14, <2>1, <2>2
<1>18. ASSUME NEW i \in 1..Len(locale) PROVE Defs[o + i] = locale[i]
  <2>1. Len(s) + i \in 1..Len(t) /\ Len(unit) + (Len(s) + i) = o + i
    BY <1>5, <1>8, <1>11
  <2> QED BY <1>8, <1>14, <2>1
<1>19. {unit, locale, dirs, Defs} \subseteq Seq(Definition)
  BY <1>1, <1>12
<1>20. {Len(unit), Len(LocaleReset), Len(locale), Len(dirs), m, o, l} \subseteq Nat
  BY <1>5, <1>8, <1>11, <1>12, <1>13
<1>21. Len(Defs) = l + Len(dirs) /\ \A i \in 1..Len(dirs) : Defs[l + i] = dirs[i]
  BY <1>12, <1>13
<1> QED BY <1>15, <1>16, <1>17, <1>18, <1>19, <1>20, <1>21 DEF InOrder

LEMMA DefsType == ASSUME given \in Givens PROVE Defs \in Seq(Definition) /\ Len(Defs) \in Nat
BY SourcesInOrder, LenProperties DEF InOrder

LEMMA SourcesInvInit == EnvironmentInit => SourcesInv
<1> SUFFICES ASSUME EnvironmentInit PROVE SourcesInv
  OBVIOUS
<1>1. given \in Givens /\ queue = Defs /\ DOMAIN env = {} /\ expanding.round = 0
  BY DEF EnvironmentInit, Defs, Idle
<1>2. Defs \in Seq(Definition) /\ Len(Defs) \in Nat
  BY <1>1, DefsType
<1>3. queue = SubSeq(Defs, 0 + 1, Len(Defs)) /\ 0 \in 0..Len(Defs)
  BY <1>1, <1>2, SubSeqFull
<1>4. Made(0)
  BY <1>1 DEF Made
<1> QED BY <1>1, <1>3, <1>4 DEF SourcesInv

\* One more definition is made: its variable gets its value, unless it is a default for
\* one that is there; a definition that is expanded gets some value.
LEMMA OneMore ==
    ASSUME given \in Givens, UNCHANGED given, NEW k \in 0..Len(Defs), k < Len(Defs), Made(k),
           NEW value, Defs[k + 1].how # "expand" => value = Defs[k + 1].value,
           \/ /\ Defs[k + 1].how = "default" /\ Defs[k + 1].name \in DOMAIN env
              /\ env' = env /\ made' = made
           \/ /\ ~ (Defs[k + 1].how = "default" /\ Defs[k + 1].name \in DOMAIN env)
              /\ env' = Defined(env, Defs[k + 1].name, value)
              /\ made' = Defined(made, Defs[k + 1].name, Defs[k + 1]),
           EnvironmentTypeOK
    PROVE  Made(k + 1)'
<1>1. Defs \in Seq(Definition) /\ Len(Defs) \in Nat /\ k \in Nat
  BY DefsType
<1>2. Defs' = Defs
  BY DEF Defs
<1>3. \A i \in 1..(k + 1) : Defs[i] \in Definition
  BY <1>1
<1>4. \A i \in 1..(k + 1) : Defs[i].name \in Names
  BY <1>3 DEF Definition
<1> DEFINE d == Defs[k + 1]
<1>5. DOMAIN env' = DOMAIN env \cup {d.name} /\ DOMAIN made = DOMAIN env
  BY DEF Defined, EnvironmentTypeOK
<1>6. ASSUME NEW n \in Names PROVE n \in DOMAIN env' <=> \E i \in 1..(k + 1) : Defs'[i].name = n
  BY <1>1, <1>2, <1>5 DEF Made
<1>7. ASSUME NEW i \in 1..(k + 1),
             Defs[i].how = "default" => \A j \in 1..(i - 1) : Defs[j].name # Defs[i].name,
             \A j \in (i + 1)..(k + 1) : Defs[j].name = Defs[i].name => Defs[j].how = "default"
      PROVE  Counts(Defs[i].name, Defs[i])'
  <2>1. CASE i = k + 1
    <3>1. ~ (d.how = "default" /\ d.name \in DOMAIN env)
      <4>1. (k + 1) - 1 = k /\ d.name \in Names
        BY <1>1, <1>4
      <4> QED BY <1>7, <2>1, <4>1 DEF Made
    <3>2. env'[d.name] = value /\ made'[d.name] = d
      BY <3>1 DEF Defined
    <3> QED BY <1>2, <2>1, <3>2 DEF Counts
  <2>2. CASE i # k + 1
    <3>1. i \in 1..k /\ k + 1 \in (i + 1)..(k + 1) /\ \A j \in (i + 1)..k : j \in (i + 1)..(k + 1)
      BY <1>1, <2>2
    <3>2. Counts(Defs[i].name, Defs[i]) /\ Defs[i].name \in DOMAIN env
      BY <1>4, <1>7, <3>1 DEF Made
    <3>3. d.name = Defs[i].name => d.how = "default"
      BY <1>7, <3>1
    <3>4. env'[Defs[i].name] = env[Defs[i].name] /\ made'[Defs[i].name] = made[Defs[i].name]
      BY <1>5, <3>2, <3>3 DEF Defined
    <3> QED BY <1>2, <3>2, <3>4 DEF Counts
  <2> QED BY <2>1, <2>2
<1> QED BY <1>2, <1>6, <1>7 DEF Made

LEMMA SourcesInvStep == SourcesInv /\ EnvironmentTypeOK /\ [EnvironmentNext]_environmentVars => SourcesInv'
<1> SUFFICES ASSUME SourcesInv, EnvironmentTypeOK, [EnvironmentNext]_environmentVars PROVE SourcesInv'
  OBVIOUS
<1>1. given' = given /\ given \in Givens /\ Defs' = Defs
  BY DEF SourcesInv, EnvironmentNext, Define, BeginExpand, Round, environmentVars, Defs
<1>2. PICK k \in 0..Len(Defs) : queue = SubSeq(Defs, k + 1, Len(Defs)) /\ Made(k)
  BY DEF SourcesInv
<1>3. Defs \in Seq(Definition) /\ Len(Defs) \in Nat /\ k \in Nat
  BY <1>1, DefsType
<1>4. ASSUME queue # <<>>
      PROVE  /\ k < Len(Defs) /\ k + 1 \in 0..Len(Defs)
             /\ Head(queue) = Defs[k + 1] /\ Tail(queue) = SubSeq(Defs, k + 2, Len(Defs))
  <2>1. k < Len(Defs)
    <3> SUFFICES ASSUME k = Len(Defs) PROVE FALSE
      BY <1>3
    <3> QED BY <1>2, <1>3, <1>4, SubSeqEmpty
  <2>2. k + 1 \in 1..Len(Defs) /\ Len(Defs) \in (k + 1)..Len(Defs) /\ (k + 1) + 1 = k + 2
    BY <1>3, <2>1
  <2>3. /\ Head(SubSeq(Defs, k + 1, Len(Defs))) = Defs[k + 1]
        /\ Tail(SubSeq(Defs, k + 1, Len(Defs))) = SubSeq(Defs, (k + 1) + 1, Len(Defs))
    BY <1>3, <2>2, HeadTailOfSubSeq
  <2> QED BY <1>2, <1>3, <2>1, <2>2, <2>3
<1>5. ASSUME queue # <<>>, queue' = Tail(queue), Made(k + 1)', expanding'.round = 0
      PROVE  SourcesInv'
  <2>1. k + 1 \in 0..Len(Defs') /\ queue' = SubSeq(Defs', (k + 1) + 1, Len(Defs'))
    BY <1>1, <1>3, <1>4, <1>5
  <2>2. \E j \in 0..Len(Defs') : queue' = SubSeq(Defs', j + 1, Len(Defs')) /\ Made(j)'
    BY <1>5, <2>1
  <2>3. given' \in Givens /\ ~ (expanding'.round > 0)
    BY <1>1, <1>5
  <2> QED BY <2>2, <2>3 DEF SourcesInv
<1>6. ASSUME Define PROVE SourcesInv'
  <2>1. /\ queue # <<>> /\ queue' = Tail(queue) /\ expanding' = expanding
        /\ Head(queue).how \in {"set", "default"}
        /\ \/ /\ Head(queue).how = "default" /\ Head(queue).name \in DOMAIN env
              /\ env' = env /\ made' = made
           \/ /\ ~ (Head(queue).how = "default" /\ Head(queue).name \in DOMAIN env)
              /\ env' = Defined(env, Head(queue).name, Head(queue).value)
              /\ made' = Defined(made, Head(queue).name, Head(queue))
    BY <1>6 DEF Define, Make
  <2>2. Made(k + 1)'
    BY <1>1, <1>2, <1>4, <2>1, OneMore
  <2>3. expanding.round > 0 => Head(queue).how = "expand"
    BY DEF SourcesInv
  <2>4. k + 1 \in 0..Len(Defs') /\ queue' = SubSeq(Defs', (k + 1) + 1, Len(Defs'))
    BY <1>1, <1>3, <1>4, <2>1
  <2> QED BY <1>1, <2>1, <2>2, <2>3, <2>4 DEF SourcesInv
<1>7. ASSUME BeginExpand PROVE SourcesInv'
  <2>1. queue # <<>> /\ Head(queue).how = "expand" /\ UNCHANGED <<given, queue, env, made>>
    BY <1>7 DEF BeginExpand
  <2>2. Made(k)'
    BY <1>1, <1>2, <2>1 DEF Made, Counts
  <2> QED BY <1>1, <1>2, <2>1, <2>2 DEF SourcesInv
<1>8. ASSUME Round PROVE SourcesInv'
  <2>1. queue # <<>> /\ Head(queue).how = "expand"
    BY <1>8 DEF Round, SourcesInv
  <2>2. CASE UNCHANGED <<env, made, queue>>
    <3>1. Made(k)'
      BY <1>1, <1>2, <2>2 DEF Made, Counts
    <3> QED BY <1>1, <1>2, <2>1, <2>2, <3>1 DEF SourcesInv
  <2>3. CASE /\ queue' = Tail(queue) /\ expanding' = Idle
             /\ env' = Defined(env, Head(queue).name, Replaced("braced", expanding.value))
             /\ made' = Defined(made, Head(queue).name, Head(queue))
    <3>1. Made(k + 1)'
      BY <1>1, <1>2, <1>4, <2>1, <2>3, OneMore
    <3> QED BY <1>5, <2>1, <2>3, <3>1 DEF Idle
  <2> QED BY <1>8, <2>2, <2>3 DEF Round, Make
<1>9. ASSUME UNCHANGED environmentVars PROVE SourcesInv'
  <2>1. Made(k)'
    BY <1>1, <1>2, <1>9 DEF Made, Counts, environmentVars
  <2> QED BY <1>1, <1>2, <1>9, <2>1 DEF SourcesInv, environmentVars
<1> QED BY <1>6, <1>7, <1>8, <1>9 DEF EnvironmentNext

\* What a source says last of a variable.
Says(s, n) == \E i \in 1..Len(s) : s[i].name = n

SaysLast(s, n, k) ==
    /\ k \in 1..Len(s) /\ LastOf(s, n) = s[k] /\ s[k].name = n
    /\ \A j \in 1..Len(s) : k < j => s[j].name # n

LEMMA LastIsLast ==
    ASSUME NEW s \in Seq(Definition), NEW n, Says(s, n)
    PROVE  \E k : SaysLast(s, n, k)
<1>1. PICK i \in 1..Len(s) : s[i].name = n
  BY DEF Says
<1> DEFINE about == {j \in 1..Len(s) : s[j].name = n}
           behind == {l \in Nat : \E j \in about : l = Len(s) - j}
           last(x) == \A j \in about : j <= x
<1>2. Len(s) \in Nat /\ DOMAIN s = 1..Len(s)
  BY LenProperties
<1>3. behind \subseteq Nat /\ about \subseteq 1..Len(s) /\ i \in about
  BY <1>1
<1>4. \A j \in about : Len(s) - j \in behind /\ j \in Nat
  <2> SUFFICES ASSUME NEW j \in about PROVE Len(s) - j \in behind /\ j \in Nat
    OBVIOUS
  <2>1. j \in Nat /\ Len(s) - j \in Nat
    BY <1>2, <1>3
  <2> QED BY <2>1
<1>5. \A x \in behind : \E j \in about : x = Len(s) - j
  OBVIOUS
<1>6. {x \in DOMAIN s : s[x].name = n} = about
  BY <1>2
<1>7. \A x \in about : s[x].name = n
  OBVIOUS
<1>8. \A j \in 1..Len(s) : s[j].name = n => j \in about
  OBVIOUS
<1> HIDE DEF behind, about
<1>9. PICK l \in behind : \A x \in behind : ~ (<<x, l>> \in OpToRel(<, Nat))
  BY <1>3, <1>4, WFMin, NatLessThanWellFounded
<1>10. OpToRel(<, Nat) = {ss \in Nat \X Nat : ss[1] < ss[2]}
  BY Zenon DEF OpToRel
<1>11. \A x \in behind : ~ (x < l)
  BY <1>3, <1>9, <1>10
<1>12. PICK k \in about : l = Len(s) - k
  BY <1>5
<1>13. last(k)
  <2> SUFFICES ASSUME NEW j \in about PROVE j <= k
    OBVIOUS
  <2>1. ~ (Len(s) - j < Len(s) - k) /\ j \in Nat /\ k \in Nat
    BY <1>4, <1>11, <1>12
  <2> QED BY <1>2, <2>1
<1> DEFINE c == CHOOSE x \in about : last(x)
<1>14. c \in about /\ last(c)
  BY <1>13
<1>15. LastOf(s, n) = s[c]
  BY <1>3, <1>6 DEF LastOf
<1> HIDE DEF c
<1>16. ASSUME NEW j \in 1..Len(s), c < j PROVE s[j].name # n
  <2> SUFFICES ASSUME j \in about PROVE FALSE
    BY <1>8
  <2>1. j <= c /\ c \in Nat /\ j \in Nat
    BY <1>4, <1>14
  <2> QED BY <1>16, <2>1
<1> QED BY <1>3, <1>7, <1>14, <1>15, <1>16 DEF SaysLast

LEMMA SaysIffLast ==
    ASSUME NEW s \in Seq(Definition), NEW n
    PROVE  LastOf(s, n).how # "none" <=> Says(s, n)
<1>1. ASSUME Says(s, n) PROVE LastOf(s, n).how # "none"
  <2>1. PICK k : SaysLast(s, n, k)
    BY <1>1, LastIsLast
  <2>2. s[k] \in Definition /\ LastOf(s, n) = s[k]
    BY <2>1 DEF SaysLast
  <2> QED BY <2>2 DEF Definition
<1>2. ASSUME ~ Says(s, n) PROVE LastOf(s, n).how = "none"
  <2>1. {i \in DOMAIN s : s[i].name = n} = {}
    BY <1>2, LenProperties DEF Says
  <2> QED BY <2>1 DEF LastOf, Def
<1> QED BY <1>1, <1>2

LEMMA SaysNothing == ASSUME NEW s \in Seq(Definition), NEW n, ~ Says(s, n) PROVE LastOf(s, n) = Def("none", n, <<>>)
<1>1. {i \in DOMAIN s : s[i].name = n} = {}
  BY LenProperties DEF Says
<1> QED BY <1>1 DEF LastOf

\* The last word about n can be only in one place.
LEMMA OnlyLast ==
    ASSUME NEW s \in Seq(Definition), NEW n, NEW k \in 1..Len(s), s[k].name = n,
           \A j \in 1..Len(s) : k < j => s[j].name # n
    PROVE  LastOf(s, n) = s[k]
<1>1. Says(s, n)
  BY DEF Says
<1>2. PICK q : SaysLast(s, n, q)
  BY <1>1, LastIsLast, Zenon
<1>3. q \in 1..Len(s) /\ LastOf(s, n) = s[q] /\ s[q].name = n /\ \A j \in 1..Len(s) : q < j => s[j].name # n
  BY <1>2 DEF SaysLast
<1>4. Len(s) \in Nat /\ q \in Nat /\ k \in Nat /\ ~ (q < k) /\ ~ (k < q)
  BY <1>3, LenProperties
<1>5. q = k
  BY <1>4
<1> QED BY <1>3, <1>5

\* What comes last is what counts.
LEMMA LastOfConcat ==
    ASSUME NEW s \in Seq(Definition), NEW t \in Seq(Definition), NEW n
    PROVE  /\ Says(s \o t, n) <=> Says(s, n) \/ Says(t, n)
           /\ LastOf(s \o t, n) = IF Says(t, n) THEN LastOf(t, n) ELSE LastOf(s, n)
<1>1. PICK r : r = s \o t
  OBVIOUS
<1>2. Joined(r, s, t)
  BY <1>1, Concatenated, Zenon
<1>3. /\ r \in Seq(Definition) /\ Len(s) \in Nat /\ Len(t) \in Nat /\ Len(r) = Len(s) + Len(t)
      /\ \A i \in 1..Len(s) : r[i] = s[i]
      /\ \A i \in 1..Len(t) : r[Len(s) + i] = t[i]
  BY <1>2 DEF Joined
<1>4. \A i \in 1..Len(s) : i \in 1..Len(r)
  BY <1>3
<1>5. \A i \in 1..Len(t) : Len(s) + i \in 1..Len(r)
  BY <1>3
<1>6. ASSUME NEW i \in 1..Len(r)
      PROVE  \/ i \in 1..Len(s) /\ r[i] = s[i]
             \/ \E z \in 1..Len(t) : i = Len(s) + z /\ r[i] = t[z]
  <2>1. CASE i <= Len(s)
    <3>1. i \in 1..Len(s)
      BY <1>3, <2>1
    <3> QED BY <1>3, <3>1
  <2>2. CASE ~ (i <= Len(s))
    <3>1. i - Len(s) \in 1..Len(t) /\ i = Len(s) + (i - Len(s))
      BY <1>3, <2>2
    <3>2. PICK z \in 1..Len(t) : i = Len(s) + z
      BY <3>1
    <3> QED BY <1>3, <3>2
  <2> QED BY <2>1, <2>2
<1>7. Says(r, n) <=> Says(s, n) \/ Says(t, n)
  BY <1>3, <1>4, <1>5, <1>6 DEF Says
<1>8. ASSUME Says(t, n) PROVE LastOf(r, n) = LastOf(t, n)
  <2>1. PICK k : SaysLast(t, n, k)
    BY <1>8, LastIsLast, Zenon
  <2>2. k \in 1..Len(t) /\ LastOf(t, n) = t[k] /\ t[k].name = n /\ \A j \in 1..Len(t) : k < j => t[j].name # n
    BY <2>1 DEF SaysLast
  <2>3. Len(s) + k \in 1..Len(r) /\ r[Len(s) + k] = t[k]
    BY <1>3, <1>5, <2>2
  <2>4. ASSUME NEW j \in 1..Len(r), Len(s) + k < j PROVE r[j].name # n
    <3>1. j \notin 1..Len(s) /\ \A z \in 1..Len(t) : j = Len(s) + z => k < z
      BY <1>3, <2>2, <2>4
    <3> QED BY <1>6, <2>2, <3>1
  <2> QED BY <1>3, <2>2, <2>3, <2>4, OnlyLast
<1>9. ASSUME ~ Says(t, n), Says(s, n) PROVE LastOf(r, n) = LastOf(s, n)
  <2>1. PICK k : SaysLast(s, n, k)
    BY <1>9, LastIsLast, Zenon
  <2>2. k \in 1..Len(s) /\ LastOf(s, n) = s[k] /\ s[k].name = n /\ \A j \in 1..Len(s) : k < j => s[j].name # n
    BY <2>1 DEF SaysLast
  <2>3. k \in 1..Len(r) /\ r[k] = s[k]
    BY <1>3, <1>4, <2>2
  <2>4. ASSUME NEW j \in 1..Len(r), k < j PROVE r[j].name # n
    BY <1>6, <1>9, <2>2, <2>4 DEF Says
  <2> QED BY <1>3, <2>2, <2>3, <2>4, OnlyLast
<1>10. ASSUME ~ Says(t, n), ~ Says(s, n) PROVE LastOf(r, n) = LastOf(s, n)
  BY <1>3, <1>7, <1>10, SaysNothing
<1> QED BY <1>1, <1>7, <1>8, <1>9, <1>10

\* A source that says one thing, and one that says nothing.
LEMMA OneSays ==
    ASSUME NEW d \in Definition
    PROVE  <<d>> \in Seq(Definition) /\ Says(<<d>>, d.name) /\ LastOf(<<d>>, d.name) = d
<1>1. PICK s : s = <<d>>
  OBVIOUS
<1>2. s \in Seq(Definition) /\ Len(s) = 1 /\ s[1] = d
  BY <1>1
<1>3. 1 \in 1..Len(s) /\ \A j \in 1..Len(s) : ~ (1 < j)
  BY <1>2
<1>4. Says(s, d.name)
  BY <1>2, <1>3 DEF Says
<1>5. LastOf(s, d.name) = s[1]
  BY <1>2, <1>3, OnlyLast
<1> QED BY <1>1, <1>2, <1>4, <1>5

LEMMA NoneSays ==
    ASSUME NEW n
    PROVE  <<>> \in Seq(Definition) /\ ~ Says(<<>>, n) /\ LastOf(<<>>, n) = Def("none", n, <<>>)
<1>1. <<>> \in Seq(Definition) /\ ~ Says(<<>>, n)
  BY EmptySeq DEF Says
<1> QED BY <1>1, SaysNothing

\* The strongest source of n, and what it says last of n.
Strongest(n) ==
    IF Says(Set(given.directories), n) THEN LastOf(Set(given.directories), n)
    ELSE IF Says(Set(ReadEnvFile(given.locale)), n) THEN LastOf(Set(ReadEnvFile(given.locale)), n)
    ELSE IF n \in Locale THEN Def("set", n, <<>>)
    ELSE IF Says(GetEnv(given), n) THEN LastOf(GetEnv(given), n)
    ELSE IF n = "PATH" THEN Path[1] ELSE Def("none", n, <<>>)

\* Kept folded: the provers then need not look into the sequences.
Regrouped(s, t, u) == (s \o t) \o u = s \o (t \o u)

LEMMA ConcatDefinitions == \A s, t, u \in Seq(Definition) : Regrouped(s, t, u)
BY ConcatAssociative DEF Regrouped

FiveRegrouped(s, t, u, v, w) == (((s \o t) \o u) \o v) \o w = s \o (((t \o u) \o v) \o w)

LEMMA ConcatOfFive == \A s, t, u, v, w \in Seq(Definition) : FiveRegrouped(s, t, u, v, w)
<1> SUFFICES ASSUME NEW s \in Seq(Definition), NEW t \in Seq(Definition), NEW u \in Seq(Definition),
                    NEW v \in Seq(Definition), NEW w \in Seq(Definition)
             PROVE  FiveRegrouped(s, t, u, v, w)
  OBVIOUS
<1>1. PICK tu, tuv : tu = t \o u /\ tuv = tu \o v
  OBVIOUS
<1>2. tu \in Seq(Definition)
  BY <1>1, ConcatProperties
<1>3. tuv \in Seq(Definition)
  BY <1>1, <1>2, ConcatProperties
<1>4. Regrouped(s, t, u) /\ Regrouped(s, tu, v) /\ Regrouped(s, tuv, w)
  BY <1>2, <1>3, ConcatDefinitions, Zenon
<1> QED BY <1>1, <1>4, Zenon DEF Regrouped, FiveRegrouped

LEMMA StrongestIs ==
    ASSUME given \in Givens, NEW n \in Names
    PROVE  /\ LastOf(WeakestFirst(n), n) = Strongest(n)
           /\ Strongest(n).how # "none" <=>
                \/ Says(Set(given.directories), n) \/ Says(Set(ReadEnvFile(given.locale)), n)
                \/ n \in Locale \/ Says(GetEnv(given), n) \/ n = "PATH"
<1>1. PICK path, environ, words, fromFiles, extra, reset, locale, dirs :
         /\ path = IF n = "PATH" THEN <<Def("default", n, <<Text(DefaultPath)>>)>> ELSE <<>>
         /\ environ = Set(given.environ) /\ words = Set(given.unit) /\ fromFiles = Expand(ReadEnvFile(given.files))
         /\ extra = FlattenSeq(Extras)
         /\ reset = IF n \in Locale THEN <<Def("set", n, <<>>)>> ELSE <<>>
         /\ locale = Set(ReadEnvFile(given.locale)) /\ dirs = Set(given.directories)
  OBVIOUS
<1>2. /\ environ \in Seq(Definition) /\ words \in Seq(Definition) /\ fromFiles \in Seq(Definition)
      /\ extra \in Seq(Definition) /\ locale \in Seq(Definition) /\ dirs \in Seq(Definition)
  BY <1>1, GivenTypes, EnvironmentAssumption
<1>3. PICK none : none = Def("none", n, <<>>) /\ none.how = "none"
  <2>1. Def("none", n, <<>>).how = "none"
    BY DEF Def
  <2> QED BY <2>1
<1>4. /\ path \in Seq(Definition) /\ (Says(path, n) <=> n = "PATH")
      /\ LastOf(path, n) = IF n = "PATH" THEN Path[1] ELSE none
  <2>1. Path[1] \in Definition /\ Path[1].name = "PATH" /\ Path = <<Path[1]>>
    <3>1. Path[1] \in Definition /\ Path[1].name = "PATH"
      BY PathType
    <3> QED BY <3>1 DEF Path
  <2>2. CASE n = "PATH"
    <3>1. path = <<Path[1]>>
      BY <1>1, <2>1, <2>2 DEF Path
    <3> QED BY <2>1, <2>2, <3>1, OneSays
  <2>3. CASE n # "PATH"
    <3>1. path = <<>>
      BY <1>1, <2>3
    <3> QED BY <1>3, <2>3, <3>1, NoneSays
  <2> QED BY <2>2, <2>3
<1>5. /\ reset \in Seq(Definition) /\ (Says(reset, n) <=> n \in Locale)
      /\ LastOf(reset, n) = IF n \in Locale THEN Def("set", n, <<>>) ELSE none
  <2>1. PICK d : d = Def("set", n, <<>>) /\ d \in Definition /\ d.name = n
    <3>1. Def("set", n, <<>>) \in Definition /\ Def("set", n, <<>>).name = n
      BY EmptySeq DEF Def, Definition
    <3> QED BY <3>1
  <2>2. CASE n \in Locale
    <3>1. reset = <<d>>
      BY <1>1, <2>1, <2>2
    <3> QED BY <2>1, <2>2, <3>1, OneSays
  <2>3. CASE n \notin Locale
    <3>1. reset = <<>>
      BY <1>1, <2>3
    <3> QED BY <1>3, <2>3, <3>1, NoneSays
  <2> QED BY <2>2, <2>3
<1>6. PICK unit : unit = GetEnv(given)
  OBVIOUS
<1>7. unit \in Seq(Definition) /\ unit = ((environ \o words) \o fromFiles) \o extra
  BY <1>1, <1>6, GivenTypes
<1>8. WeakestFirst(n) = ((path \o unit) \o reset) \o locale \o dirs
  <2>1. WeakestFirst(n) = ((((((path \o environ) \o words) \o fromFiles) \o extra) \o reset) \o locale) \o dirs
    BY <1>1, Zenon DEF WeakestFirst, Extras
  <2>2. (((path \o environ) \o words) \o fromFiles) \o extra = path \o (((environ \o words) \o fromFiles) \o extra)
    <3>1. /\ path \in Seq(Definition) /\ environ \in Seq(Definition) /\ words \in Seq(Definition)
          /\ fromFiles \in Seq(Definition) /\ extra \in Seq(Definition)
      BY <1>2, <1>4, Zenon
    <3>2. FiveRegrouped(path, environ, words, fromFiles, extra)
      BY <3>1, ConcatOfFive, Zenon
    <3> QED BY <3>2, Zenon DEF FiveRegrouped
  <2> QED BY <1>7, <2>1, <2>2, Zenon
<1>9. PICK w1, w2, w3 : w1 = path \o unit /\ w2 = w1 \o reset /\ w3 = w2 \o locale
  OBVIOUS
<1>10. w1 \in Seq(Definition) /\ w2 \in Seq(Definition) /\ w3 \in Seq(Definition)
  BY <1>2, <1>4, <1>5, <1>7, <1>9, ConcatProperties
<1>11. LastOf(w1, n) = IF Says(unit, n) THEN LastOf(unit, n) ELSE LastOf(path, n)
  <2>1. LastOf(path \o unit, n) = IF Says(unit, n) THEN LastOf(unit, n) ELSE LastOf(path, n)
    <3>1. path \in Seq(Definition) /\ unit \in Seq(Definition)
      BY <1>4, <1>7, Zenon
    <3> QED BY <3>1, LastOfConcat
  <2> QED BY <1>9, <2>1, Zenon
<1>12. LastOf(w2, n) = IF Says(reset, n) THEN LastOf(reset, n) ELSE LastOf(w1, n)
  <2>1. LastOf(w1 \o reset, n) = IF Says(reset, n) THEN LastOf(reset, n) ELSE LastOf(w1, n)
    BY <1>5, <1>10, LastOfConcat
  <2> QED BY <1>9, <2>1, Zenon
<1>13. LastOf(w3, n) = IF Says(locale, n) THEN LastOf(locale, n) ELSE LastOf(w2, n)
  <2>1. LastOf(w2 \o locale, n) = IF Says(locale, n) THEN LastOf(locale, n) ELSE LastOf(w2, n)
    BY <1>2, <1>10, LastOfConcat
  <2> QED BY <1>9, <2>1, Zenon
<1>14. LastOf(WeakestFirst(n), n) = IF Says(dirs, n) THEN LastOf(dirs, n) ELSE LastOf(w3, n)
  <2>1. LastOf(w3 \o dirs, n) = IF Says(dirs, n) THEN LastOf(dirs, n) ELSE LastOf(w3, n)
    BY <1>2, <1>10, LastOfConcat
  <2>2. WeakestFirst(n) = w3 \o dirs
    BY <1>8, <1>9, Zenon
  <2> QED BY <2>1, <2>2, Zenon
<1>15. Strongest(n) = IF Says(dirs, n) THEN LastOf(dirs, n)
                      ELSE IF Says(locale, n) THEN LastOf(locale, n)
                      ELSE IF n \in Locale THEN Def("set", n, <<>>)
                      ELSE IF Says(unit, n) THEN LastOf(unit, n)
                      ELSE IF n = "PATH" THEN Path[1] ELSE none
  BY <1>1, <1>3, <1>6, Zenon DEF Strongest
<1>16. LastOf(WeakestFirst(n), n) = Strongest(n)
  BY <1>4, <1>5, <1>11, <1>12, <1>13, <1>14, <1>15
<1>17. /\ LastOf(dirs, n).how # "none" <=> Says(dirs, n)
       /\ LastOf(locale, n).how # "none" <=> Says(locale, n)
       /\ LastOf(unit, n).how # "none" <=> Says(unit, n)
  BY <1>2, <1>7, SaysIffLast, Zenon
<1>18. Def("set", n, <<>>).how # "none" /\ Path[1].how # "none"
  BY PathType DEF Def
<1>19. Strongest(n).how # "none" <=> \/ Says(dirs, n) \/ Says(locale, n) \/ n \in Locale
                                    \/ Says(unit, n) \/ n = "PATH"
  BY <1>3, <1>15, <1>17, <1>18
<1> QED BY <1>1, <1>6, <1>16, <1>19

\* Only the default path is a default.
Firm(s) == s \in Seq(Definition) /\ \A i \in 1..Len(s) : s[i].how # "default"

LEMMA FirmConcat == ASSUME NEW s, NEW t, Firm(s), Firm(t) PROVE Firm(s \o t)
<1>1. s \in Seq(Definition) /\ t \in Seq(Definition)
  BY DEF Firm
<1>2. /\ s \o t \in Seq(Definition) /\ Len(s \o t) = Len(s) + Len(t) /\ Len(s) \in Nat /\ Len(t) \in Nat
      /\ \A i \in 1..(Len(s) + Len(t)) : (s \o t)[i] = IF i <= Len(s) THEN s[i] ELSE t[i - Len(s)]
  BY <1>1, ConcatProperties, LenProperties
<1>3. \A i \in 1..(Len(s) + Len(t)) : IF i <= Len(s) THEN i \in 1..Len(s) ELSE i - Len(s) \in 1..Len(t)
  BY <1>2
<1> QED BY <1>2, <1>3 DEF Firm

LEMMA FirmSet ==
    /\ \A p : Set(p) \in Seq(Definition) => Firm(Set(p))
    /\ \A p : Expand(p) \in Seq(Definition) => Firm(Expand(p))
<1>1. ASSUME NEW p, Set(p) \in Seq(Definition) PROVE Firm(Set(p))
  <2>1. \A i \in DOMAIN p : Set(p)[i].how = "set"
    BY DEF Set, Def
  <2>2. DOMAIN Set(p) = DOMAIN p /\ DOMAIN Set(p) = 1..Len(Set(p))
    BY <1>1, LenProperties DEF Set
  <2> QED BY <1>1, <2>1, <2>2 DEF Firm
<1>2. ASSUME NEW p, Expand(p) \in Seq(Definition) PROVE Firm(Expand(p))
  <2>1. \A i \in DOMAIN p : Expand(p)[i].how = "expand"
    BY DEF Expand, Def
  <2>2. DOMAIN Expand(p) = DOMAIN p /\ DOMAIN Expand(p) = 1..Len(Expand(p))
    BY <1>2, LenProperties DEF Expand
  <2> QED BY <1>2, <2>1, <2>2 DEF Firm
<1> QED BY <1>1, <1>2

LEMMA GivenIsFirm == ASSUME given \in Givens PROVE Firm(GetEnv(given))
<1> DEFINE Word == {d \in Definition : d.how # "default"}
<1>1. \A s : Firm(s) <=> s \in Seq(Word)
  <2>1. ASSUME NEW s, Firm(s) PROVE s \in Seq(Word)
    <3>1. s \in Seq(Definition) /\ \A i \in 1..Len(s) : s[i] \in Word
      BY <2>1 DEF Firm
    <3>2. Len(s) \in Nat /\ s \in [1..Len(s) -> Word]
      BY <3>1, LenProperties
    <3> QED BY <3>2
  <2>2. ASSUME NEW s \in Seq(Word) PROVE Firm(s)
    <3>1. s \in Seq(Definition) /\ \A i \in 1..Len(s) : s[i] \in Word
      BY SeqMonotonic
    <3> QED BY <3>1 DEF Firm
  <2> QED BY <2>1, <2>2
<1>2. DOMAIN given.extra = 1..Len(given.extra) /\ Len(given.extra) \in Nat
  BY EnvironmentAssumption
<1>3. ASSUME NEW i \in 1..Len(given.extra) PROVE ReadExtra(given.extra[i]) \in Seq(Word)
  <2>1. ReadExtra(given.extra[i]) \in Seq(Definition)
    BY EnvironmentAssumption
  <2>2. \/ ReadExtra(given.extra[i]) = Expand(ReadEnvFile(given.extra[i].lines))
        \/ ReadExtra(given.extra[i]) = Set(given.extra[i].pairs)
    BY DEF ReadExtra
  <2>3. Firm(ReadExtra(given.extra[i]))
    BY <2>1, <2>2, FirmSet
  <2> HIDE DEF Word
  <2> QED BY <1>1, <2>3
<1>4. /\ DOMAIN Extras = 1..Len(Extras) /\ Len(Extras) \in Nat /\ (Len(Extras) = 0 => Extras = <<>>)
      /\ \A i \in 1..Len(Extras) : Extras[i] \in Seq(Word)
  <2>1. Extras \in Seq(Seq(Definition)) /\ DOMAIN Extras = 1..Len(given.extra)
    BY <1>2, GivenTypes DEF Extras
  <2>2. Len(Extras) = Len(given.extra)
    BY <1>2, <2>1, LenProperties
  <2>3. \A i \in 1..Len(given.extra) : Extras[i] = ReadExtra(given.extra[i])
    BY <1>2 DEF Extras
  <2>4. Len(Extras) = 0 => Extras = <<>>
    BY <2>1, EmptySeq
  <2> HIDE DEF Word
  <2> QED BY <1>2, <1>3, <2>1, <2>2, <2>3, <2>4
<1>5. FlattenSeq(Extras) \in Seq(Word)
  <2> HIDE DEF Word
  <2> QED BY <1>4, FlattenType
<1>6. Firm(FlattenSeq(Extras))
  <2> HIDE DEF Word
  <2> QED BY <1>1, <1>5
<1>7. Firm(Set(given.environ)) /\ Firm(Set(given.unit)) /\ Firm(Expand(ReadEnvFile(given.files)))
  BY GivenTypes, FirmSet
<1>8. GetEnv(given) = ((Set(given.environ) \o Set(given.unit)) \o Expand(ReadEnvFile(given.files)))
                        \o FlattenSeq(Extras)
  BY GivenTypes
<1> QED BY <1>6, <1>7, <1>8, FirmConcat, Zenon

\* Once all definitions are made, the strongest source has counted: whatever is made after
\* the last word of it is about other variables, or is a default.
LEMMA StrongestSourceHolds == SourcesInv => StrongestSourceCounts
<1> SUFFICES ASSUME SourcesInv, queue = <<>>, NEW n \in Names
             PROVE  LET def == LastOf(WeakestFirst(n), n)
                    IN  /\ n \in DOMAIN env <=> def.how # "none"
                        /\ n \in DOMAIN env => made[n] = def /\ (def.how # "expand" => env[n] = def.value)
  BY DEF StrongestSourceCounts
<1>1. PICK unit, locale, dirs :
           unit = GetEnv(given) /\ locale = Set(ReadEnvFile(given.locale)) /\ dirs = Set(given.directories)
  OBVIOUS
<1>2. PICK m, o, l : m = Len(unit) + 1 /\ o = m + Len(LocaleReset) /\ l = o + Len(locale)
  OBVIOUS
<1>3. given \in Givens
  BY DEF SourcesInv
<1>4. /\ unit \in Seq(Definition) /\ locale \in Seq(Definition) /\ dirs \in Seq(Definition)
      /\ Defs \in Seq(Definition)
      /\ {Len(unit), Len(LocaleReset), Len(locale), Len(dirs), m, o, l} \subseteq Nat
      /\ Len(Defs) = l + Len(dirs)
      /\ \A i \in 1..Len(unit) : Defs[i] = unit[i]
      /\ Defs[m] = Path[1]
      /\ \A i \in 1..Len(LocaleReset) : Defs[m + i] = LocaleReset[i]
      /\ \A i \in 1..Len(locale) : Defs[o + i] = locale[i]
      /\ \A i \in 1..Len(dirs) : Defs[l + i] = dirs[i]
  <2>1. InOrder(unit, locale, dirs, m, o, l)
    BY <1>1, <1>2, <1>3, SourcesInOrder, Zenon
  <2> QED BY <2>1 DEF InOrder
<1>5. /\ Len(unit) \in Nat /\ Len(LocaleReset) \in Nat /\ Len(locale) \in Nat /\ Len(dirs) \in Nat
      /\ m \in Nat /\ o \in Nat /\ l \in Nat /\ Len(Defs) = l + Len(dirs)
  BY <1>4
<1>6. Firm(unit) /\ Firm(locale) /\ Firm(dirs)
  BY <1>1, <1>3, <1>4, GivenIsFirm, FirmSet
<1>7. /\ LocaleReset \in Seq(Definition) /\ (Says(LocaleReset, n) <=> n \in Locale)
      /\ \A i \in 1..Len(LocaleReset) : LocaleReset[i] = Def("set", LocaleReset[i].name, <<>>)
  BY ResetIsFull DEF Says
<1>8. Path[1].name = "PATH" /\ Path[1].how = "default"
  BY PathType
\* Where a definition is.
<1>9. ASSUME NEW x \in 1..Len(Defs)
      PROVE  \/ x \in 1..Len(unit) /\ Defs[x] = unit[x]
             \/ x = m /\ Defs[x] = Path[1]
             \/ \E z \in 1..Len(LocaleReset) : x = m + z /\ Defs[x] = LocaleReset[z]
             \/ \E z \in 1..Len(locale) : x = o + z /\ Defs[x] = locale[z]
             \/ \E z \in 1..Len(dirs) : x = l + z /\ Defs[x] = dirs[z]
  <2>1. x \in Nat /\ 1 <= x /\ x <= Len(Defs)
    BY <1>4
  <2>2. CASE x <= Len(unit)
    BY <1>4, <2>1, <2>2
  <2>3. CASE x = m
    BY <1>4, <2>3
  <2>4. CASE m < x /\ x <= o
    <3>1. PICK z : z \in 1..Len(LocaleReset) /\ x = m + z
      <4>1. x - m \in 1..Len(LocaleReset) /\ x = m + (x - m)
        BY <1>2, <1>4, <2>1, <2>4
      <4> QED BY <4>1
    <3> QED BY <1>4, <3>1
  <2>5. CASE o < x /\ x <= l
    <3>1. PICK z : z \in 1..Len(locale) /\ x = o + z
      <4>1. x - o \in 1..Len(locale) /\ x = o + (x - o)
        BY <1>2, <1>4, <2>1, <2>5
      <4> QED BY <4>1
    <3> QED BY <1>4, <3>1
  <2>6. CASE l < x
    <3>1. PICK z : z \in 1..Len(dirs) /\ x = l + z
      <4>1. x - l \in 1..Len(dirs) /\ x = l + (x - l)
        BY <1>2, <1>4, <2>1, <2>6
      <4> QED BY <4>1
    <3> QED BY <1>4, <3>1
  <2> QED BY <1>2, <1>4, <2>1, <2>2, <2>3, <2>4, <2>5, <2>6
<1>10. Made(Len(Defs))
  <2>1. PICK k \in 0..Len(Defs) : queue = SubSeq(Defs, k + 1, Len(Defs)) /\ Made(k)
    BY DEF SourcesInv
  <2>2. Len(Defs) \in Nat /\ k \in Nat
    BY <1>4
  <2>3. ASSUME k < Len(Defs) PROVE FALSE
    <3>1. k + 1 \in 1..Len(Defs) /\ Len(Defs) \in (k + 1)..Len(Defs)
      BY <2>2, <2>3
    <3>2. Len(SubSeq(Defs, k + 1, Len(Defs))) = Len(Defs) - (k + 1) + 1
      BY <1>4, <2>2, <3>1, SubSeqProperties
    <3>3. SubSeq(Defs, k + 1, Len(Defs)) = <<>>
      BY <2>1
    <3>4. Len(SubSeq(Defs, k + 1, Len(Defs))) = 0
      BY <3>3
    <3> HIDE DEF Defs
    <3> QED BY <2>2, <2>3, <3>2, <3>4
  <2>4. k = Len(Defs)
    BY <2>2, <2>3
  <2> QED BY <2>1, <2>4
<1>11. n \in DOMAIN env <=> \E x \in 1..Len(Defs) : Defs[x].name = n
  BY <1>10 DEF Made
<1>12. ASSUME NEW x \in 1..Len(Defs), Defs[x].name = n,
              Defs[x].how = "default" => \A y \in 1..Len(Defs) : y < x => Defs[y].name # n,
              \A y \in 1..Len(Defs) : x < y /\ Defs[y].name = n => Defs[y].how = "default"
       PROVE  Counts(n, Defs[x])
  <2>1. x \in Nat /\ Len(Defs) \in Nat
    BY <1>4
  <2>2. \A y \in (x + 1)..Len(Defs) : y \in 1..Len(Defs) /\ x < y
    BY <2>1
  <2>3. \A y \in 1..(x - 1) : y \in 1..Len(Defs) /\ y < x
    BY <2>1
  <2> QED BY <1>10, <1>12, <2>2, <2>3 DEF Made
<1>13. n \in DOMAIN env <=> Says(dirs, n) \/ Says(locale, n) \/ n \in Locale \/ Says(unit, n) \/ n = "PATH"
  <2>1. ASSUME NEW x \in 1..Len(Defs), Defs[x].name = n
        PROVE  Says(dirs, n) \/ Says(locale, n) \/ n \in Locale \/ Says(unit, n) \/ n = "PATH"
    BY <1>7, <1>8, <1>9, <2>1 DEF Says
  <2>2. /\ m \in 1..Len(Defs) /\ \A i \in 1..Len(unit) : i \in 1..Len(Defs)
        /\ \A i \in 1..Len(LocaleReset) : m + i \in 1..Len(Defs)
        /\ \A i \in 1..Len(locale) : o + i \in 1..Len(Defs)
        /\ \A i \in 1..Len(dirs) : l + i \in 1..Len(Defs)
    BY <1>2, <1>5
  <2>3. ASSUME Says(unit, n) PROVE \E x \in 1..Len(Defs) : Defs[x].name = n
    <3>1. PICK i \in 1..Len(unit) : unit[i].name = n
      BY <2>3 DEF Says
    <3>2. i \in 1..Len(Defs) /\ Defs[i] = unit[i]
      BY <1>4, <2>2, <3>1
    <3> QED BY <3>1, <3>2
  <2>4. ASSUME Says(LocaleReset, n) PROVE \E x \in 1..Len(Defs) : Defs[x].name = n
    <3>1. PICK i \in 1..Len(LocaleReset) : LocaleReset[i].name = n
      BY <2>4 DEF Says
    <3>2. m + i \in 1..Len(Defs) /\ Defs[m + i] = LocaleReset[i]
      BY <1>4, <2>2, <3>1
    <3> QED BY <3>1, <3>2
  <2>5. ASSUME Says(locale, n) PROVE \E x \in 1..Len(Defs) : Defs[x].name = n
    <3>1. PICK i \in 1..Len(locale) : locale[i].name = n
      BY <2>5 DEF Says
    <3>2. o + i \in 1..Len(Defs) /\ Defs[o + i] = locale[i]
      BY <1>4, <2>2, <3>1
    <3> QED BY <3>1, <3>2
  <2>6. ASSUME Says(dirs, n) PROVE \E x \in 1..Len(Defs) : Defs[x].name = n
    <3>1. PICK i \in 1..Len(dirs) : dirs[i].name = n
      BY <2>6 DEF Says
    <3>2. l + i \in 1..Len(Defs) /\ Defs[l + i] = dirs[i]
      BY <1>4, <2>2, <3>1
    <3> QED BY <3>1, <3>2
  <2>7. n = "PATH" => \E x \in 1..Len(Defs) : Defs[x].name = n
    BY <1>4, <1>8, <2>2
  <2> QED BY <1>7, <1>11, <2>1, <2>3, <2>4, <2>5, <2>6, <2>7
<1>14. ASSUME Says(dirs, n) PROVE Counts(n, LastOf(dirs, n))
  <2>1. PICK p : SaysLast(dirs, n, p)
    BY <1>4, <1>14, LastIsLast, Zenon
  <2>2. /\ p \in 1..Len(dirs) /\ LastOf(dirs, n) = dirs[p] /\ dirs[p].name = n
        /\ \A j \in 1..Len(dirs) : p < j => dirs[j].name # n
    BY <2>1 DEF SaysLast
  <2>3. l + p \in 1..Len(Defs) /\ Defs[l + p] = dirs[p]
    BY <1>4, <2>2
  <2>4. ASSUME NEW y \in 1..Len(Defs), l + p < y PROVE Defs[y].name # n
    <3>1. /\ y \notin 1..Len(unit) /\ y # m
          /\ \A z \in 1..Len(LocaleReset) : y # m + z
          /\ \A z \in 1..Len(locale) : y # o + z
          /\ \A z \in 1..Len(dirs) : y = l + z => p < z
      <4>1. p \in Nat /\ 1 <= p
        BY <2>2
      <4> QED BY <1>2, <1>5, <2>4, <4>1, SMTT(20)
    <3>2. \E z \in 1..Len(dirs) : p < z /\ Defs[y] = dirs[z]
      BY <1>9, <3>1
    <3> QED BY <2>2, <3>2
  <2>5. dirs[p].how # "default"
    BY <1>6, <2>2 DEF Firm
  <2> QED BY <1>12, <2>2, <2>3, <2>4, <2>5
<1>15. ASSUME ~ Says(dirs, n), Says(locale, n) PROVE Counts(n, LastOf(locale, n))
  <2>1. PICK p : SaysLast(locale, n, p)
    BY <1>4, <1>15, LastIsLast, Zenon
  <2>2. /\ p \in 1..Len(locale) /\ LastOf(locale, n) = locale[p] /\ locale[p].name = n
        /\ \A j \in 1..Len(locale) : p < j => locale[j].name # n
    BY <2>1 DEF SaysLast
  <2>3. o + p \in 1..Len(Defs) /\ Defs[o + p] = locale[p]
    BY <1>2, <1>4, <2>2
  <2>4. ASSUME NEW y \in 1..Len(Defs), o + p < y PROVE Defs[y].name # n
    <3>1. /\ y \notin 1..Len(unit) /\ y # m
          /\ \A z \in 1..Len(LocaleReset) : y # m + z
          /\ \A z \in 1..Len(locale) : y = o + z => p < z
      <4>1. p \in Nat /\ 1 <= p
        BY <2>2
      <4> QED BY <1>2, <1>5, <2>4, <4>1, SMTT(20)
    <3>2. \/ \E z \in 1..Len(locale) : p < z /\ Defs[y] = locale[z]
          \/ \E z \in 1..Len(dirs) : Defs[y] = dirs[z]
      BY <1>9, <3>1
    <3> QED BY <1>15, <2>2, <3>2 DEF Says
  <2>5. locale[p].how # "default"
    BY <1>6, <2>2 DEF Firm
  <2> QED BY <1>12, <2>2, <2>3, <2>4, <2>5
<1>16. ASSUME ~ Says(dirs, n), ~ Says(locale, n), n \in Locale PROVE Counts(n, Def("set", n, <<>>))
  <2>1. PICK p : SaysLast(LocaleReset, n, p)
    BY <1>7, <1>16, LastIsLast, Zenon
  <2>2. /\ p \in 1..Len(LocaleReset) /\ LocaleReset[p].name = n
        /\ \A j \in 1..Len(LocaleReset) : p < j => LocaleReset[j].name # n
    BY <2>1 DEF SaysLast
  <2>3. LocaleReset[p] = Def("set", n, <<>>)
    BY <1>7, <2>2
  <2>4. m + p \in 1..Len(Defs) /\ Defs[m + p] = LocaleReset[p]
    <3>1. p \in 1..Len(LocaleReset)
      BY <2>2
    <3> QED BY <1>2, <1>4, <3>1
  <2>5. ASSUME NEW y \in 1..Len(Defs), m + p < y PROVE Defs[y].name # n
    <3>1. /\ y \notin 1..Len(unit) /\ y # m
          /\ \A z \in 1..Len(LocaleReset) : y = m + z => p < z
      <4>1. p \in Nat /\ 1 <= p
        BY <2>2
      <4> QED BY <1>2, <1>5, <2>5, <4>1, SMTT(20)
    <3>2. \/ \E z \in 1..Len(LocaleReset) : p < z /\ Defs[y] = LocaleReset[z]
          \/ \E z \in 1..Len(locale) : Defs[y] = locale[z]
          \/ \E z \in 1..Len(dirs) : Defs[y] = dirs[z]
      BY <1>9, <3>1
    <3> QED BY <1>16, <2>2, <3>2 DEF Says
  <2>6. LocaleReset[p].how = "set"
    BY <2>3 DEF Def
  <2>7. Counts(n, Defs[m + p])
    BY <1>12, <2>2, <2>4, <2>5, <2>6
  <2> QED BY <2>3, <2>4, <2>7
<1>17. ASSUME ~ Says(dirs, n), ~ Says(locale, n), n \notin Locale, NEW y \in 1..Len(Defs), Defs[y].name = n
       PROVE  (y \in 1..Len(unit) /\ Defs[y] = unit[y]) \/ (y = m /\ Defs[y] = Path[1])
  <2>1. /\ \A z \in 1..Len(LocaleReset) : LocaleReset[z].name # n
        /\ \A z \in 1..Len(locale) : locale[z].name # n
        /\ \A z \in 1..Len(dirs) : dirs[z].name # n
    BY <1>7, <1>17 DEF Says
  <2> QED BY <1>9, <1>17, <2>1
<1>18. ASSUME ~ Says(dirs, n), ~ Says(locale, n), n \notin Locale, Says(unit, n)
       PROVE  Counts(n, LastOf(unit, n))
  <2>1. PICK p : SaysLast(unit, n, p)
    BY <1>4, <1>18, LastIsLast, Zenon
  <2>2. /\ p \in 1..Len(unit) /\ LastOf(unit, n) = unit[p] /\ unit[p].name = n
        /\ \A j \in 1..Len(unit) : p < j => unit[j].name # n
    BY <2>1 DEF SaysLast
  <2>3. p \in 1..Len(Defs) /\ Defs[p] = unit[p]
    BY <1>2, <1>4, <2>2
  <2>4. ASSUME NEW y \in 1..Len(Defs), p < y, Defs[y].name = n PROVE Defs[y].how = "default"
    <3>1. ~ (y \in 1..Len(unit) /\ Defs[y] = unit[y])
      BY <2>2, <2>4
    <3>2. Defs[y] = Path[1]
      BY <1>17, <1>18, <2>4, <3>1
    <3> QED BY <1>8, <3>2
  <2>5. unit[p].how # "default"
    BY <1>6, <2>2 DEF Firm
  <2> QED BY <1>12, <2>2, <2>3, <2>4, <2>5
<1>19. ASSUME ~ Says(dirs, n), ~ Says(locale, n), n \notin Locale, ~ Says(unit, n), n = "PATH"
       PROVE  Counts(n, Path[1])
  <2>1. m \in 1..Len(Defs) /\ Defs[m] = Path[1]
    BY <1>2, <1>4
  <2>2. ASSUME NEW y \in 1..Len(Defs), Defs[y].name = n PROVE y = m
    BY <1>17, <1>19, <2>2 DEF Says
  <2>3. \A y \in 1..Len(Defs) : y < m \/ m < y => y # m
    BY <1>5
  <2> QED BY <1>8, <1>12, <1>19, <2>1, <2>2, <2>3
<1>20. /\ LastOf(WeakestFirst(n), n) = Strongest(n)
       /\ Strongest(n).how # "none" <=> \/ Says(dirs, n) \/ Says(locale, n) \/ n \in Locale
                                        \/ Says(unit, n) \/ n = "PATH"
  BY <1>1, <1>3, StrongestIs
<1>21. ASSUME n \in DOMAIN env PROVE Counts(n, Strongest(n))
  <2>1. Strongest(n) = IF Says(dirs, n) THEN LastOf(dirs, n)
                       ELSE IF Says(locale, n) THEN LastOf(locale, n)
                       ELSE IF n \in Locale THEN Def("set", n, <<>>)
                       ELSE IF Says(unit, n) THEN LastOf(unit, n)
                       ELSE IF n = "PATH" THEN Path[1] ELSE Def("none", n, <<>>)
    BY <1>1, Zenon DEF Strongest
  <2> QED BY <1>13, <1>14, <1>15, <1>16, <1>18, <1>19, <1>21, <2>1
<1> QED BY <1>13, <1>20, <1>21 DEF Counts

\* The types: what stands for a reference is a value.
LEMMA ReplacedType ==
    ASSUME EnvironmentTypeOK, NEW kind, NEW v \in Seq(Token)
    PROVE  Replaced(kind, v) \in Seq(Token)
<1> DEFINE seqs == [i \in DOMAIN v |-> IF v[i].kind = kind THEN ValueOf(v[i]) ELSE <<v[i]>>]
<1>1. DOMAIN v = 1..Len(v) /\ Len(v) \in Nat /\ \A i \in 1..Len(v) : v[i] \in Token
  BY LenProperties, ElementOfSeq
<1>2. ASSUME NEW i \in 1..Len(v) PROVE seqs[i] \in Seq(Token)
  <2>1. <<v[i]>> \in Seq(Token) /\ <<>> \in Seq(Token)
    BY <1>1
  <2>2. v[i].name \in DOMAIN env => env[v[i].name] \in Seq(Token)
    BY DEF EnvironmentTypeOK
  <2>3. seqs[i] \in {<<v[i]>>, <<>>} \/ (v[i].name \in DOMAIN env /\ seqs[i] = env[v[i].name])
    BY <1>1 DEF ValueOf
  <2> HIDE DEF seqs
  <2> QED BY <2>1, <2>2, <2>3
<1>3. DOMAIN seqs = 1..Len(seqs) /\ Len(seqs) = Len(v) /\ (Len(seqs) = 0 => seqs = <<>>)
  BY <1>1
<1>4. FlattenSeq(seqs) \in Seq(Token)
  <2> HIDE DEF seqs
  <2> QED BY <1>1, <1>2, <1>3, FlattenType
<1> QED BY <1>4 DEF Replaced

LEMMA HeadTyped ==
    ASSUME queue \in Seq(Definition), queue # <<>>
    PROVE  /\ Head(queue) \in Definition /\ Head(queue).name \in Names /\ Head(queue).value \in Seq(Token)
           /\ Tail(queue) \in Seq(Definition)
<1>1. Head(queue) \in Definition /\ Tail(queue) \in Seq(Definition)
  BY HeadTailProperties
<1> QED BY <1>1 DEF Definition

LEMMA DefinedType ==
    ASSUME EnvironmentTypeOK, NEW d \in Definition, NEW v \in Seq(Token)
    PROVE  /\ DOMAIN Defined(env, d.name, v) \subseteq Names
           /\ \A m \in DOMAIN Defined(env, d.name, v) : Defined(env, d.name, v)[m] \in Seq(Token)
           /\ Defined(made, d.name, d) \in [DOMAIN Defined(env, d.name, v) -> Definition]
<1>1. d.name \in Names
  BY DEF Definition
<1> QED BY <1>1 DEF EnvironmentTypeOK, Defined

LEMMA EnvironmentTypesInit == EnvironmentInit => EnvironmentTypeOK
<1> SUFFICES ASSUME EnvironmentInit PROVE EnvironmentTypeOK
  OBVIOUS
<1>1. queue \in Seq(Definition)
  BY DefsType DEF EnvironmentInit, Defs
<1>2. env = <<>> /\ made = <<>> /\ expanding.value = <<>> /\ expanding.round = 0
  BY DEF EnvironmentInit, Idle
<1>3. DOMAIN env = {} /\ made \in [DOMAIN env -> Definition]
  BY <1>2
<1>4. <<>> \in Seq(Token) /\ 0 \in 0..MaxRounds
  BY EnvironmentAssumption
<1> QED BY <1>1, <1>2, <1>3, <1>4 DEF EnvironmentTypeOK

LEMMA EnvironmentTypesStep ==
    SourcesInv /\ EnvironmentTypeOK /\ [EnvironmentNext]_environmentVars => EnvironmentTypeOK'
<1> SUFFICES ASSUME SourcesInv, EnvironmentTypeOK, [EnvironmentNext]_environmentVars
             PROVE  EnvironmentTypeOK'
  OBVIOUS
<1>1. /\ queue \in Seq(Definition) /\ DOMAIN env \subseteq Names /\ made \in [DOMAIN env -> Definition]
      /\ \A n \in DOMAIN env : env[n] \in Seq(Token)
      /\ expanding.value \in Seq(Token) /\ expanding.round \in 0..MaxRounds
  BY DEF EnvironmentTypeOK
<1>2. <<>> \in Seq(Token) /\ 0 \in 0..MaxRounds /\ 1 \in 0..MaxRounds /\ MaxRounds \in Nat
  BY EnvironmentAssumption
<1>3. Idle.value = <<>> /\ Idle.round = 0
  BY DEF Idle
<1>4. CASE Define
  <2>1. /\ queue # <<>> /\ queue' = Tail(queue) /\ expanding' = expanding
        /\ \/ env' = env /\ made' = made
           \/ /\ env' = Defined(env, Head(queue).name, Head(queue).value)
              /\ made' = Defined(made, Head(queue).name, Head(queue))
    BY <1>4 DEF Define, Make
  <2>2. Head(queue) \in Definition /\ Head(queue).value \in Seq(Token) /\ queue' \in Seq(Definition)
    BY <1>1, <2>1, HeadTyped
  <2>3. /\ DOMAIN env' \subseteq Names /\ made' \in [DOMAIN env' -> Definition]
        /\ \A n \in DOMAIN env' : env'[n] \in Seq(Token)
    <3>1. CASE env' = env /\ made' = made
      BY <1>1, <3>1
    <3>2. CASE /\ env' = Defined(env, Head(queue).name, Head(queue).value)
               /\ made' = Defined(made, Head(queue).name, Head(queue))
      <4>1. PICK d, v : d = Head(queue) /\ v = Head(queue).value
        OBVIOUS
      <4>2. env' = Defined(env, d.name, v) /\ made' = Defined(made, d.name, d)
        BY <3>2, <4>1
      <4>3. d \in Definition /\ v \in Seq(Token)
        BY <2>2, <4>1
      <4> QED BY <4>2, <4>3, DefinedType
    <3> QED BY <2>1, <3>1, <3>2
  <2> QED BY <1>1, <2>1, <2>2, <2>3 DEF EnvironmentTypeOK
<1>5. CASE BeginExpand
  <2> DEFINE v == Replaced("simple", Head(queue).value)
  <2>1. queue # <<>> /\ UNCHANGED <<queue, env, made>> /\ expanding' = [value |-> v, round |-> 1]
    BY <1>5 DEF BeginExpand
  <2>2. v \in Seq(Token)
    BY <1>1, <2>1, HeadTyped, ReplacedType
  <2> HIDE DEF v
  <2>3. expanding'.value \in Seq(Token) /\ expanding'.round \in 0..MaxRounds
    BY <1>2, <2>1, <2>2
  <2> QED BY <1>1, <2>1, <2>3 DEF EnvironmentTypeOK
<1>6. CASE Round
  <2> DEFINE next == Replaced("braced", expanding.value)
  <2>1. /\ queue # <<>>
        /\ \/ /\ env' = Defined(env, Head(queue).name, next) /\ made' = Defined(made, Head(queue).name, Head(queue))
              /\ queue' = Tail(queue) /\ expanding' = Idle
           \/ /\ expanding.round # MaxRounds /\ UNCHANGED <<env, made, queue>>
              /\ expanding' = [value |-> next, round |-> expanding.round + 1]
    BY <1>6 DEF Round, Make, SourcesInv
  <2>2. next \in Seq(Token)
    BY <1>1, ReplacedType
  <2>3. Head(queue) \in Definition /\ Tail(queue) \in Seq(Definition)
    BY <1>1, <2>1, HeadTyped
  <2> HIDE DEF next
  <2>4. CASE /\ env' = Defined(env, Head(queue).name, next) /\ made' = Defined(made, Head(queue).name, Head(queue))
             /\ queue' = Tail(queue) /\ expanding' = Idle
    <3>1. /\ DOMAIN env' \subseteq Names /\ made' \in [DOMAIN env' -> Definition]
          /\ \A n \in DOMAIN env' : env'[n] \in Seq(Token)
      BY <2>2, <2>3, <2>4, DefinedType
    <3> QED BY <1>2, <1>3, <2>3, <2>4, <3>1 DEF EnvironmentTypeOK
  <2>5. CASE /\ expanding.round # MaxRounds /\ UNCHANGED <<env, made, queue>>
             /\ expanding' = [value |-> next, round |-> expanding.round + 1]
    <3>1. expanding.round + 1 \in 0..MaxRounds
      BY <1>1, <1>2, <2>5
    <3> QED BY <1>1, <2>2, <2>5, <3>1 DEF EnvironmentTypeOK
  <2> QED BY <2>1, <2>4, <2>5
<1>7. CASE UNCHANGED environmentVars
  BY <1>1, <1>7 DEF EnvironmentTypeOK, environmentVars
<1> QED BY <1>4, <1>5, <1>6, <1>7 DEF EnvironmentNext

LEMMA EnvironmentTypes == EnvironmentSpec => [](SourcesInv /\ EnvironmentTypeOK)
BY SourcesInvInit, SourcesInvStep, EnvironmentTypesInit, EnvironmentTypesStep, PTL DEF EnvironmentSpec

(* Whatever is given, once all definitions are made each variable is made by the last word
   of the strongest source that names it: the default path, the own environment,
   Environment=, EnvironmentFile=, the extra variables, the reset of the locale,
   locale.conf, the directories of the service.  It has the value that is said there, or
   what ExpandEnv made of it at its turn, which ExpandsFully is about. *)
THEOREM StrongestSource == EnvironmentSpec => []StrongestSourceCounts
BY EnvironmentTypes, StrongestSourceHolds, PTL

-----------------------------------------------------------------------------
(* The expansion of a value: as many rounds as there are variables make of *)
(* it what it means.                                                       *)

LEMMA FlattenEmpty == FlattenSeq(<<>>) = <<>>
BY DEF FlattenSeq

LEMMA FlattenAppend ==
    ASSUME NEW T, NEW s \in Seq(Seq(T)), NEW x \in Seq(T)
    PROVE  FlattenSeq(Append(s, x)) = FlattenSeq(s) \o x
<1> DEFINE t == Append(s, x)
           n == Len(s)
<1>1. /\ n \in Nat /\ DOMAIN s = 1..n /\ \A i \in 1..n : s[i] \in Seq(T)
  BY LenProperties, ElementOfSeq
<1>2. /\ t \in Seq(Seq(T)) /\ Len(t) = n + 1 /\ t[n + 1] = x
      /\ \A i \in 1..n : t[i] = s[i]
  BY AppendProperties
<1>3. DOMAIN t = 1..Len(t) /\ Len(t) \in Nat \ {0} /\ \A i \in 1..Len(t) : t[i] \in Seq(T)
  BY <1>1, <1>2, LenProperties, ElementOfSeq
<1> HIDE DEF t
<1>4. PICK h : Flattens(t, h)
  BY <1>3, Flattening
<1>5. \A i \in 1..(n + 1) : h[i] = IF i = 1 THEN t[i] ELSE h[i - 1] \o t[i]
  BY <1>2, <1>4 DEF Flattens
<1>6. FlattenSeq(t) = h[n + 1]
  BY <1>2, <1>4 DEF Flattens
<1>7. CASE s = <<>>
  <2>1. n = 0 /\ 1 \in 1..(n + 1)
    BY <1>7
  <2>2. FlattenSeq(t) = x
    BY <1>2, <1>5, <1>6, <2>1
  <2>3. FlattenSeq(s) \o x = x
    BY <1>7, FlattenEmpty, ConcatEmptySeq
  <2> QED BY <2>2, <2>3 DEF t
<1>8. CASE s # <<>>
  <2>1. n \in Nat \ {0}
    BY <1>1, <1>8, EmptySeq
  <2>2. PICK g : Flattens(s, g)
    BY <1>1, <2>1, Flattening
  <2>3. \A i \in 1..n : g[i] = IF i = 1 THEN s[i] ELSE g[i - 1] \o s[i]
    BY <2>2 DEF Flattens
  <2> DEFINE Same == {m \in Nat : m + 1 \in 1..n => h[m + 1] = g[m + 1]}
  <2>4. 0 \in Same
    <3>1. 1 \in 1..n /\ 1 \in 1..(n + 1) /\ 0 + 1 = 1
      BY <2>1
    <3>2. h[1] = t[1] /\ g[1] = s[1] /\ t[1] = s[1]
      BY <1>2, <1>5, <2>3, <3>1
    <3> QED BY <3>1, <3>2
  <2>5. ASSUME NEW m \in Nat, m \in Same PROVE m + 1 \in Same
    <3> SUFFICES ASSUME (m + 1) + 1 \in 1..n PROVE h[(m + 1) + 1] = g[(m + 1) + 1]
      OBVIOUS
    <3> DEFINE i == (m + 1) + 1
    <3>1. i \in 1..n /\ i \in 1..(n + 1) /\ i # 1 /\ i - 1 = m + 1 /\ m + 1 \in 1..n
      BY <2>1
    <3>2. h[m + 1] = g[m + 1]
      BY <2>5, <3>1
    <3> HIDE DEF i
    <3>3. h[i] = h[m + 1] \o t[i] /\ g[i] = g[m + 1] \o s[i] /\ t[i] = s[i]
      BY <1>2, <1>5, <2>3, <3>1
    <3>4. h[i] = g[i]
      BY <3>2, <3>3
    <3> QED BY <3>4 DEF i
  <2>6. Nat \subseteq Same
    <3> HIDE DEF Same
    <3> QED BY <2>4, <2>5, AllNumbers
  <2>7. h[n] = g[n]
    <3>1. n - 1 \in Nat /\ (n - 1) + 1 = n /\ n \in 1..n
      BY <2>1
    <3> QED BY <2>6, <3>1
  <2>8. h[n + 1] = h[n] \o x
    <3>1. n + 1 \in 1..(n + 1) /\ n + 1 # 1 /\ (n + 1) - 1 = n
      BY <2>1
    <3> QED BY <1>2, <1>5, <3>1
  <2>9. FlattenSeq(s) = g[n]
    BY <2>2 DEF Flattens
  <2> QED BY <1>6, <2>7, <2>8, <2>9 DEF t
<1> QED BY <1>7, <1>8

-----------------------------------------------------------------------------
(* Put: what stands for the references of a value, token by token.         *)

\* What may stand for the variables.
Standing == [Names -> Seq(Token)]

One(t, f) == IF t.kind = "braced" THEN f[t.name] ELSE <<t>>

LEMMA TokenFields ==
    ASSUME NEW t \in Token
    PROVE  t.kind = "braced" => t.name \in Names /\ t = Braced(t.name)
BY DEF Token, Braced

LEMMA BracedType == ASSUME NEW n \in Names PROVE Braced(n) \in Token
BY DEF Token, Braced

LEMMA OneType == ASSUME NEW t \in Token, NEW f \in Standing PROVE One(t, f) \in Seq(Token)
<1>1. <<t>> \in Seq(Token)
  OBVIOUS
<1> QED BY <1>1, TokenFields DEF One, Standing

LEMMA PutEmpty == ASSUME NEW f PROVE Put(<<>>, f) = <<>>
<1> DEFINE seqs == [i \in DOMAIN <<>> |-> IF <<>>[i].kind = "braced" THEN f[<<>>[i].name] ELSE << <<>>[i] >>]
<1>1. seqs = <<>>
  OBVIOUS
<1>2. FlattenSeq(seqs) = <<>>
  BY <1>1, FlattenEmpty
<1> QED BY <1>2 DEF Put

LEMMA PutAppend ==
    ASSUME NEW v \in Seq(Token), NEW t \in Token, NEW f \in Standing
    PROVE  Put(Append(v, t), f) = Put(v, f) \o One(t, f)
<1> DEFINE w == Append(v, t)
           n == Len(v)
           pv == [i \in DOMAIN v |-> IF v[i].kind = "braced" THEN f[v[i].name] ELSE <<v[i]>>]
           pw == [i \in DOMAIN w |-> IF w[i].kind = "braced" THEN f[w[i].name] ELSE <<w[i]>>]
           S == Seq(Token)
<1>1. n \in Nat /\ DOMAIN v = 1..n /\ \A i \in 1..n : v[i] \in Token
  BY LenProperties, ElementOfSeq
<1>2. w \in Seq(Token) /\ Len(w) = n + 1 /\ w[n + 1] = t /\ \A i \in 1..n : w[i] = v[i]
  BY AppendProperties
<1>3. DOMAIN w = 1..(n + 1) /\ \A i \in 1..(n + 1) : w[i] \in Token
  BY <1>2, LenProperties, ElementOfSeq
<1> HIDE DEF w
<1>4. \A i \in 1..n : pv[i] = One(v[i], f)
  BY <1>1 DEF One
<1>5. \A i \in 1..(n + 1) : pw[i] = One(w[i], f)
  BY <1>3 DEF One
<1>6. DOMAIN pv = 1..n /\ DOMAIN pw = 1..(n + 1) /\ pv = [i \in 1..n |-> pv[i]] /\ pw = [i \in 1..(n + 1) |-> pw[i]]
  BY <1>1, <1>3
<1>7. Put(v, f) = FlattenSeq(pv) /\ Put(w, f) = FlattenSeq(pw)
  BY DEF Put
<1>8. \A u \in Token : One(u, f) \in S
  BY OneType
<1> HIDE DEF pv, pw, S
<1>9. pv \in Seq(S) /\ Len(pv) = n
  <2>1. \A i \in 1..n : pv[i] \in S
    BY <1>1, <1>4, <1>8
  <2>2. pv \in [1..n -> S]
    BY <1>6, <2>1
  <2> QED BY <1>1, <1>6, <2>2
<1>10. pw \in Seq(S) /\ Len(pw) = n + 1
  <2>1. \A i \in 1..(n + 1) : pw[i] \in S
    BY <1>3, <1>5, <1>8
  <2>2. pw \in [1..(n + 1) -> S] /\ n + 1 \in Nat
    BY <1>1, <1>6, <2>1
  <2> QED BY <1>6, <2>2
<1>11. One(t, f) \in S
  BY <1>8
<1> DEFINE q == Append(pv, One(t, f))
<1>12. q \in Seq(S) /\ Len(q) = n + 1 /\ q[n + 1] = One(t, f) /\ \A i \in 1..n : q[i] = pv[i]
  BY <1>9, <1>11, AppendProperties
<1> HIDE DEF q
<1>13. pw = q
  <2>1. ASSUME NEW i \in 1..(n + 1) PROVE pw[i] = q[i]
    <3>1. CASE i = n + 1
      BY <1>2, <1>5, <1>12, <3>1
    <3>2. CASE i # n + 1
      <4>1. i \in 1..n
        BY <1>1, <3>2
      <4> QED BY <1>2, <1>4, <1>5, <1>12, <4>1
    <3> QED BY <3>1, <3>2
  <2> QED BY <1>10, <1>12, <2>1, SeqEqual
<1>14. FlattenSeq(q) = FlattenSeq(pv) \o One(t, f)
  BY <1>9, <1>11, FlattenAppend DEF S, q
<1> QED BY <1>7, <1>13, <1>14 DEF w

LEMMA PutType ==
    ASSUME NEW v \in Seq(Token), NEW f \in Standing PROVE Put(v, f) \in Seq(Token)
<1> DEFINE Good == {u \in Seq(Token) : Put(u, f) \in Seq(Token)}
<1>1. <<>> \in Good
  <2>1. <<>> \in Seq(Token) /\ Put(<<>>, f) = <<>>
    BY PutEmpty
  <2> QED BY <2>1
<1>2. ASSUME NEW u \in Seq(Token), NEW t \in Token, u \in Good PROVE Append(u, t) \in Good
  <2>1. Append(u, t) \in Seq(Token)
    BY AppendProperties
  <2>2. Put(u, f) \o One(t, f) \in Seq(Token)
    BY <1>2, OneType, ConcatProperties
  <2> QED BY <2>1, <2>2, PutAppend
<1>3. Seq(Token) \subseteq Good
  <2> HIDE DEF Good
  <2> QED BY <1>1, <1>2, AllSequences
<1> QED BY <1>3

LEMMA PutToken ==
    ASSUME NEW t \in Token, NEW f \in Standing PROVE Put(<<t>>, f) = One(t, f)
<1>1. <<>> \in Seq(Token) /\ Append(<<>>, t) = <<t>>
  OBVIOUS
<1>2. Put(<<t>>, f) = <<>> \o One(t, f)
  BY <1>1, PutAppend, PutEmpty
<1> QED BY <1>2, OneType, ConcatEmptySeq

LEMMA ConcatTokens == \A s, t, u \in Seq(Token) : Regrouped(s, t, u)
BY ConcatAssociative DEF Regrouped

LEMMA PutConcat ==
    ASSUME NEW v \in Seq(Token), NEW u \in Seq(Token), NEW f \in Standing
    PROVE  Put(v \o u, f) = Put(v, f) \o Put(u, f)
<1> DEFINE Good == {w \in Seq(Token) : Put(v \o w, f) = Put(v, f) \o Put(w, f)}
<1>1. <<>> \in Good
  <2>1. <<>> \in Seq(Token) /\ v \o <<>> = v
    BY ConcatEmptySeq
  <2>2. Put(v, f) \o <<>> = Put(v, f)
    BY PutType, ConcatEmptySeq
  <2> QED BY <2>1, <2>2, PutEmpty
<1>2. ASSUME NEW w \in Seq(Token), NEW t \in Token, w \in Good PROVE Append(w, t) \in Good
  <2>1. v \o Append(w, t) = Append(v \o w, t)
    <3>1. <<t>> \in Seq(Token) /\ v \o w \in Seq(Token)
      BY ConcatProperties
    <3>2. Append(w, t) = w \o <<t>> /\ Append(v \o w, t) = (v \o w) \o <<t>>
      BY <3>1, AppendIsConcat
    <3> QED BY <3>1, <3>2, ConcatAssociative
  <2>2. v \o w \in Seq(Token) /\ Append(w, t) \in Seq(Token)
    BY ConcatProperties, AppendProperties
  <2>3. Put(v \o Append(w, t), f) = (Put(v, f) \o Put(w, f)) \o One(t, f)
    BY <1>2, <2>1, <2>2, PutAppend
  <2>4. (Put(v, f) \o Put(w, f)) \o One(t, f) = Put(v, f) \o (Put(w, f) \o One(t, f))
    <3>1. Put(v, f) \in Seq(Token) /\ Put(w, f) \in Seq(Token) /\ One(t, f) \in Seq(Token)
      BY PutType, OneType
    <3>2. Regrouped(Put(v, f), Put(w, f), One(t, f))
      BY <3>1, ConcatTokens, Zenon
    <3> QED BY <3>2, Zenon DEF Regrouped
  <2>5. Put(Append(w, t), f) = Put(w, f) \o One(t, f)
    BY PutAppend
  <2> QED BY <2>2, <2>3, <2>4, <2>5
<1>3. Seq(Token) \subseteq Good
  <2> HIDE DEF Good
  <2> QED BY <1>1, <1>2, AllSequences
<1> QED BY <1>3

\* First f, and g in what it gives.
Both(f, g) == [n \in Names |-> Put(f[n], g)]

LEMMA BothType == ASSUME NEW f \in Standing, NEW g \in Standing PROVE Both(f, g) \in Standing
<1>1. \A n \in Names : f[n] \in Seq(Token)
  BY DEF Standing
<1>2. \A n \in Names : Put(f[n], g) \in Seq(Token)
  BY <1>1, PutType
<1> QED BY <1>2 DEF Both, Standing

LEMMA PutPut ==
    ASSUME NEW v \in Seq(Token), NEW f \in Standing, NEW g \in Standing
    PROVE  Put(Put(v, f), g) = Put(v, Both(f, g))
<1> DEFINE Good == {w \in Seq(Token) : Put(Put(w, f), g) = Put(w, Both(f, g))}
<1>0. Both(f, g) \in Standing
  BY BothType
<1>1. <<>> \in Good
  BY PutEmpty
<1>2. ASSUME NEW w \in Seq(Token), NEW t \in Token, w \in Good PROVE Append(w, t) \in Good
  <2>1. Put(Put(Append(w, t), f), g) = Put(Put(w, f), g) \o Put(One(t, f), g)
    <3>1. Put(w, f) \in Seq(Token) /\ One(t, f) \in Seq(Token)
      BY PutType, OneType
    <3>2. Put(Append(w, t), f) = Put(w, f) \o One(t, f)
      BY PutAppend
    <3> DEFINE x == Put(w, f)
               y == One(t, f)
    <3>3. x \in Seq(Token) /\ y \in Seq(Token)
      BY <3>1
    <3> HIDE DEF x, y
    <3>4. Put(x \o y, g) = Put(x, g) \o Put(y, g)
      BY <3>3, PutConcat
    <3> QED BY <3>2, <3>4 DEF x, y
  <2>2. Put(Append(w, t), Both(f, g)) = Put(w, Both(f, g)) \o One(t, Both(f, g))
    BY <1>0, PutAppend
  <2>3. Put(One(t, f), g) = One(t, Both(f, g))
    <3>1. CASE t.kind = "braced"
      <4>1. t.name \in Names
        BY <3>1, TokenFields
      <4> QED BY <3>1, <4>1 DEF One, Both
    <3>2. CASE t.kind # "braced"
      <4>1. One(t, f) = <<t>> /\ One(t, g) = <<t>> /\ One(t, Both(f, g)) = <<t>>
        BY <3>2 DEF One
      <4> QED BY <4>1, PutToken
    <3> QED BY <3>1, <3>2
  <2>4. Append(w, t) \in Seq(Token)
    BY AppendProperties
  <2> QED BY <1>2, <2>1, <2>2, <2>3, <2>4
<1>3. Seq(Token) \subseteq Good
  <2> HIDE DEF Good
  <2> QED BY <1>1, <1>2, AllSequences
<1> QED BY <1>3

Itself == [n \in Names |-> <<Braced(n)>>]

LEMMA ItselfType == Itself \in Standing
<1>1. \A n \in Names : <<Braced(n)>> \in Seq(Token)
  BY BracedType
<1> QED BY <1>1 DEF Itself, Standing

LEMMA PutItself == ASSUME NEW v \in Seq(Token) PROVE Put(v, Itself) = v
<1> DEFINE Good == {w \in Seq(Token) : Put(w, Itself) = w}
<1>1. <<>> \in Good
  BY PutEmpty
<1>2. ASSUME NEW w \in Seq(Token), NEW t \in Token, w \in Good PROVE Append(w, t) \in Good
  <2>1. One(t, Itself) = <<t>>
    BY TokenFields DEF One, Itself
  <2>2. Put(Append(w, t), Itself) = w \o <<t>>
    BY <1>2, <2>1, ItselfType, PutAppend
  <2> QED BY <2>2, AppendIsConcat, AppendProperties
<1>3. Seq(Token) \subseteq Good
  <2> HIDE DEF Good
  <2> QED BY <1>1, <1>2, AllSequences
<1> QED BY <1>3

LEMMA PutAgrees ==
    ASSUME NEW v \in Seq(Token), NEW f, NEW g, \A n \in References(v) : f[n] = g[n]
    PROVE  Put(v, f) = Put(v, g)
<1>1. \A i \in DOMAIN v : v[i].kind = "braced" => v[i].name \in References(v)
  BY DEF References
<1>2. [i \in DOMAIN v |-> IF v[i].kind = "braced" THEN f[v[i].name] ELSE <<v[i]>>]
        = [i \in DOMAIN v |-> IF v[i].kind = "braced" THEN g[v[i].name] ELSE <<v[i]>>]
  BY <1>1
<1> QED BY <1>2 DEF Put

LEMMA ReferencesType == ASSUME NEW v \in Seq(Token) PROVE References(v) \subseteq Names
<1>1. \A i \in DOMAIN v : v[i] \in Token
  BY LenProperties, ElementOfSeq
<1> QED BY <1>1, TokenFields DEF References

-----------------------------------------------------------------------------
(* Needs: the variables a value needs, at any depth.                       *)

\* How many variables there are.
C == Cardinality(Names)

LEMMA NamesCounted ==
    /\ C \in Nat \ {0}
    /\ \A S \in SUBSET Names : /\ IsFiniteSet(S) /\ Cardinality(S) \in 0..C
                               /\ Cardinality(S) = C => S = Names
<1>1. IsFiniteSet(Names) /\ Names # {}
  BY EnvironmentAssumption
<1>2. C \in Nat /\ C # 0
  BY <1>1, FS_CardinalityType, FS_EmptySet DEF C
<1>3. ASSUME NEW S \in SUBSET Names
      PROVE  /\ IsFiniteSet(S) /\ Cardinality(S) \in 0..C
             /\ Cardinality(S) = C => S = Names
  <2>1. IsFiniteSet(S) /\ Cardinality(S) <= C /\ (C = Cardinality(S) => Names = S)
    BY <1>1, FS_Subset DEF C
  <2>2. Cardinality(S) \in Nat
    BY <2>1, FS_CardinalityType
  <2> QED BY <1>2, <2>1, <2>2
<1> QED BY <1>2, <1>3

\* With the references of the variables that are there.
Grown(ns) == ns \cup UNION {References(env[n]) : n \in ns \cap DOMAIN env}

\* ns has what its variables refer to.
Complete(ns) == \A n \in ns \cap DOMAIN env : References(env[n]) \subseteq ns

LEMMA GrownIs ==
    ASSUME EnvironmentTypeOK, NEW ns \in SUBSET Names
    PROVE  /\ Grown(ns) \in SUBSET Names /\ ns \subseteq Grown(ns)
           /\ Complete(ns) <=> Grown(ns) = ns
           /\ \A T : ns \subseteq T /\ Complete(T) => Grown(ns) \subseteq T
<1>1. \A n \in DOMAIN env : References(env[n]) \subseteq Names
  BY ReferencesType DEF EnvironmentTypeOK
<1> QED BY <1>1 DEF Grown, Complete

NeedsSteps(v, g) == /\ g \in [0..C -> SUBSET Names]
                    /\ g[0] = References(v)
                    /\ \A k \in 1..C : g[k] = Grown(g[k - 1])
                    /\ Needs(v) = g[C]

LEMMA NeedsAreSteps ==
    ASSUME EnvironmentTypeOK, NEW v \in Seq(Token)
    PROVE  \E g : NeedsSteps(v, g)
<1> DEFINE A == SUBSET Names
           base == References(v)
           next == [ns \in A |-> Grown(ns)]
           step == [k \in 1..C |-> next]
           same(f) == [k \in 0..C |-> IF k = 0 THEN References(v) ELSE Grown(f[k - 1])]
           g == CHOOSE g : g = same(g)
<1>1. C \in Nat /\ C # 0
  BY NamesCounted
<1>2. base \in A /\ next \in [A -> A] /\ \A ns \in A : Grown(ns) \in A
  BY GrownIs, ReferencesType
<1>3. step \in [1..C -> [A -> A]]
  BY <1>2
<1>4. PICK f \in [0..C -> A] : f[0] = base /\ \A i \in 1..C : f[i] = step[i][f[i - 1]]
  <2>1. Steps(C, A, base, step)
    BY <1>1, <1>2, <1>3 DEF Steps
  <2> HIDE DEF A, base, step
  <2>2. PICK f : TakesSteps(f, C, A, base, step)
    BY <2>1, StepByStep
  <2> QED BY <2>2 DEF TakesSteps
<1>5. ASSUME NEW i \in 0..C PROVE f[i] = IF i = 0 THEN References(v) ELSE Grown(f[i - 1])
  <2>1. CASE i = 0
    BY <1>4, <2>1
  <2>2. CASE i # 0
    <3>1. i \in 1..C /\ i - 1 \in 0..C /\ f[i - 1] \in A
      BY <1>1, <1>4, <2>2
    <3>2. f[i] = next[f[i - 1]]
      BY <1>4, <3>1
    <3> HIDE DEF A
    <3> QED BY <2>2, <3>1, <3>2
  <2> QED BY <2>1, <2>2
<1>6. f = same(f)
  BY <1>4, <1>5
<1>7. g = same(g)
  BY <1>6, Zenon
<1>8. Needs(v) = g[C]
  BY Zenon DEF Needs, C, Grown
<1> HIDE DEF g
<1>9. 0 \in 0..C /\ C \in 0..C /\ \A i \in 1..C : i \in 0..C /\ i # 0 /\ i - 1 \in 0..C
  BY <1>1
<1>10. g[0] = References(v) /\ \A i \in 1..C : g[i] = Grown(g[i - 1])
  BY <1>7, <1>9
<1>11. \A i \in 0..C : g[i] \in A
  <2>1. g[0] \in A /\ \A i \in 1..C : g[i - 1] \in A => g[i] \in A
    BY <1>2, <1>10
  <2> HIDE DEF A
  <2> QED BY <1>1, <2>1, StepsStay
<1>12. g \in [0..C -> SUBSET Names]
  BY <1>7, <1>11
<1> QED BY <1>8, <1>10, <1>12 DEF NeedsSteps

\* After as many steps as there are names nothing is left to add.
LEMMA NeedsAreClosed ==
    ASSUME EnvironmentTypeOK, NEW v \in Seq(Token)
    PROVE  /\ Needs(v) \in SUBSET Names
           /\ References(v) \subseteq Needs(v)
           /\ Complete(Needs(v))
<1>1. PICK g : NeedsSteps(v, g)
  BY NeedsAreSteps
<1>2. C \in Nat /\ C # 0 /\ C \in 0..C
  BY NamesCounted
<1>3. g[C] \in SUBSET Names /\ Needs(v) = g[C]
  BY <1>1, <1>2 DEF NeedsSteps
<1> DEFINE Right == {k \in Nat : k \in 0..C => /\ References(v) \subseteq g[k]
                                               /\ Complete(g[k]) \/ Cardinality(g[k]) >= k}
<1>4. 0 \in Right
  <2>1. 0 \in 0..C /\ g[0] = References(v) /\ g[0] \in SUBSET Names
    BY <1>1, <1>2 DEF NeedsSteps
  <2>2. Cardinality(g[0]) \in 0..C
    BY <2>1, NamesCounted
  <2>3. Cardinality(g[0]) >= 0
    BY <1>2, <2>2
  <2> QED BY <2>1, <2>3
<1>5. ASSUME NEW k \in Nat, k \in Right PROVE k + 1 \in Right
  <2> SUFFICES ASSUME k + 1 \in 0..C
               PROVE  /\ References(v) \subseteq g[k + 1]
                      /\ Complete(g[k + 1]) \/ Cardinality(g[k + 1]) >= k + 1
    OBVIOUS
  <2>1. k \in 0..C /\ k + 1 \in 1..C /\ (k + 1) - 1 = k
    BY <1>2
  <2>2. g[k] \in SUBSET Names /\ g[k + 1] \in SUBSET Names /\ g[k + 1] = Grown(g[k])
    BY <1>1, <2>1 DEF NeedsSteps
  <2>3. References(v) \subseteq g[k] /\ (Complete(g[k]) \/ Cardinality(g[k]) >= k)
    BY <1>5, <2>1
  <2>4. g[k] \subseteq g[k + 1]
    BY <2>2, GrownIs
  <2>5. CASE Complete(g[k])
    <3>1. g[k + 1] = g[k]
      BY <2>2, <2>5, GrownIs
    <3>2. Complete(g[k + 1])
      BY <2>5, <3>1
    <3> QED BY <2>3, <2>4, <3>2
  <2>6. CASE ~ Complete(g[k])
    <3>1. g[k + 1] # g[k] /\ Cardinality(g[k]) >= k
      BY <2>2, <2>3, <2>6, GrownIs
    <3>2. IsFiniteSet(g[k + 1]) /\ Cardinality(g[k + 1]) \in 0..C /\ Cardinality(g[k]) \in 0..C
      BY <2>2, NamesCounted
    <3>3. Cardinality(g[k]) <= Cardinality(g[k + 1]) /\ Cardinality(g[k]) # Cardinality(g[k + 1])
      BY <2>4, <3>1, <3>2, FS_Subset
    <3>4. Cardinality(g[k + 1]) >= k + 1
      BY <1>2, <3>1, <3>2, <3>3
    <3> QED BY <2>3, <2>4, <3>4
  <2> QED BY <2>5, <2>6
<1>6. C \in Right
  <2> HIDE DEF Right
  <2>1. Nat \subseteq Right
    BY <1>4, <1>5, AllNumbers
  <2> QED BY <1>2, <2>1
<1>7. References(v) \subseteq g[C] /\ (Complete(g[C]) \/ Cardinality(g[C]) >= C)
  BY <1>2, <1>6
<1>8. ASSUME Cardinality(g[C]) >= C PROVE Complete(g[C])
  <2>1. Cardinality(g[C]) \in 0..C /\ (Cardinality(g[C]) = C => g[C] = Names)
    BY <1>3, NamesCounted
  <2>2. Cardinality(g[C]) = C
    BY <1>2, <1>8, <2>1
  <2>3. \A n \in DOMAIN env : References(env[n]) \subseteq Names
    BY ReferencesType DEF EnvironmentTypeOK
  <2> QED BY <2>1, <2>2, <2>3 DEF Complete
<1> QED BY <1>3, <1>7, <1>8

\* And nothing is there that need not be.
LEMMA NeedsAreLeast ==
    ASSUME EnvironmentTypeOK, NEW v \in Seq(Token), NEW T, References(v) \subseteq T, Complete(T)
    PROVE  Needs(v) \subseteq T
<1>1. PICK g : NeedsSteps(v, g)
  BY NeedsAreSteps
<1>2. C \in Nat /\ C \in 0..C
  BY NamesCounted
<1> DEFINE Within == {k \in Nat : k \in 0..C => g[k] \subseteq T}
<1>3. 0 \in Within
  BY <1>1 DEF NeedsSteps
<1>4. ASSUME NEW k \in Nat, k \in Within PROVE k + 1 \in Within
  <2> SUFFICES ASSUME k + 1 \in 0..C PROVE g[k + 1] \subseteq T
    OBVIOUS
  <2>1. k \in 0..C /\ k + 1 \in 1..C /\ (k + 1) - 1 = k
    BY <1>2
  <2>2. g[k] \in SUBSET Names /\ g[k + 1] = Grown(g[k]) /\ g[k] \subseteq T
    BY <1>1, <1>4, <2>1 DEF NeedsSteps
  <2> QED BY <2>2, GrownIs
<1>5. C \in Within
  <2> HIDE DEF Within
  <2>1. Nat \subseteq Within
    BY <1>3, <1>4, AllNumbers
  <2> QED BY <1>2, <2>1
<1> QED BY <1>1, <1>2, <1>5 DEF NeedsSteps

\* How many variables the value of n needs.
Depth(n) == Cardinality(Needs(env[n]))

\* A variable that does not need itself needs more than those it refers to.
LEMMA DepthFalls ==
    ASSUME EnvironmentTypeOK, NEW n \in DOMAIN env, ~ Circular(n)
    PROVE  /\ Depth(n) \in 0..(C - 1)
           /\ \A m \in References(env[n]) :
                 /\ Depth(n) > 0
                 /\ m \in DOMAIN env /\ ~ Circular(m) => Depth(m) < Depth(n)
<1> DEFINE X == Needs(env[n])
<1>1. n \in Names /\ env[n] \in Seq(Token)
  BY DEF EnvironmentTypeOK
<1>2. X \in SUBSET Names /\ References(env[n]) \subseteq X /\ Complete(X) /\ n \notin X
  BY <1>1, NeedsAreClosed DEF Circular
<1>3. C \in Nat /\ C # 0 /\ IsFiniteSet(X) /\ Cardinality(X) \in 0..C /\ (Cardinality(X) = C => X = Names)
  BY <1>2, NamesCounted
<1>4. Cardinality(X) \in 0..(C - 1)
  BY <1>1, <1>2, <1>3
<1>5. ASSUME NEW m \in References(env[n]) PROVE Cardinality(X) > 0
  <2>1. X # {}
    BY <1>2
  <2>2. Cardinality(X) # 0
    BY <1>3, <2>1, FS_EmptySet
  <2> QED BY <1>3, <2>2
<1>6. ASSUME NEW m \in References(env[n]), m \in DOMAIN env, ~ Circular(m) PROVE Depth(m) < Depth(n)
  <2> DEFINE Y == Needs(env[m])
  <2>1. m \in X /\ env[m] \in Seq(Token)
    BY <1>2, <1>6 DEF EnvironmentTypeOK
  <2>2. References(env[m]) \subseteq X
    BY <1>2, <1>6, <2>1 DEF Complete
  <2>3. Y \subseteq X
    BY <1>2, <2>1, <2>2, NeedsAreLeast
  <2>4. m \notin Y
    BY <1>6 DEF Circular
  <2>5. Y \in SUBSET X /\ Y # X /\ Y \in SUBSET Names
    BY <1>2, <2>1, <2>3, <2>4
  <2> HIDE DEF X, Y
  <2>6. Cardinality(Y) <= Cardinality(X) /\ Cardinality(Y) # Cardinality(X)
    BY <1>3, <2>5, FS_Subset
  <2>7. Cardinality(Y) \in 0..C
    BY <2>5, NamesCounted
  <2>8. Cardinality(Y) < Cardinality(X)
    BY <1>3, <2>6, <2>7
  <2> QED BY <2>8 DEF X, Y, Depth
<1> QED BY <1>4, <1>5, <1>6 DEF Depth

-----------------------------------------------------------------------------
(* The rounds.                                                             *)

\* What a round puts for each variable.
Once == [n \in Names |-> IF n \in DOMAIN env THEN env[n] ELSE Unset(n)]

LEMMA UnsetType == ASSUME NEW n \in Names PROVE Unset(n) \in Seq(Token)
<1>1. <<Braced(n)>> \in Seq(Token) /\ <<>> \in Seq(Token)
  BY BracedType
<1> QED BY <1>1 DEF Unset

LEMMA OnceType == ASSUME EnvironmentTypeOK PROVE Once \in Standing
<1>1. \A n \in DOMAIN env : env[n] \in Seq(Token)
  BY DEF EnvironmentTypeOK
<1> QED BY <1>1, UnsetType DEF Once, Standing

LEMMA PutReference ==
    ASSUME NEW n \in Names, NEW f \in Standing PROVE Put(<<Braced(n)>>, f) = f[n]
<1>1. One(Braced(n), f) = f[n]
  BY DEF One, Braced
<1> QED BY <1>1, BracedType, PutToken

\* A variable that is not there stays what stands for it.
LEMMA PutUnset ==
    ASSUME NEW n \in Names, NEW f \in Standing, f[n] = Unset(n)
    PROVE  Put(Unset(n), f) = Unset(n)
<1>1. Unset(n) = <<Braced(n)>> \/ Unset(n) = <<>>
  BY DEF Unset
<1>2. CASE Unset(n) = <<Braced(n)>>
  BY <1>2, PutReference
<1>3. CASE Unset(n) = <<>>
  BY <1>3, PutEmpty
<1> QED BY <1>1, <1>2, <1>3

LEMMA ReplacedIsPut ==
    ASSUME EnvironmentTypeOK, NEW v \in Seq(Token)
    PROVE  Replaced("braced", v) = Put(v, Once)
<1> DEFINE replaced(i) == IF v[i].kind = "braced" THEN ValueOf(v[i]) ELSE <<v[i]>>
           put(i) == IF v[i].kind = "braced" THEN Once[v[i].name] ELSE <<v[i]>>
<1>1. ASSUME NEW i \in DOMAIN v PROVE replaced(i) = put(i)
  <2>1. v[i] \in Token
    BY LenProperties, ElementOfSeq
  <2>2. CASE v[i].kind = "braced"
    <3>1. v[i].name \in Names /\ v[i] = Braced(v[i].name)
      BY <2>1, <2>2, TokenFields
    <3>2. put(i) = IF v[i].name \in DOMAIN env THEN env[v[i].name] ELSE Unset(v[i].name)
      BY <2>2, <3>1 DEF Once
    <3>3. replaced(i) = ValueOf(v[i])
      BY <2>2
    <3> HIDE DEF replaced, put
    <3> QED BY <3>1, <3>2, <3>3 DEF Unset, ValueOf
  <2> QED BY <2>2
<1>2. [i \in DOMAIN v |-> replaced(i)] = [i \in DOMAIN v |-> put(i)]
  <2> HIDE DEF replaced, put
  <2> QED BY <1>1
<1>3. FlattenSeq([i \in DOMAIN v |-> replaced(i)]) = FlattenSeq([i \in DOMAIN v |-> put(i)])
  <2> HIDE DEF replaced, put
  <2> QED BY <1>2
<1> QED BY <1>3, Zenon DEF Replaced, Put

\* f[k]: what stands for each variable after k rounds.
AfterRounds(f) == /\ f \in [0..MaxRounds -> Standing]
                  /\ f[0] = Itself
                  /\ \A k \in 1..MaxRounds : f[k] = Both(f[k - 1], Once)

LEMMA RoundsExist == ASSUME EnvironmentTypeOK PROVE \E f : AfterRounds(f)
<1> DEFINE next == [g \in Standing |-> Both(g, Once)]
           step == [k \in 1..MaxRounds |-> next]
<1>1. MaxRounds \in Nat
  BY EnvironmentAssumption
<1>2. next \in [Standing -> Standing]
  BY OnceType, BothType
<1>3. step \in [1..MaxRounds -> [Standing -> Standing]]
  BY <1>2
<1>4. Steps(MaxRounds, Standing, Itself, step)
  BY <1>1, <1>3, ItselfType DEF Steps
<1>5. PICK f : TakesSteps(f, MaxRounds, Standing, Itself, step)
  <2> HIDE DEF step
  <2> QED BY <1>4, StepByStep
<1>6. f \in [0..MaxRounds -> Standing] /\ f[0] = Itself /\ \A k \in 1..MaxRounds : f[k] = step[k][f[k - 1]]
  BY <1>5 DEF TakesSteps
<1>7. ASSUME NEW k \in 1..MaxRounds PROVE f[k] = Both(f[k - 1], Once)
  <2>1. k - 1 \in 0..MaxRounds
    BY <1>1
  <2>2. f[k - 1] \in Standing /\ f[k] = next[f[k - 1]]
    BY <1>6, <2>1
  <2> QED BY <2>2
<1> QED BY <1>6, <1>7 DEF AfterRounds

LEMMA RoundsType ==
    ASSUME NEW f, AfterRounds(f)
    PROVE  /\ MaxRounds \in Nat \ {0}
           /\ \A k \in 0..MaxRounds : f[k] \in Standing
           /\ \A k \in 1..MaxRounds : k - 1 \in 0..MaxRounds /\ f[k - 1] \in Standing /\ f[k] \in Standing
<1>1. MaxRounds \in Nat \ {0}
  BY EnvironmentAssumption
<1>2. \A k \in 0..MaxRounds : f[k] \in Standing
  BY DEF AfterRounds
<1>3. \A k \in 1..MaxRounds : k - 1 \in 0..MaxRounds /\ k \in 0..MaxRounds
  BY <1>1
<1> QED BY <1>1, <1>2, <1>3

\* Another round is a round for what stood there before.
LEMMA RoundAfter ==
    ASSUME EnvironmentTypeOK, NEW f, AfterRounds(f), NEW v \in Seq(Token), NEW k \in 1..MaxRounds
    PROVE  Replaced("braced", Put(v, f[k - 1])) = Put(v, f[k])
<1>1. f[k - 1] \in Standing /\ f[k] = Both(f[k - 1], Once)
  BY RoundsType DEF AfterRounds
<1>2. Put(v, f[k - 1]) \in Seq(Token)
  BY <1>1, PutType
<1>3. Replaced("braced", Put(v, f[k - 1])) = Put(Put(v, f[k - 1]), Once)
  BY <1>2, ReplacedIsPut
<1> QED BY <1>1, <1>3, OnceType, PutPut

\* After k rounds there stands for a variable what k - 1 rounds make of its value.
LEMMA RoundsUnfold ==
    ASSUME EnvironmentTypeOK, NEW f, AfterRounds(f)
    PROVE  \A k \in 1..MaxRounds, n \in Names : f[k][n] = Put(Once[n], f[k - 1])
<1>0. MaxRounds \in Nat /\ Once \in Standing /\ \A n \in Names : Once[n] \in Seq(Token)
  BY OnceType, RoundsType DEF Standing
<1> DEFINE Right == {k \in Nat : k + 1 \in 1..MaxRounds => \A n \in Names : f[k + 1][n] = Put(Once[n], f[k])}
<1>1. 0 \in Right
  <2>0. 0 + 1 = 1
    OBVIOUS
  <2> SUFFICES ASSUME 1 \in 1..MaxRounds, NEW n \in Names PROVE f[1][n] = Put(Once[n], f[0])
    BY <2>0
  <2>1. f[0] = Itself /\ f[1] = Both(f[0], Once)
    BY DEF AfterRounds
  <2>2. f[1][n] = Put(Itself[n], Once)
    BY <2>1 DEF Both
  <2>3. Itself[n] = <<Braced(n)>>
    BY DEF Itself
  <2>4. Put(Itself[n], Once) = Once[n]
    BY <1>0, <2>3, PutReference
  <2>5. Put(Once[n], Itself) = Once[n]
    BY <1>0, PutItself
  <2> QED BY <2>1, <2>2, <2>4, <2>5
<1>2. ASSUME NEW k \in Nat, k \in Right PROVE k + 1 \in Right
  <2> SUFFICES ASSUME (k + 1) + 1 \in 1..MaxRounds, NEW n \in Names
               PROVE  f[(k + 1) + 1][n] = Put(Once[n], f[k + 1])
    OBVIOUS
  <2> DEFINE l == k + 1
             m == (k + 1) + 1
  <2>1. l \in 1..MaxRounds /\ m \in 1..MaxRounds /\ m - 1 = l /\ l - 1 = k
    BY <1>0
  <2>2. f[l][n] = Put(Once[n], f[k])
    BY <1>2, <2>1
  <2> HIDE DEF l, m
  <2>3. f[m] = Both(f[l], Once) /\ f[l] = Both(f[k], Once) /\ f[k] \in Standing
    BY <2>1, RoundsType DEF AfterRounds
  <2>4. f[m][n] = Put(f[l][n], Once)
    BY <2>3 DEF Both
  <2>5. Put(Put(Once[n], f[k]), Once) = Put(Once[n], Both(f[k], Once))
    BY <1>0, <2>3, PutPut
  <2>6. f[m][n] = Put(Once[n], f[l])
    BY <2>2, <2>3, <2>4, <2>5, Zenon
  <2> QED BY <2>6 DEF l, m
<1>3. Nat \subseteq Right
  <2> HIDE DEF Right
  <2> QED BY <1>1, <1>2, AllNumbers
<1>4. ASSUME NEW k \in 1..MaxRounds PROVE \A n \in Names : f[k][n] = Put(Once[n], f[k - 1])
  <2> DEFINE l == k - 1
  <2>1. l \in Nat /\ l + 1 = k
    BY <1>0
  <2>2. l \in Right
    BY <1>3, <2>1
  <2> HIDE DEF l
  <2>3. \A n \in Names : f[l + 1][n] = Put(Once[n], f[l])
    BY <2>1, <2>2
  <2> QED BY <2>1, <2>3 DEF l
<1> QED BY <1>4

LEMMA RoundsUnset ==
    ASSUME EnvironmentTypeOK, NEW f, AfterRounds(f), NEW n \in Names, n \notin DOMAIN env
    PROVE  \A k \in 1..MaxRounds : f[k][n] = Unset(n)
<1>0. MaxRounds \in Nat /\ Once[n] = Unset(n)
  BY RoundsType DEF Once
<1> DEFINE Right == {k \in Nat : k + 1 \in 1..MaxRounds => f[k + 1][n] = Unset(n)}
<1>1. 0 \in Right
  <2>0. 0 + 1 = 1
    OBVIOUS
  <2> SUFFICES ASSUME 1 \in 1..MaxRounds PROVE f[1][n] = Unset(n)
    BY <2>0
  <2>1. f[0] = Itself /\ f[1] = Both(f[0], Once)
    BY DEF AfterRounds
  <2>2. f[1][n] = Put(<<Braced(n)>>, Once)
    BY <2>1 DEF Both, Itself
  <2> QED BY <1>0, <2>2, OnceType, PutReference
<1>2. ASSUME NEW k \in Nat, k \in Right PROVE k + 1 \in Right
  <2> SUFFICES ASSUME (k + 1) + 1 \in 1..MaxRounds PROVE f[(k + 1) + 1][n] = Unset(n)
    OBVIOUS
  <2> DEFINE l == k + 1
             m == (k + 1) + 1
  <2>1. l \in 1..MaxRounds /\ m \in 1..MaxRounds /\ m - 1 = l
    BY <1>0
  <2>2. f[l][n] = Unset(n)
    BY <1>2, <2>1
  <2> HIDE DEF l, m
  <2>3. f[m] = Both(f[l], Once)
    BY <2>1 DEF AfterRounds
  <2>4. f[m][n] = Put(Unset(n), Once)
    BY <2>2, <2>3 DEF Both
  <2>5. f[m][n] = Unset(n)
    BY <1>0, <2>4, OnceType, PutUnset
  <2> QED BY <2>5 DEF m
<1>3. Nat \subseteq Right
  <2> HIDE DEF Right
  <2> QED BY <1>1, <1>2, AllNumbers
<1>4. ASSUME NEW k \in 1..MaxRounds PROVE f[k][n] = Unset(n)
  <2> DEFINE l == k - 1
  <2>1. l \in Nat /\ l + 1 = k
    BY <1>0
  <2>2. l \in Right
    BY <1>3, <2>1
  <2> HIDE DEF l
  <2> QED BY <2>1, <2>2
<1> QED BY <1>4

\* When a round changes nothing, no later one does.
LEMMA RoundsRest ==
    ASSUME EnvironmentTypeOK, NEW f, AfterRounds(f), NEW v \in Seq(Token), NEW r \in 1..MaxRounds,
           Put(v, f[r]) = Put(v, f[r - 1])
    PROVE  \A k \in r..MaxRounds : Put(v, f[k]) = Put(v, f[r])
<1>0. MaxRounds \in Nat /\ r \in Nat \ {0}
  BY RoundsType
<1> DEFINE Same == {k \in Nat : k + r \in r..MaxRounds => Put(v, f[k + r]) = Put(v, f[r])}
<1>1. 0 \in Same
  <2>1. 0 + r = r
    BY <1>0
  <2> QED BY <2>1
<1>2. ASSUME NEW k \in Nat, k \in Same PROVE k + 1 \in Same
  <2> SUFFICES ASSUME (k + 1) + r \in r..MaxRounds PROVE Put(v, f[(k + 1) + r]) = Put(v, f[r])
    OBVIOUS
  <2> DEFINE l == k + r
             m == (k + 1) + r
  <2>1. l \in r..MaxRounds /\ m \in 1..MaxRounds /\ m - 1 = l
    BY <1>0
  <2>2. Put(v, f[l]) = Put(v, f[r])
    BY <1>2, <2>1
  <2> HIDE DEF l, m
  <2>3. Replaced("braced", Put(v, f[l])) = Put(v, f[m])
    BY <2>1, RoundAfter
  <2>4. Replaced("braced", Put(v, f[r - 1])) = Put(v, f[r])
    BY RoundAfter
  <2>5. Put(v, f[m]) = Put(v, f[r])
    BY <2>2, <2>3, <2>4
  <2> QED BY <2>5 DEF m
<1>3. Nat \subseteq Same
  <2> HIDE DEF Same
  <2> QED BY <1>1, <1>2, AllNumbers
<1>4. ASSUME NEW k \in r..MaxRounds PROVE Put(v, f[k]) = Put(v, f[r])
  <2> DEFINE l == k - r
  <2>1. l \in Nat /\ l + r = k
    BY <1>0
  <2>2. l \in Same
    BY <1>3, <2>1
  <2> HIDE DEF l
  <2> QED BY <2>1, <2>2
<1> QED BY <1>4

-----------------------------------------------------------------------------
(* What the variables mean.                                                *)

LEMMA MeaningsAre ==
    ASSUME EnvironmentTypeOK
    PROVE  /\ \A k \in 0..C : Meanings[k] \in Standing
           /\ \A k \in 0..C, n \in Names : n \notin DOMAIN env => Meanings[k][n] = Unset(n)
           /\ \A k \in 1..C, n \in DOMAIN env : Meanings[k][n] = Put(env[n], Meanings[k - 1])
<1> DEFINE first(n) == IF n \notin DOMAIN env THEN Unset(n) ELSE <<>>
           later(n, f) == IF n \notin DOMAIN env THEN Unset(n) ELSE Put(env[n], f)
           base == [n \in Names |-> first(n)]
           next == [f \in Standing |-> [n \in Names |-> later(n, f)]]
           step == [k \in 1..C |-> next]
           g == Meanings
<1>1. C \in Nat
  BY NamesCounted
<1>2. DOMAIN env \subseteq Names /\ \A n \in DOMAIN env : env[n] \in Seq(Token)
  BY DEF EnvironmentTypeOK
<1>3. base \in Standing
  <2>1. \A n \in Names : first(n) \in Seq(Token)
    BY UnsetType
  <2> HIDE DEF first
  <2> QED BY <2>1 DEF Standing
<1>4. \A f \in Standing, n \in Names : later(n, f) \in Seq(Token)
  BY <1>2, UnsetType, PutType
<1>5. next \in [Standing -> Standing]
  <2> HIDE DEF later
  <2>1. \A f \in Standing : [n \in Names |-> later(n, f)] \in Standing
    BY <1>4 DEF Standing
  <2> QED BY <2>1
<1>6. step \in [1..C -> [Standing -> Standing]]
  BY <1>5
<1>7. PICK f \in [0..C -> Standing] : f[0] = base /\ \A i \in 1..C : f[i] = step[i][f[i - 1]]
  <2>1. Steps(C, Standing, base, step)
    BY <1>1, <1>3, <1>6 DEF Steps
  <2> HIDE DEF base, step
  <2>2. PICK f : TakesSteps(f, C, Standing, base, step)
    BY <2>1, StepByStep
  <2> QED BY <2>2 DEF TakesSteps
<1>8. ASSUME NEW i \in 0..C
      PROVE  f[i] = [n \in Names |-> IF n \notin DOMAIN env THEN Unset(n)
                                     ELSE IF i = 0 THEN <<>> ELSE Put(env[n], f[i - 1])]
  <2>1. CASE i = 0
    BY <1>7, <2>1
  <2>2. CASE i # 0
    <3>1. i \in 1..C /\ i - 1 \in 0..C /\ f[i - 1] \in Standing
      BY <1>1, <1>7, <2>2
    <3>2. f[i] = next[f[i - 1]]
      BY <1>7, <3>1
    <3>3. f[i] = [n \in Names |-> later(n, f[i - 1])]
      <4> HIDE DEF later
      <4> QED BY <3>1, <3>2
    <3> QED BY <2>2, <3>3
  <2> QED BY <2>1, <2>2
<1>9. f = [i \in 0..C |-> [n \in Names |-> IF n \notin DOMAIN env THEN Unset(n)
                                           ELSE IF i = 0 THEN <<>> ELSE Put(env[n], f[i - 1])]]
  BY <1>7, <1>8
<1>10. g = [i \in 0..C |-> [n \in Names |-> IF n \notin DOMAIN env THEN Unset(n)
                                            ELSE IF i = 0 THEN <<>> ELSE Put(env[n], g[i - 1])]]
  BY <1>9, Zenon DEF Meanings, C
<1> HIDE DEF g
<1>11. 0 \in 0..C /\ \A i \in 1..C : i \in 0..C /\ i # 0 /\ i - 1 \in 0..C
  BY <1>1
<1>12. g[0] = base
  BY <1>10, <1>11
<1>13. ASSUME NEW i \in 1..C PROVE g[i] = [n \in Names |-> later(n, g[i - 1])]
  BY <1>10, <1>11
<1>14. \A i \in 0..C : g[i] \in Standing
  <2>1. ASSUME NEW i \in 1..C, g[i - 1] \in Standing PROVE g[i] \in Standing
    <3> HIDE DEF later
    <3> QED BY <1>4, <1>13, <2>1 DEF Standing
  <2> HIDE DEF base
  <2> QED BY <1>1, <1>3, <1>12, <2>1, StepsStay
<1>15. \A k \in 0..C, n \in Names : n \notin DOMAIN env => g[k][n] = Unset(n)
  BY <1>10
<1>16. \A k \in 1..C, n \in DOMAIN env : g[k][n] = Put(env[n], g[k - 1])
  BY <1>2, <1>13
<1> QED BY <1>14, <1>15, <1>16 DEF g

\* Of variables without circles, as many rounds as they are deep make what they mean.
Agree(f, S, d) ==
    \A n \in S \cap DOMAIN env, k \in 1..MaxRounds, j \in 1..C :
       Depth(n) < d /\ Depth(n) < k /\ Depth(n) < j => f[k][n] = Meanings[j][n]

LEMMA RoundsAgree ==
    ASSUME EnvironmentTypeOK, NEW f, AfterRounds(f), NEW S \in SUBSET Names, Complete(S),
           \A n \in S : ~ Circular(n)
    PROVE  \A d \in Nat : Agree(f, S, d)
<1> DEFINE Right == {d \in Nat : Agree(f, S, d)}
<1>0. MaxRounds \in Nat \ {0} /\ C \in Nat \ {0}
  BY RoundsType, NamesCounted
<1>1. DOMAIN env \subseteq Names /\ \A n \in DOMAIN env : env[n] \in Seq(Token)
  BY DEF EnvironmentTypeOK
<1>2. \A n \in S \cap DOMAIN env : Depth(n) \in Nat
  <2>1. \A n \in S \cap DOMAIN env : Depth(n) \in 0..(C - 1)
    BY DepthFalls
  <2> QED BY <1>0, <2>1
<1>3. 0 \in Right
  <2>1. \A n \in S \cap DOMAIN env : ~ (Depth(n) < 0)
    BY <1>2
  <2> QED BY <2>1 DEF Agree
<1>4. ASSUME NEW d \in Nat, d \in Right PROVE d + 1 \in Right
  <2>0. Agree(f, S, d)
    BY <1>4
  <2>1. ASSUME NEW n \in S \cap DOMAIN env, NEW k \in 1..MaxRounds, NEW j \in 1..C,
               Depth(n) < d + 1, Depth(n) < k, Depth(n) < j
        PROVE  f[k][n] = Meanings[j][n]
    <3> DEFINE k1 == k - 1
               j1 == j - 1
    <3>1. n \in Names /\ env[n] \in Seq(Token) /\ Once[n] = env[n] /\ References(env[n]) \subseteq S
      BY <1>1 DEF Once, Complete
    <3>2. f[k][n] = Put(env[n], f[k1])
      BY <3>1, RoundsUnfold
    <3>3. Meanings[j][n] = Put(env[n], Meanings[j1])
      BY MeaningsAre
    <3>4. ASSUME NEW m \in References(env[n]) PROVE f[k1][m] = Meanings[j1][m]
      <4>1. Depth(n) > 0 /\ Depth(n) \in Nat
        BY <1>2, DepthFalls
      <4>2. k1 \in 1..MaxRounds /\ j1 \in 1..C /\ j1 \in 0..C
        BY <1>0, <2>1, <4>1
      <4>3. m \in S /\ m \in Names
        BY <3>1
      <4>4. CASE m \notin DOMAIN env
        <5>1. f[k1][m] = Unset(m)
          <6> HIDE DEF k1
          <6> QED BY <4>2, <4>3, <4>4, RoundsUnset
        <5>2. Meanings[j1][m] = Unset(m)
          <6> HIDE DEF j1
          <6> QED BY <4>2, <4>3, <4>4, MeaningsAre
        <5> QED BY <5>1, <5>2
      <4>5. CASE m \in DOMAIN env
        <5>1. Depth(m) < Depth(n)
          BY <4>3, <4>5, DepthFalls
        <5>2. Depth(m) \in Nat
          BY <1>2, <4>3, <4>5
        <5>3. Depth(m) < d /\ Depth(m) < k1 /\ Depth(m) < j1
          <6>1. \A x, y, z \in Nat : x < y /\ y < z + 1 => x < z
            OBVIOUS
          <6>2. k1 \in Nat /\ j1 \in Nat /\ k = k1 + 1 /\ j = j1 + 1
            BY <4>2
          <6> HIDE DEF k1, j1
          <6> QED BY <2>1, <4>1, <5>1, <5>2, <6>1, <6>2
        <5> HIDE DEF k1, j1
        <5> QED BY <2>0, <4>2, <4>3, <4>5, <5>3 DEF Agree
      <4> QED BY <4>4, <4>5
    <3> HIDE DEF k1, j1
    <3>5. Put(env[n], f[k1]) = Put(env[n], Meanings[j1])
      BY <3>1, <3>4, PutAgrees
    <3> QED BY <3>2, <3>3, <3>5
  <2>2. Agree(f, S, d + 1)
    BY <2>1 DEF Agree
  <2> QED BY <2>2
<1>5. Nat \subseteq Right
  <2> HIDE DEF Right
  <2> QED BY <1>3, <1>4, AllNumbers
<1> QED BY <1>5

\* As many rounds as there are variables make of a value what it means.
LEMMA RoundsMean ==
    ASSUME EnvironmentTypeOK, NEW f, AfterRounds(f), NEW v \in Seq(Token),
           \A n \in Needs(v) : ~ Circular(n), NEW k \in 1..MaxRounds, C <= k
    PROVE  Put(v, f[k]) = Meaning(v)
<1> DEFINE S == Needs(v)
<1>0. C \in Nat \ {0} /\ MaxRounds \in Nat /\ C \in 1..C /\ C \in 0..C
  BY NamesCounted, RoundsType
<1>1. S \in SUBSET Names /\ References(v) \subseteq S /\ Complete(S)
  BY NeedsAreClosed
<1> HIDE DEF S
<1>2. \A n \in S : ~ Circular(n)
  BY DEF S
<1>3. Agree(f, S, C)
  BY <1>0, <1>1, <1>2, RoundsAgree
<1>4. ASSUME NEW n \in References(v) PROVE f[k][n] = Meanings[C][n]
  <2>1. n \in S /\ n \in Names
    BY <1>1
  <2>2. CASE n \notin DOMAIN env
    <3>1. f[k][n] = Unset(n)
      BY <2>1, <2>2, RoundsUnset
    <3>2. Meanings[C][n] = Unset(n)
      BY <1>0, <2>1, <2>2, MeaningsAre
    <3> QED BY <3>1, <3>2
  <2>3. CASE n \in DOMAIN env
    <3>1. Depth(n) \in 0..(C - 1)
      BY <1>2, <2>1, <2>3, DepthFalls
    <3>2. Depth(n) < C /\ Depth(n) < k
      BY <1>0, <3>1
    <3> QED BY <1>0, <1>3, <2>1, <2>3, <3>2 DEF Agree
  <2> QED BY <2>2, <2>3
<1>5. Put(v, f[k]) = Put(v, Meanings[C])
  BY <1>4, PutAgrees
<1> QED BY <1>5 DEF Meaning, C

-----------------------------------------------------------------------------
(* The expansion goes round by round.                                      *)

\* The value that is expanded, with $NAME replaced.
Begun == Replaced("simple", Head(queue).value)

ExpandInv ==
    expanding # Idle =>
      /\ queue # <<>> /\ Head(queue).how = "expand"
      /\ expanding.round \in 1..MaxRounds
      /\ \A f : AfterRounds(f) => expanding.value = Put(Begun, f[expanding.round - 1])

LEMMA BegunType == ASSUME EnvironmentTypeOK, queue # <<>> PROVE Begun \in Seq(Token)
<1>1. queue \in Seq(Definition)
  BY DEF EnvironmentTypeOK
<1>2. Head(queue).value \in Seq(Token)
  BY <1>1, HeadTyped
<1> QED BY <1>2, ReplacedType DEF Begun

\* What a round makes of the value at work.
LEMMA RoundMakes ==
    ASSUME EnvironmentTypeOK, ExpandInv, expanding # Idle, NEW f, AfterRounds(f)
    PROVE  Replaced("braced", expanding.value) = Put(Begun, f[expanding.round])
<1>1. queue # <<>> /\ expanding.round \in 1..MaxRounds /\ expanding.value = Put(Begun, f[expanding.round - 1])
  BY DEF ExpandInv
<1> QED BY <1>1, BegunType, RoundAfter

LEMMA ExpandInvInit == EnvironmentInit => ExpandInv
BY DEF EnvironmentInit, ExpandInv

LEMMA ExpandInvStep ==
    EnvironmentTypeOK /\ ExpandInv /\ [EnvironmentNext]_environmentVars => ExpandInv'
<1> SUFFICES ASSUME EnvironmentTypeOK, ExpandInv, [EnvironmentNext]_environmentVars PROVE ExpandInv'
  OBVIOUS
<1>0. MaxRounds \in Nat \ {0}
  BY EnvironmentAssumption
<1>1. CASE Define
  <2>1. queue # <<>> /\ Head(queue).how \in {"set", "default"} /\ expanding' = expanding
    BY <1>1 DEF Define
  <2>2. expanding' = Idle
    BY <2>1 DEF ExpandInv
  <2> QED BY <2>2 DEF ExpandInv, Idle
<1>2. CASE BeginExpand
  <2>1. /\ queue # <<>> /\ Head(queue).how = "expand" /\ UNCHANGED <<given, queue, env, made>>
        /\ expanding' = [value |-> Begun, round |-> 1]
    BY <1>2 DEF BeginExpand, Begun
  <2>2. Begun' = Begun
    BY <2>1 DEF Begun, Replaced, ValueOf
  <2>3. \A f : AfterRounds(f)' => f[0] = Itself
    BY DEF AfterRounds
  <2>4. Put(Begun, Itself) = Begun
    BY <2>1, BegunType, PutItself
  <2>5. expanding'.round = 1 /\ expanding'.value = Begun /\ 1 - 1 = 0 /\ 1 \in 1..MaxRounds
    BY <1>0, <2>1
  <2>6. \A f : AfterRounds(f)' => expanding'.value = Put(Begun', f[expanding'.round - 1])
    BY <2>2, <2>3, <2>4, <2>5
  <2> QED BY <2>1, <2>5, <2>6 DEF ExpandInv
<1>3. CASE Round
  <2> DEFINE next == Replaced("braced", expanding.value)
  <2>1. CASE expanding' = Idle
    BY <2>1 DEF ExpandInv, Idle
  <2>2. CASE expanding' # Idle
    <3>1. /\ expanding.round # MaxRounds /\ UNCHANGED <<given, env, made, queue>>
          /\ expanding' = [value |-> next, round |-> expanding.round + 1] /\ expanding.round > 0
      BY <1>3, <2>2 DEF Round, Make
    <3>2. expanding # Idle
      BY <3>1 DEF Idle
    <3>3. /\ queue # <<>> /\ Head(queue).how = "expand" /\ expanding.round \in 1..MaxRounds
      BY <3>2 DEF ExpandInv
    <3>4. Begun' = Begun
      BY <3>1 DEF Begun, Replaced, ValueOf
    <3>5. \A f : AfterRounds(f)' => AfterRounds(f)
      BY <3>1 DEF AfterRounds, Once, Unset
    <3>6. expanding'.round = expanding.round + 1 /\ expanding'.value = next
      BY <3>1
    <3> DEFINE r == expanding.round
               s == expanding'.round
    <3>7. s - 1 = r /\ s \in 1..MaxRounds
      BY <1>0, <3>1, <3>3, <3>6
    <3> HIDE DEF next
    <3>8. ASSUME NEW f, AfterRounds(f)' PROVE expanding'.value = Put(Begun', f[s - 1])
      <4>1. next = Put(Begun, f[r])
        BY <3>2, <3>5, <3>8, RoundMakes DEF next
      <4> QED BY <3>4, <3>6, <3>7, <4>1
    <3> QED BY <3>1, <3>3, <3>7, <3>8 DEF ExpandInv
  <2> QED BY <2>1, <2>2
<1>4. CASE UNCHANGED environmentVars
  <2>1. UNCHANGED <<given, queue, env, made, expanding>>
    BY <1>4 DEF environmentVars
  <2>2. Begun' = Begun /\ \A f : AfterRounds(f)' => AfterRounds(f)
    BY <2>1 DEF Begun, Replaced, ValueOf, AfterRounds, Once, Unset
  <2> QED BY <2>1, <2>2 DEF ExpandInv
<1> QED BY <1>1, <1>2, <1>3, <1>4 DEF EnvironmentNext

\* A round that ends the expansion has made what the value means.
LEMMA LastRoundMeans ==
    ASSUME EnvironmentTypeOK, ExpandInv, [EnvironmentNext]_environmentVars,
           expanding # Idle, expanding' = Idle,
           \A n \in Needs(Begun) : ~ Circular(n), Cardinality(Names) <= MaxRounds
    PROVE  env'[Head(queue).name] = Meaning(Begun)
<1> DEFINE next == Replaced("braced", expanding.value)
           r == expanding.round
           name == Head(queue).name
<1>0. MaxRounds \in Nat /\ MaxRounds # 0 /\ C \in Nat \ {0} /\ C <= MaxRounds
  BY EnvironmentAssumption, NamesCounted DEF C
<1>1. Round
  <2>1. ~ Define /\ ~ UNCHANGED environmentVars
    BY DEF Define, environmentVars
  <2>2. ~ BeginExpand
    BY DEF BeginExpand
  <2> QED BY <2>1, <2>2 DEF EnvironmentNext
<1>2. env' = Defined(env, name, next) /\ (next = expanding.value \/ r = MaxRounds)
  <2>1. [value |-> next, round |-> r + 1] # Idle \/ r + 1 = 0
    BY DEF Idle
  <2>2. r > 0 /\ r \in Nat
    BY <1>0, <1>1 DEF Round, ExpandInv
  <2>3. r + 1 # 0
    BY <2>2
  <2> QED BY <1>1, <2>1, <2>3 DEF Round, Make
<1>3. env'[name] = next
  BY <1>2 DEF Defined
<1>4. queue # <<>> /\ r \in 1..MaxRounds
  BY DEF ExpandInv
<1>5. Begun \in Seq(Token)
  BY <1>4, BegunType
<1>6. PICK f : AfterRounds(f)
  BY RoundsExist
<1>7. next = Put(Begun, f[r]) /\ expanding.value = Put(Begun, f[r - 1])
  BY <1>6, RoundMakes DEF ExpandInv
<1> HIDE DEF next, r
<1>8. MaxRounds \in 1..MaxRounds /\ MaxRounds \in r..MaxRounds
  BY <1>0, <1>4
<1>9. Put(Begun, f[MaxRounds]) = Meaning(Begun)
  BY <1>0, <1>5, <1>6, <1>8, RoundsMean
<1>10. CASE r = MaxRounds
  BY <1>3, <1>7, <1>9, <1>10 DEF name
<1>11. CASE next = expanding.value
  <2>1. Put(Begun, f[MaxRounds]) = Put(Begun, f[r])
    BY <1>4, <1>5, <1>6, <1>7, <1>8, <1>11, RoundsRest
  <2> QED BY <1>3, <1>7, <1>9, <2>1 DEF name
<1> QED BY <1>2, <1>10, <1>11

(* What ExpandEnv makes of a value is what the value means: whatever it refers to as
   ${NAME}, at any depth, is in its place, unless variables need themselves or there are
   more variables than rounds.  A $NAME of the value itself is replaced once, before; one
   in the value of a variable it refers to stays.  ExpansionIsFull, for any definitions of
   any variables. *)
THEOREM ExpandsFully == EnvironmentSpec => ExpansionIsFull
<1>1. EnvironmentSpec => []ExpandInv
  BY EnvironmentTypes, ExpandInvInit, ExpandInvStep, PTL DEF EnvironmentSpec
<1>2. EnvironmentTypeOK /\ ExpandInv /\ [EnvironmentNext]_environmentVars
        => [ expanding # Idle /\ expanding' = Idle
               => LET value == Replaced("simple", Head(queue).value)
                  IN  (\A n \in Needs(value) : ~ Circular(n)) /\ Cardinality(Names) <= MaxRounds
                        => env'[Head(queue).name] = Meaning(value) ]_environmentVars
  BY LastRoundMeans DEF Begun
<1> QED BY <1>1, <1>2, EnvironmentTypes, PTL DEF EnvironmentSpec, ExpansionIsFull

-----------------------------------------------------------------------------
(* The units of a command line: each is worked on once, by its name.       *)

\* The names there are, and those an argument can make of them.
Known == Found \cup SysvNames \cup {Asked(called[i], n) : i \in DOMAIN called, n \in Found}

\* The folders scanned so far: a name is found where it is first.
FilesInv ==
    /\ layout \in Layouts /\ called \in Calls
    /\ scan \in 1..(Len(layout.folders) + 1)
    /\ DOMAIN files = UNION {layout.folders[i] : i \in 1..(scan - 1)}
    /\ \A n \in DOMAIN files : /\ files[n] \in 1..(scan - 1) /\ n \in layout.folders[files[n]]
                               /\ \A i \in 1..(scan - 1) : n \in layout.folders[i] => files[n] <= i

\* The loops of MatchUnits come one after the other.
MatchingInv ==
    /\ matching \in [files : SUBSET DOMAIN files, items : SUBSET DOMAIN files,
                     item : DOMAIN files \cup {None}, argument : 1..(Len(called) + 1),
                     scripts : SUBSET SysvNames]
    /\ matching.argument <= Len(called)
         => FilesMatched /\ matching.item \in DOMAIN files /\ matching.item.instance # "none"
    /\ \A n \in matching.items : n.instance # "none"
    /\ ~ Scanned => matched = <<>> /\ matching.argument > Len(called)

\* What has been looked at, and matches, is matched.
CompleteInv ==
    /\ Scanned =>
         /\ \A n \in Found \ matching.files : n.suffix # "" /\ MatchesAny(n) => Contains(matched, n)
         /\ \A n \in Found \ matching.items, i \in DOMAIN called :
               n.instance # "none" /\ (n = matching.item => i < matching.argument) /\ Asks(called[i], n)
                 => Contains(matched, Asked(called[i], n))
    /\ \A n \in SysvNames \ matching.scripts : MatchesAny(n) => Contains(matched, n)

Instantiated(u) == \E n \in Found, i \in DOMAIN called :
                      n.instance # "none" /\ Asks(called[i], n) /\ u = Asked(called[i], n)

\* What is matched is so for a reason.  After a unit without a file comes none that has
\* one and is matched: the look at the files is over by then.
ReasonsInv ==
    /\ matched \in Seq(Known) /\ IsInjective(matched)
    /\ \A i \in 1..Len(matched) : \/ matched[i] \in Found \cup SysvNames /\ MatchesAny(matched[i])
                                  \/ Instantiated(matched[i])
    /\ ~ FilesMatched => \A i \in 1..Len(matched) : matched[i] \in Found
    /\ \A i, j \in 1..Len(matched) :
          j < i /\ matched[j] \notin Found /\ matched[i] \in Found /\ matched[i].suffix # ""
            => ~ MatchesAny(matched[i])

\* The conf of a file has the name of the file, or, that of a template, the name of an
\* instance worked on before.
Renamed(path, name) ==
    /\ path[1] > 0
    /\ \E j \in 1..Len(worked) : /\ name = matched[j] /\ matched[j] \notin Found
                                 /\ matched[j].instance # "none"
                                 /\ path[2] = Template(matched[j].prefix)

ConfsInv ==
    \A path \in DOMAIN confs : /\ path[2] \in Found \cup SysvNames
                               /\ confs[path] = path[2] \/ Renamed(path, confs[path])

\* What is recorded of a unit that is worked on.
Works == [unit : Known,
          path : (({0} \cup DOMAIN layout.folders) \X (Found \cup SysvNames)) \cup {None},
          name : Known]

WorkedInv ==
    /\ worked \in Seq(Works) /\ Len(worked) <= Len(matched)
    /\ \A i \in 1..Len(worked) : /\ worked[i].unit = matched[i] /\ worked[i].path = FileOf(matched[i])
                                 /\ worked[i].name = matched[i] \/ AfterInstances(matched[i])

DatabaseInv == FilesInv /\ MatchingInv /\ CompleteInv /\ ReasonsInv /\ ConfsInv /\ WorkedInv

\* What no step changes, and so what is said of it.
LEMMA CommandStays ==
    ASSUME UNCHANGED command
    PROVE  /\ Found' = Found /\ SysvNames' = SysvNames /\ Known' = Known /\ Works' = Works
           /\ \A n : MatchesAny(n)' = MatchesAny(n)
           /\ \A n : Instantiated(n)' = Instantiated(n)
           /\ \A n : FileOf(n)' = FileOf(n)
           /\ \A n : AfterInstances(n)' = AfterInstances(n)
<1>1. layout' = layout /\ called' = called
  BY DEF command
<1>2. Found' = Found /\ SysvNames' = SysvNames
  BY <1>1 DEF Found, SysvNames
<1>3. Known' = Known
  BY <1>1, <1>2 DEF Known
<1>4. \A n : MatchesAny(n)' = MatchesAny(n) /\ AfterInstances(n)' = AfterInstances(n)
  BY <1>1 DEF MatchesAny, AfterInstances
<1>5. \A n : Instantiated(n)' = Instantiated(n)
  BY <1>1, <1>2 DEF Instantiated
<1>6. \A n : FileOf(n)' = FileOf(n)
  BY <1>1, <1>2 DEF FileOf, FirstFile
<1>7. Works' = Works
  BY <1>1, <1>2, <1>3 DEF Works
<1> QED BY <1>2, <1>3, <1>4, <1>5, <1>6, <1>7

\* The folders and the arguments are sequences, and every name has its three parts.
LEMMA NamesHaveParts ==
    ASSUME layout \in Layouts, called \in Calls
    PROVE  /\ Len(layout.folders) \in Nat /\ DOMAIN layout.folders = 1..Len(layout.folders)
           /\ Len(called) \in Nat /\ DOMAIN called = 1..Len(called)
           /\ \A n \in Found \cup SysvNames : n = Name(n.prefix, n.instance, n.suffix)
           /\ \A i \in DOMAIN called : called[i].name = Name(called[i].name.prefix, called[i].name.instance,
                                                             called[i].name.suffix)
<1>1. /\ Len(layout.folders) \in Nat /\ DOMAIN layout.folders = 1..Len(layout.folders)
      /\ \A n \in Found : n = Name(n.prefix, n.instance, n.suffix)
  BY DatabaseAssumption DEF Found
<1>2. \A n \in SysvNames : n = Name(n.prefix, n.instance, n.suffix)
  BY DEF SysvNames, Service, Name
<1>3. /\ Len(called) \in Nat /\ DOMAIN called = 1..Len(called)
      /\ \A i \in DOMAIN called : called[i].name = Name(called[i].name.prefix, called[i].name.instance,
                                                        called[i].name.suffix)
  BY DatabaseAssumption
<1> QED BY <1>1, <1>2, <1>3

\* A list with no name twice to which a name is added if it is not there, and if
\* there is a reason to.
Longer(s, t, n, reason) ==
    /\ IsInjective(t) /\ Len(s) \in Nat /\ Len(t) \in Nat /\ Len(s) <= Len(t)
    /\ \A i \in 1..Len(s) : t[i] = s[i]
    /\ \A e : Contains(s, e) => Contains(t, e)
    /\ reason => Contains(t, n)
    /\ \A i \in 1..Len(t) : \/ i \in 1..Len(s)
                            \/ i = Len(s) + 1 /\ t[i] = n /\ reason /\ ~ Contains(s, n)

LEMMA AddedOnce ==
    ASSUME NEW S, NEW s \in Seq(S), IsInjective(s), NEW n \in S, ~ Contains(s, n)
    PROVE  Append(s, n) \in Seq(S) /\ Longer(s, Append(s, n), n, TRUE)
<1> DEFINE t == Append(s, n)
<1>1. /\ t \in Seq(S) /\ Len(t) = Len(s) + 1 /\ t[Len(s) + 1] = n
      /\ \A i \in 1..Len(s) : t[i] = s[i]
  BY AppendProperties
<1> HIDE DEF t
<1>2. Len(s) \in Nat /\ DOMAIN s = 1..Len(s) /\ Len(t) \in Nat /\ DOMAIN t = 1..Len(t)
  BY <1>1, LenProperties
<1>3. \A i \in 1..Len(t) : i \in 1..Len(s) \/ i = Len(s) + 1
  BY <1>1, <1>2
<1>4. ASSUME NEW i \in DOMAIN t, NEW j \in DOMAIN t, t[i] = t[j] PROVE i = j
  <2>1. CASE i \in 1..Len(s) /\ j \in 1..Len(s)
    BY <1>1, <1>2, <1>4, <2>1 DEF IsInjective
  <2>2. CASE i \in 1..Len(s) /\ j = Len(s) + 1
    BY <1>1, <1>4, <2>2 DEF Contains
  <2>3. CASE j \in 1..Len(s) /\ i = Len(s) + 1
    BY <1>1, <1>4, <2>3 DEF Contains
  <2> QED BY <1>2, <1>3, <2>1, <2>2, <2>3
<1>5. IsInjective(t)
  BY <1>4 DEF IsInjective
<1>6. Len(s) <= Len(t) /\ Len(s) + 1 \in 1..Len(t) /\ \A i \in 1..Len(s) : i \in 1..Len(t)
  BY <1>1, <1>2
<1>7. Contains(t, n) /\ \A e : Contains(s, e) => Contains(t, e)
  BY <1>1, <1>6 DEF Contains
<1>8. t \in Seq(S) /\ Longer(s, t, n, TRUE)
  BY <1>1, <1>2, <1>3, <1>5, <1>6, <1>7 DEF Longer
<1> QED BY <1>8 DEF t

LEMMA NotLonger ==
    ASSUME NEW S, NEW s \in Seq(S), IsInjective(s), NEW n, NEW reason, reason => Contains(s, n)
    PROVE  Longer(s, s, n, reason)
<1>1. Len(s) \in Nat
  BY LenProperties
<1> QED BY <1>1 DEF Longer

LEMMA DatabaseInvInit == DatabaseInit => DatabaseInv
<1> SUFFICES ASSUME DatabaseInit PROVE DatabaseInv
  OBVIOUS
<1>0. layout \in Layouts /\ called \in Calls /\ scan = 1 /\ files = <<>> /\ matched = <<>> /\ confs = <<>>
      /\ worked = <<>> /\ matching = [files |-> {}, items |-> {}, item |-> None,
                                      argument |-> Len(called) + 1, scripts |-> SysvNames]
  BY DEF DatabaseInit
<1>1. /\ Len(layout.folders) \in Nat /\ DOMAIN layout.folders = 1..Len(layout.folders)
      /\ Len(called) \in Nat /\ DOMAIN called = 1..Len(called)
  BY <1>0, NamesHaveParts
<1>2. FilesInv
  <2>1. 1..(scan - 1) = {} /\ DOMAIN files = {}
    BY <1>0
  <2> QED BY <1>0, <1>1, <2>1 DEF FilesInv
<1>3. MatchingInv
  <2>1. Len(called) + 1 \in 1..(Len(called) + 1) /\ ~ Len(called) + 1 <= Len(called)
    BY <1>1
  <2> QED BY <1>0, <1>1, <2>1 DEF MatchingInv
<1>4. CompleteInv
  <2>1. Scanned => Found = {}
    BY <1>0, <1>1 DEF Scanned, Found
  <2> QED BY <1>0, <2>1 DEF CompleteInv
<1>5. Len(matched) = 0 /\ matched \in Seq(Known) /\ DOMAIN matched = {} /\ 1..Len(matched) = {}
  BY <1>0
<1>6. ReasonsInv
  BY <1>5 DEF ReasonsInv, IsInjective
<1>7. ConfsInv
  <2>1. DOMAIN confs = {}
    BY <1>0
  <2> QED BY <2>1 DEF ConfsInv
<1>8. WorkedInv
  <2>1. Len(worked) = 0 /\ worked \in Seq(Works) /\ 1..Len(worked) = {}
    BY <1>0
  <2> QED BY <1>5, <2>1 DEF WorkedInv
<1> QED BY <1>2, <1>3, <1>4, <1>6, <1>7, <1>8 DEF DatabaseInv

LEMMA SmallerIndex ==
    ASSUME NEW p \in Nat, NEW q \in Nat, NEW k \in 1..p, NEW m \in 1..q, m < k
    PROVE  m \in 1..p
OBVIOUS

\* A name is added for a reason, and not after one without a file that was added
\* after all files had been looked at.
LEMMA AddedForAReason ==
    ASSUME DatabaseInv, UNCHANGED command, NEW n \in Known, NEW reason \in BOOLEAN,
           matched' = IF reason THEN Added(n) ELSE matched,
           reason => (n \in Found \cup SysvNames /\ MatchesAny(n)) \/ Instantiated(n),
           ~ FilesMatched => n \in Found,
           FilesMatched /\ n \in Found /\ n.suffix # "" /\ MatchesAny(n) => Contains(matched, n),
           ~ FilesMatched' => ~ FilesMatched
    PROVE  ReasonsInv' /\ Longer(matched, matched', n, reason)
<1>0. ReasonsInv /\ matched \in Seq(Known) /\ IsInjective(matched)
  BY DEF DatabaseInv, ReasonsInv
<1>1. /\ Found' = Found /\ SysvNames' = SysvNames /\ Known' = Known
      /\ \A u : MatchesAny(u)' = MatchesAny(u) /\ Instantiated(u)' = Instantiated(u)
  BY CommandStays
<1>2. matched' \in Seq(Known) /\ Longer(matched, matched', n, reason)
  <2>1. CASE reason /\ ~ Contains(matched, n)
    <3>1. matched' = Append(matched, n)
      BY <2>1 DEF Added
    <3>2. Append(matched, n) \in Seq(Known) /\ Longer(matched, Append(matched, n), n, TRUE)
      BY <1>0, <2>1, AddedOnce
    <3> QED BY <2>1, <3>1, <3>2 DEF Longer
  <2>2. CASE ~ (reason /\ ~ Contains(matched, n))
    <3>1. matched' = matched
      BY <2>2 DEF Added
    <3> QED BY <1>0, <2>2, <3>1, NotLonger
  <2> QED BY <2>1, <2>2
<1>3. /\ IsInjective(matched') /\ \A i \in 1..Len(matched) : matched'[i] = matched[i]
      /\ \A i \in 1..Len(matched') :
            \/ i \in 1..Len(matched)
            \/ i = Len(matched) + 1 /\ matched'[i] = n /\ reason /\ ~ Contains(matched, n)
      /\ Len(matched) \in Nat /\ Len(matched') \in Nat
  BY <1>2 DEF Longer
<1>4. ASSUME NEW i \in 1..Len(matched')
      PROVE  \/ matched'[i] \in Found \cup SysvNames /\ MatchesAny(matched'[i])
             \/ Instantiated(matched'[i])
  BY <1>0, <1>3, <1>4 DEF ReasonsInv
<1>5. ASSUME ~ FilesMatched', NEW i \in 1..Len(matched') PROVE matched'[i] \in Found
  BY <1>0, <1>3, <1>5 DEF ReasonsInv
<1>6. ASSUME NEW i \in 1..Len(matched'), NEW j \in 1..Len(matched'), j < i,
             matched'[j] \notin Found, matched'[i] \in Found, matched'[i].suffix # ""
      PROVE  ~ MatchesAny(matched'[i])
  <2>1. CASE i \in 1..Len(matched)
    <3>0. Len(matched) \in Nat /\ Len(matched') \in Nat
      BY <1>3
    <3>1. j \in 1..Len(matched)
      BY <1>6, <2>1, <3>0, SmallerIndex
    <3> QED BY <1>0, <1>3, <1>6, <2>1, <3>1 DEF ReasonsInv
  <2>2. CASE i = Len(matched) + 1 /\ matched'[i] = n /\ reason /\ ~ Contains(matched, n)
    <3>1. j \in 1..Len(matched)
      BY <1>3, <1>6, <2>2
    <3>2. FilesMatched
      BY <1>0, <1>3, <1>6, <3>1 DEF ReasonsInv
    <3> QED BY <1>6, <2>2, <3>2
  <2> QED BY <1>3, <2>1, <2>2
<1>7. /\ layout' = layout /\ called' = called
  BY DEF command
<1>8. ASSUME NEW i \in 1..Len(matched')
      PROVE  ((matched[i] \in Found \cup SysvNames /\ MatchesAny(matched[i])) \/ Instantiated(matched[i]))'
  <2>1. (MatchesAny(matched[i]))' <=> MatchesAny(matched'[i])
    BY <1>7 DEF MatchesAny
  <2>2. (Instantiated(matched[i]))' <=> Instantiated(matched'[i])
    BY <1>1, <1>7 DEF Instantiated
  <2> QED BY <1>1, <1>4, <1>8, <2>1, <2>2
<1>9. ASSUME NEW i \in 1..Len(matched'), NEW j \in 1..Len(matched')
      PROVE  (j < i /\ matched[j] \notin Found /\ matched[i] \in Found /\ matched[i].suffix # ""
                => ~ MatchesAny(matched[i]))'
  <2>1. (MatchesAny(matched[i]))' <=> MatchesAny(matched'[i])
    BY <1>7 DEF MatchesAny
  <2> QED BY <1>1, <1>6, <1>9, <2>1
<1> QED BY <1>1, <1>2, <1>3, <1>5, <1>8, <1>9 DEF ReasonsInv

\* What has been worked on stays so when names are added to the list.
LEMMA WorkStays ==
    ASSUME DatabaseInv, UNCHANGED <<command, confs, worked>>, NEW n, NEW reason,
           Longer(matched, matched', n, reason)
    PROVE  ConfsInv' /\ WorkedInv'
<1>1. /\ Found' = Found /\ SysvNames' = SysvNames /\ Works' = Works
      /\ \A u : FileOf(u)' = FileOf(u) /\ AfterInstances(u)' = AfterInstances(u)
  BY CommandStays
<1>2. /\ worked \in Seq(Works) /\ Len(worked) \in Nat /\ Len(worked) <= Len(matched)
      /\ ConfsInv
      /\ \A i \in 1..Len(worked) : /\ worked[i].unit = matched[i] /\ worked[i].path = FileOf(matched[i])
                                   /\ worked[i].name = matched[i] \/ AfterInstances(matched[i])
  BY LenProperties DEF DatabaseInv, WorkedInv
<1>3. /\ Len(matched) \in Nat /\ Len(matched') \in Nat /\ Len(matched) <= Len(matched')
      /\ \A i \in 1..Len(matched) : matched'[i] = matched[i]
  BY DEF Longer
<1>4. Len(worked) <= Len(matched') /\ \A i \in 1..Len(worked) : matched'[i] = matched[i]
  BY <1>2, <1>3
<1>5. \A path, name : Renamed(path, name) => Renamed(path, name)'
  BY <1>1, <1>4 DEF Renamed
<1>6. ConfsInv'
  <2>1. ASSUME NEW path \in DOMAIN confs
        PROVE  path[2] \in Found \cup SysvNames /\ (confs[path] = path[2] \/ Renamed(path, confs[path])')
    BY <1>2, <1>5, <2>1 DEF ConfsInv
  <2> QED BY <1>1, <2>1 DEF ConfsInv
<1>7. WorkedInv'
  <2>1. ASSUME NEW i \in 1..Len(worked)
        PROVE  (/\ worked[i].unit = matched[i] /\ worked[i].path = FileOf(matched[i])
                /\ worked[i].name = matched[i] \/ AfterInstances(matched[i]))'
    <3>1. layout' = layout /\ called' = called
      BY DEF command
    <3>2. (FileOf(matched[i]))' = FileOf(matched'[i])
      BY <1>1, <3>1 DEF FileOf, FirstFile
    <3>3. (AfterInstances(matched[i]))' <=> AfterInstances(matched'[i])
      BY <3>1 DEF AfterInstances
    <3>4. worked' = worked /\ matched'[i] = matched[i]
      BY <1>4, <2>1
    <3> QED BY <1>2, <2>1, <3>2, <3>3, <3>4
  <2> QED BY <1>1, <1>2, <1>4, <2>1 DEF WorkedInv
<1> QED BY <1>6, <1>7

LEMMA ScanFolderStep == DatabaseInv /\ ScanFolder => DatabaseInv'
<1> SUFFICES ASSUME DatabaseInv, ScanFolder PROVE DatabaseInv'
  OBVIOUS
<1> DEFINE here == layout.folders[scan]
<1>0. /\ UNCHANGED <<command, matched, confs, worked>> /\ scan' = scan + 1 /\ ~ Scanned
      /\ files' = [n \in DOMAIN files \cup here |-> IF n \in DOMAIN files THEN files[n] ELSE scan]
      /\ matching' = [matching EXCEPT !.files = {n \in DOMAIN files' : n.suffix # ""},
                                      !.items = {n \in DOMAIN files' : n.instance # "none"}]
      /\ layout' = layout /\ called' = called
  BY DEF ScanFolder, command
<1>1. /\ layout \in Layouts /\ called \in Calls
      /\ scan \in 1..(Len(layout.folders) + 1)
      /\ DOMAIN files = UNION {layout.folders[i] : i \in 1..(scan - 1)}
      /\ \A n \in DOMAIN files : /\ files[n] \in 1..(scan - 1) /\ n \in layout.folders[files[n]]
                                 /\ \A i \in 1..(scan - 1) : n \in layout.folders[i] => files[n] <= i
  BY DEF DatabaseInv, FilesInv
<1>2. /\ Len(layout.folders) \in Nat /\ DOMAIN layout.folders = 1..Len(layout.folders)
      /\ Len(called) \in Nat /\ DOMAIN called = 1..Len(called)
  BY <1>1, NamesHaveParts
<1>3. scan \in 1..Len(layout.folders) /\ scan' \in 1..(Len(layout.folders) + 1)
      /\ 1..(scan' - 1) = 1..(scan - 1) \cup {scan} /\ scan \notin 1..(scan - 1)
  BY <1>0, <1>1, <1>2 DEF Scanned
<1>4. /\ Found' = Found /\ SysvNames' = SysvNames /\ Known' = Known
      /\ \A u : MatchesAny(u)' = MatchesAny(u) /\ Instantiated(u)' = Instantiated(u)
      /\ \A u : FileOf(u)' = FileOf(u) /\ AfterInstances(u)' = AfterInstances(u)
  BY <1>0, CommandStays
<1>5. DOMAIN files' = DOMAIN files \cup here /\ \A n \in DOMAIN files \cup here :
         files'[n] = IF n \in DOMAIN files THEN files[n] ELSE scan
  BY <1>0
<1>6. FilesInv'
  <2> DEFINE below == 1..(scan - 1)
  <2>0. /\ \A n : n \in DOMAIN files <=> \E i \in below : n \in layout.folders[i]
        /\ 1..(scan' - 1) = below \cup {scan}
        /\ \A i \in below : i <= scan
        /\ scan \in Nat
    BY <1>1, <1>3
  <2> HIDE DEF below
  <2>1. DOMAIN files' = UNION {layout.folders[i] : i \in 1..(scan' - 1)}
    BY <1>5, <2>0
  <2>2. ASSUME NEW n \in DOMAIN files'
        PROVE  /\ files'[n] \in 1..(scan' - 1) /\ n \in layout.folders[files'[n]]
               /\ \A i \in 1..(scan' - 1) : n \in layout.folders[i] => files'[n] <= i
    <3>1. CASE n \in DOMAIN files
      <4>1. /\ files'[n] = files[n] /\ files[n] \in below /\ n \in layout.folders[files[n]]
            /\ \A i \in below : n \in layout.folders[i] => files[n] <= i
        BY <1>1, <1>5, <3>1 DEF below
      <4> QED BY <2>0, <4>1
    <3>2. CASE n \notin DOMAIN files
      <4>1. files'[n] = scan /\ n \in here
        BY <1>5, <2>2, <3>2
      <4>2. \A i \in below : n \notin layout.folders[i]
        BY <2>0, <3>2
      <4> QED BY <2>0, <4>1, <4>2
    <3> QED BY <3>1, <3>2
  <2>3. /\ layout' \in Layouts /\ called' \in Calls /\ layout' = layout
        /\ scan' \in 1..(Len(layout'.folders) + 1)
    BY <1>0, <1>1, <1>3
  <2> QED BY <2>1, <2>2, <2>3 DEF FilesInv
<1>7. matched = <<>> /\ matching.argument > Len(called)
      /\ matching \in [files : SUBSET DOMAIN files, items : SUBSET DOMAIN files,
                       item : DOMAIN files \cup {None}, argument : 1..(Len(called) + 1),
                       scripts : SUBSET SysvNames]
  BY <1>0 DEF DatabaseInv, MatchingInv
<1>8. /\ \A n \in DOMAIN files' : n.suffix # "" => n \in matching'.files
      /\ \A n \in DOMAIN files' : n.instance # "none" <=> n \in matching'.items
      /\ matching'.item = matching.item /\ matching'.argument = matching.argument
      /\ matching'.scripts = matching.scripts
      /\ matching' \in [files : SUBSET DOMAIN files', items : SUBSET DOMAIN files',
                        item : DOMAIN files' \cup {None}, argument : 1..(Len(called) + 1),
                        scripts : SUBSET SysvNames]
  <2>1. DOMAIN files \subseteq DOMAIN files'
    BY <1>5
  <2> DEFINE F == {n \in DOMAIN files' : n.suffix # ""}
             I == {n \in DOMAIN files' : n.instance # "none"}
  <2>2. F \in SUBSET DOMAIN files' /\ I \in SUBSET DOMAIN files'
    OBVIOUS
  <2>3. matching.item \in DOMAIN files' \cup {None}
    BY <1>7, <2>1
  <2>4. matching' = [matching EXCEPT !.files = F, !.items = I]
    BY <1>0
  <2> HIDE DEF F, I
  <2>5. /\ matching'.files = F /\ matching'.items = I /\ matching'.item = matching.item
        /\ matching'.argument = matching.argument /\ matching'.scripts = matching.scripts
        /\ matching' \in [files : SUBSET DOMAIN files', items : SUBSET DOMAIN files',
                          item : DOMAIN files' \cup {None}, argument : 1..(Len(called) + 1),
                          scripts : SUBSET SysvNames]
    BY <1>7, <2>2, <2>3, <2>4
  <2>6. /\ \A n \in DOMAIN files' : n.suffix # "" => n \in F
        /\ \A n \in DOMAIN files' : n.instance # "none" <=> n \in I
    BY DEF F, I
  <2> QED BY <2>5, <2>6
<1>9. MatchingInv'
  <2>1. matching.argument \in 1..(Len(called) + 1)
    BY <1>7
  <2>2. ~ matching.argument <= Len(called)
    BY <1>2, <1>7, <2>1
  <2> QED BY <1>0, <1>4, <1>7, <1>8, <2>2 DEF MatchingInv
<1>10. CompleteInv'
  <2>1. ASSUME Scanned' PROVE DOMAIN files' = Found
    <3>1. 1..(scan' - 1) = DOMAIN layout.folders
      BY <1>0, <1>2, <1>3, <2>1 DEF Scanned
    <3> QED BY <1>0, <1>6, <3>1 DEF FilesInv, Found
  <2>2. \A n \in SysvNames \ matching'.scripts : MatchesAny(n)' => Contains(matched, n)
    BY <1>4, <1>8 DEF DatabaseInv, CompleteInv
  <2>3. Scanned' => /\ \A n \in Found \ matching'.files : n.suffix = ""
                    /\ \A n \in Found \ matching'.items : n.instance = "none"
    BY <1>8, <2>1
  <2> QED BY <1>0, <1>4, <2>2, <2>3 DEF CompleteInv
<1>11. ReasonsInv'
  <2>1. matched' = <<>> /\ 1..Len(matched') = {} /\ matched' \in Seq(Known)
    BY <1>0, <1>7
  <2> QED BY <1>4, <2>1 DEF ReasonsInv, IsInjective
<1>12. ConfsInv' /\ WorkedInv'
  <2>1. Longer(matched, matched', None, FALSE)
    <3>1. Len(matched) = 0 /\ DOMAIN matched = {}
      BY <1>7
    <3> QED BY <1>0, <3>1 DEF Longer, IsInjective
  <2> QED BY <1>0, <2>1, WorkStays
<1> QED BY <1>6, <1>9, <1>10, <1>11, <1>12 DEF DatabaseInv

\* What the steps of MatchUnits leave alone.
LEMMA FilesStay ==
    ASSUME DatabaseInv, UNCHANGED <<command, scan, files>>
    PROVE  FilesInv' /\ Scanned' = Scanned
<1>1. layout' = layout /\ called' = called
  BY DEF command
<1>2. Scanned' = Scanned
  BY <1>1 DEF Scanned
<1>3. FilesInv'
  BY <1>1 DEF DatabaseInv, FilesInv
<1> QED BY <1>2, <1>3

\* All folders are scanned: a file has been found for every name.
LEMMA AllFound ==
    ASSUME FilesInv, Scanned
    PROVE  DOMAIN files = Found /\ scan - 1 = Len(layout.folders)
<1>1. Len(layout.folders) \in Nat /\ DOMAIN layout.folders = 1..Len(layout.folders)
  BY NamesHaveParts DEF FilesInv
<1>2. scan - 1 = Len(layout.folders)
  BY <1>1 DEF FilesInv, Scanned
<1> QED BY <1>1, <1>2 DEF FilesInv, Found

LEMMA MatchingType ==
    ASSUME DatabaseInv
    PROVE  /\ matching.files \subseteq DOMAIN files /\ matching.items \subseteq DOMAIN files
           /\ matching.scripts \subseteq SysvNames
           /\ matching.argument \in 1..(Len(called) + 1)
           /\ Len(called) \in Nat /\ DOMAIN called = 1..Len(called)
<1>1. Len(called) \in Nat /\ DOMAIN called = 1..Len(called)
  BY NamesHaveParts DEF DatabaseInv, FilesInv
<1> QED BY <1>1 DEF DatabaseInv, MatchingInv

LEMMA MatchUnitFileStep == DatabaseInv /\ MatchUnitFile => DatabaseInv'
<1> SUFFICES ASSUME DatabaseInv, MatchUnitFile PROVE DatabaseInv'
  OBVIOUS
<1>0. PICK n \in matching.files :
         /\ matched' = IF MatchesAny(n) THEN Added(n) ELSE matched
         /\ matching' = [matching EXCEPT !.files = @ \ {n}]
  BY DEF MatchUnitFile
<1>1. Scanned /\ UNCHANGED <<command, scan, files, confs, worked>> /\ called' = called
  BY DEF MatchUnitFile, command
<1>2. /\ Found' = Found /\ SysvNames' = SysvNames /\ Known' = Known
      /\ \A u : MatchesAny(u)' = MatchesAny(u)
  BY <1>1, CommandStays
<1>3. FilesInv' /\ Scanned' = Scanned
  BY <1>1, FilesStay
<1>4. matching \in [files : SUBSET DOMAIN files, items : SUBSET DOMAIN files,
                    item : DOMAIN files \cup {None}, argument : 1..(Len(called) + 1),
                    scripts : SUBSET SysvNames]
  BY DEF DatabaseInv, MatchingInv
<1>5. /\ matching'.files = matching.files \ {n} /\ matching'.items = matching.items
      /\ matching'.item = matching.item /\ matching'.argument = matching.argument
      /\ matching'.scripts = matching.scripts
      /\ matching' \in [files : SUBSET DOMAIN files, items : SUBSET DOMAIN files,
                        item : DOMAIN files \cup {None}, argument : 1..(Len(called) + 1),
                        scripts : SUBSET SysvNames]
  BY <1>0, <1>4
<1>6. n \in Found /\ DOMAIN files = Found /\ ~ FilesMatched /\ n \in Known
  BY <1>0, <1>1, AllFound, MatchingType DEF DatabaseInv, FilesMatched, Known
<1>7. ~ matching.argument <= Len(called)
  BY <1>6 DEF DatabaseInv, MatchingInv
<1>8. MatchingInv'
  BY <1>1, <1>2, <1>3, <1>5, <1>7 DEF DatabaseInv, MatchingInv
<1>9. ReasonsInv' /\ Longer(matched, matched', n, MatchesAny(n))
  <2>1. MatchesAny(n) \in BOOLEAN
    BY DEF MatchesAny
  <2> QED BY <1>0, <1>1, <1>6, <2>1, AddedForAReason
<1>10. CompleteInv'
  <2>1. /\ \A u : Contains(matched, u) => Contains(matched', u)
        /\ MatchesAny(n) => Contains(matched', n)
    BY <1>9 DEF Longer
  <2>2. ASSUME NEW u \in Found \ matching'.files, u.suffix # "", MatchesAny(u)
        PROVE  Contains(matched', u)
    BY <1>1, <1>5, <2>1, <2>2 DEF DatabaseInv, CompleteInv
  <2>3. ASSUME NEW u \in Found \ matching'.items, NEW i \in DOMAIN called, u.instance # "none",
               u = matching'.item => i < matching'.argument, Asks(called[i], u)
        PROVE  Contains(matched', Asked(called[i], u))
    BY <1>1, <1>5, <2>1, <2>3 DEF DatabaseInv, CompleteInv
  <2>4. ASSUME NEW u \in SysvNames \ matching'.scripts, MatchesAny(u)
        PROVE  Contains(matched', u)
    BY <1>5, <2>1, <2>4 DEF DatabaseInv, CompleteInv
  <2> QED BY <1>1, <1>2, <2>2, <2>3, <2>4 DEF CompleteInv
<1>11. ConfsInv' /\ WorkedInv'
  BY <1>1, <1>9, WorkStays
<1> QED BY <1>3, <1>8, <1>9, <1>10, <1>11 DEF DatabaseInv

LEMMA TakeItemStep == DatabaseInv /\ TakeItem => DatabaseInv'
<1> SUFFICES ASSUME DatabaseInv, TakeItem PROVE DatabaseInv'
  OBVIOUS
<1>0. PICK item \in matching.items :
         matching' = [matching EXCEPT !.items = @ \ {item}, !.item = item, !.argument = 1]
  BY DEF TakeItem
<1>1. /\ FilesMatched /\ matching.argument > Len(called)
      /\ UNCHANGED <<command, scan, files, matched, confs, worked>> /\ called' = called
  BY DEF TakeItem, command
<1>2. /\ Found' = Found /\ SysvNames' = SysvNames /\ Known' = Known
      /\ \A u : MatchesAny(u)' = MatchesAny(u) /\ Instantiated(u)' = Instantiated(u)
  BY <1>1, CommandStays
<1>3. FilesInv' /\ Scanned' = Scanned
  BY <1>1, FilesStay
<1>4. matching \in [files : SUBSET DOMAIN files, items : SUBSET DOMAIN files,
                    item : DOMAIN files \cup {None}, argument : 1..(Len(called) + 1),
                    scripts : SUBSET SysvNames]
  BY DEF DatabaseInv, MatchingInv
<1>5. /\ matching'.files = matching.files /\ matching'.items = matching.items \ {item}
      /\ matching'.item = item /\ matching'.argument = 1 /\ matching'.scripts = matching.scripts
      /\ matching' \in [files : SUBSET DOMAIN files, items : SUBSET DOMAIN files,
                        item : DOMAIN files \cup {None}, argument : 1..(Len(called) + 1),
                        scripts : SUBSET SysvNames]
  <2>1. 1 \in 1..(Len(called) + 1)
    BY MatchingType
  <2> QED BY <1>0, <1>4, <2>1
<1>6. FilesMatched' = FilesMatched
  BY <1>3, <1>5 DEF FilesMatched
<1>7. MatchingInv'
  <2>1. item \in DOMAIN files /\ item.instance # "none"
    BY <1>4 DEF DatabaseInv, MatchingInv
  <2> QED BY <1>1, <1>2, <1>3, <1>5, <1>6, <2>1 DEF DatabaseInv, MatchingInv, FilesMatched
<1>8. CompleteInv'
  <2>1. /\ \A i \in DOMAIN called : i < matching.argument /\ ~ i < 1
    BY <1>1, MatchingType
  <2>2. ASSUME NEW u \in Found \ matching'.items, NEW i \in DOMAIN called, u.instance # "none",
               u = matching'.item => i < matching'.argument, Asks(called[i], u)
        PROVE  Contains(matched, Asked(called[i], u))
    <3>1. u \in Found \ matching.items
      BY <1>5, <2>1, <2>2
    <3> QED BY <1>1, <2>1, <2>2, <3>1 DEF DatabaseInv, CompleteInv, FilesMatched
  <2>3. /\ Scanned => \A u \in Found \ matching'.files : u.suffix # "" /\ MatchesAny(u) => Contains(matched, u)
        /\ \A u \in SysvNames \ matching'.scripts : MatchesAny(u) => Contains(matched, u)
    BY <1>5 DEF DatabaseInv, CompleteInv
  <2> QED BY <1>1, <1>2, <1>3, <2>2, <2>3 DEF CompleteInv
<1>9. ReasonsInv'
  BY <1>1, <1>2, <1>6 DEF DatabaseInv, ReasonsInv
<1>10. ConfsInv' /\ WorkedInv'
  <2>1. Longer(matched, matched', item, FALSE)
    BY <1>1, NotLonger DEF DatabaseInv, ReasonsInv
  <2> QED BY <1>1, <2>1, WorkStays
<1> QED BY <1>3, <1>7, <1>8, <1>9, <1>10 DEF DatabaseInv

LEMMA MatchUnitTemplateStep == DatabaseInv /\ MatchUnitTemplate => DatabaseInv'
<1> SUFFICES ASSUME DatabaseInv, MatchUnitTemplate PROVE DatabaseInv'
  OBVIOUS
<1> DEFINE k    == matching.argument
           item == matching.item
           n    == Asked(called[k], item)
           asks == Asks(called[k], item)
<1>0. /\ matched' = IF asks THEN Added(n) ELSE matched
      /\ matching' = [matching EXCEPT !.argument = @ + 1]
      /\ k <= Len(called) /\ UNCHANGED <<command, scan, files, confs, worked>> /\ called' = called
  BY DEF MatchUnitTemplate, command
<1>1. FilesMatched /\ Scanned /\ item \in DOMAIN files /\ item.instance # "none" /\ k \in DOMAIN called
  BY <1>0, MatchingType DEF DatabaseInv, MatchingInv, FilesMatched
<1>2. /\ Found' = Found /\ SysvNames' = SysvNames /\ Known' = Known
      /\ \A u : MatchesAny(u)' = MatchesAny(u)
  BY <1>0, CommandStays
<1>3. FilesInv' /\ Scanned' = Scanned
  BY <1>0, FilesStay
<1>4. matching \in [files : SUBSET DOMAIN files, items : SUBSET DOMAIN files,
                    item : DOMAIN files \cup {None}, argument : 1..(Len(called) + 1),
                    scripts : SUBSET SysvNames]
  BY DEF DatabaseInv, MatchingInv
<1>5. /\ matching'.files = matching.files /\ matching'.items = matching.items
      /\ matching'.item = item /\ matching'.argument = k + 1 /\ matching'.scripts = matching.scripts
      /\ matching' \in [files : SUBSET DOMAIN files, items : SUBSET DOMAIN files,
                        item : DOMAIN files \cup {None}, argument : 1..(Len(called) + 1),
                        scripts : SUBSET SysvNames]
  <2>1. k + 1 \in 1..(Len(called) + 1)
    BY <1>0, MatchingType
  <2> QED BY <1>0, <1>4, <2>1
<1>6. FilesMatched' = FilesMatched
  BY <1>3, <1>5 DEF FilesMatched
<1>7. item \in Found /\ n \in Known /\ (asks => Instantiated(n))
  <2>1. item \in Found
    BY <1>1, AllFound DEF DatabaseInv
  <2> QED BY <1>1, <2>1 DEF Known, Instantiated
<1>8. MatchingInv'
  BY <1>0, <1>1, <1>2, <1>3, <1>5, <1>6 DEF DatabaseInv, MatchingInv
<1>9. ReasonsInv' /\ Longer(matched, matched', n, asks)
  <2>1. asks \in BOOLEAN
    BY DEF Asks
  <2>2. n \in Found /\ n.suffix # "" /\ MatchesAny(n) => Contains(matched, n)
    BY <1>1 DEF DatabaseInv, CompleteInv, FilesMatched
  <2> HIDE DEF n, asks
  <2> QED BY <1>0, <1>1, <1>6, <1>7, <2>1, <2>2, AddedForAReason
<1>10. CompleteInv'
  <2>1. /\ \A u : Contains(matched, u) => Contains(matched', u)
        /\ asks => Contains(matched', n)
    BY <1>9 DEF Longer
  <2>2. ASSUME NEW u \in Found \ matching'.files, u.suffix # "", MatchesAny(u)
        PROVE  Contains(matched', u)
    BY <1>1, <1>5, <2>1, <2>2 DEF DatabaseInv, CompleteInv
  <2>3. ASSUME NEW u \in Found \ matching'.items, NEW i \in DOMAIN called, u.instance # "none",
               u = matching'.item => i < matching'.argument, Asks(called[i], u)
        PROVE  Contains(matched', Asked(called[i], u))
    <3>1. CASE u = item /\ i = k
      BY <2>1, <2>3, <3>1
    <3>2. CASE ~ (u = item /\ i = k)
      <4>1. u = item => i < k
        BY <1>5, <2>3, <3>2, MatchingType
      <4> QED BY <1>1, <1>5, <2>1, <2>3, <4>1 DEF DatabaseInv, CompleteInv
    <3> QED BY <3>1, <3>2
  <2>4. ASSUME NEW u \in SysvNames \ matching'.scripts, MatchesAny(u)
        PROVE  Contains(matched', u)
    BY <1>5, <2>1, <2>4 DEF DatabaseInv, CompleteInv
  <2> QED BY <1>0, <1>2, <2>2, <2>3, <2>4 DEF CompleteInv
<1>11. ConfsInv' /\ WorkedInv'
  BY <1>0, <1>9, WorkStays
<1> QED BY <1>3, <1>8, <1>9, <1>10, <1>11 DEF DatabaseInv

LEMMA MatchSysvFileStep == DatabaseInv /\ MatchSysvFile => DatabaseInv'
<1> SUFFICES ASSUME DatabaseInv, MatchSysvFile PROVE DatabaseInv'
  OBVIOUS
<1>0. PICK n \in matching.scripts :
         /\ matched' = IF MatchesAny(n) THEN Added(n) ELSE matched
         /\ matching' = [matching EXCEPT !.scripts = @ \ {n}]
  BY DEF MatchSysvFile
<1>1. /\ TemplatesMatched /\ FilesMatched /\ Scanned
      /\ UNCHANGED <<command, scan, files, confs, worked>> /\ called' = called
  BY DEF MatchSysvFile, TemplatesMatched, FilesMatched, command
<1>2. /\ Found' = Found /\ SysvNames' = SysvNames /\ Known' = Known
      /\ \A u : MatchesAny(u)' = MatchesAny(u)
  BY <1>1, CommandStays
<1>3. FilesInv' /\ Scanned' = Scanned
  BY <1>1, FilesStay
<1>4. matching \in [files : SUBSET DOMAIN files, items : SUBSET DOMAIN files,
                    item : DOMAIN files \cup {None}, argument : 1..(Len(called) + 1),
                    scripts : SUBSET SysvNames]
  BY DEF DatabaseInv, MatchingInv
<1>5. /\ matching'.files = matching.files /\ matching'.items = matching.items
      /\ matching'.item = matching.item /\ matching'.argument = matching.argument
      /\ matching'.scripts = matching.scripts \ {n}
      /\ matching' \in [files : SUBSET DOMAIN files, items : SUBSET DOMAIN files,
                        item : DOMAIN files \cup {None}, argument : 1..(Len(called) + 1),
                        scripts : SUBSET SysvNames]
  BY <1>0, <1>4
<1>6. n \in SysvNames /\ n \in Known /\ FilesMatched' = FilesMatched
  BY <1>0, <1>3, <1>5, MatchingType DEF Known, FilesMatched
<1>7. MatchingInv'
  BY <1>1, <1>2, <1>3, <1>5, <1>6 DEF DatabaseInv, MatchingInv
<1>8. ReasonsInv' /\ Longer(matched, matched', n, MatchesAny(n))
  <2>1. MatchesAny(n) \in BOOLEAN
    BY DEF MatchesAny
  <2>2. n \in Found /\ n.suffix # "" /\ MatchesAny(n) => Contains(matched, n)
    BY <1>1 DEF DatabaseInv, CompleteInv, FilesMatched
  <2> QED BY <1>0, <1>1, <1>6, <2>1, <2>2, AddedForAReason
<1>9. CompleteInv'
  <2>1. /\ \A u : Contains(matched, u) => Contains(matched', u)
        /\ MatchesAny(n) => Contains(matched', n)
    BY <1>8 DEF Longer
  <2>2. ASSUME NEW u \in Found \ matching'.files, u.suffix # "", MatchesAny(u)
        PROVE  Contains(matched', u)
    BY <1>1, <1>5, <2>1, <2>2 DEF DatabaseInv, CompleteInv
  <2>3. ASSUME NEW u \in Found \ matching'.items, NEW i \in DOMAIN called, u.instance # "none",
               u = matching'.item => i < matching'.argument, Asks(called[i], u)
        PROVE  Contains(matched', Asked(called[i], u))
    BY <1>1, <1>5, <2>1, <2>3 DEF DatabaseInv, CompleteInv
  <2>4. ASSUME NEW u \in SysvNames \ matching'.scripts, MatchesAny(u)
        PROVE  Contains(matched', u)
    BY <1>5, <2>1, <2>4 DEF DatabaseInv, CompleteInv
  <2> QED BY <1>1, <1>2, <2>2, <2>3, <2>4 DEF CompleteInv
<1>10. ConfsInv' /\ WorkedInv'
  BY <1>1, <1>8, WorkStays
<1> QED BY <1>3, <1>7, <1>8, <1>9, <1>10 DEF DatabaseInv

\* A folder scanned first that has a name is the one its file is read from.
LEMMA FirstFileIs ==
    ASSUME DatabaseInv, Scanned, NEW n \in Found
    PROVE  n \in DOMAIN files /\ files[n] \in Nat \ {0} /\ FirstFile({n}) = <<files[n], n>>
<1> DEFINE at == {i \in DOMAIN layout.folders : {n} \cap layout.folders[i] # {}}
           Is(path) == /\ path[2] \in layout.folders[path[1]]
                       /\ \A i \in at : path[1] <= i
<1>0. /\ DOMAIN layout.folders = 1..(scan - 1) /\ scan \in Nat
      /\ n \in DOMAIN files /\ files[n] \in 1..(scan - 1) /\ n \in layout.folders[files[n]]
      /\ \A i \in 1..(scan - 1) : n \in layout.folders[i] => files[n] <= i
  <2>1. FilesInv
    BY DEF DatabaseInv
  <2>2. DOMAIN layout.folders = 1..(scan - 1) /\ n \in DOMAIN files
    BY <2>1, AllFound, NamesHaveParts DEF FilesInv
  <2>3. scan \in Nat
    BY <2>1, NamesHaveParts DEF FilesInv
  <2> QED BY <2>1, <2>2, <2>3 DEF FilesInv
<1>1. \A i : i \in at <=> i \in 1..(scan - 1) /\ n \in layout.folders[i]
  BY <1>0
<1> HIDE DEF at
<1>2. files[n] \in at /\ \A i \in at : files[n] <= i /\ i \in Nat
  BY <1>0, <1>1
<1>3. <<files[n], n>> \in {<<i, m>> : i \in at, m \in {n}} /\ Is(<<files[n], n>>)
  BY <1>0, <1>2
<1>4. ASSUME NEW path \in {<<i, m>> : i \in at, m \in {n}}, Is(path) PROVE path = <<files[n], n>>
  <2>1. PICK i \in at : path = <<i, n>>
    OBVIOUS
  <2>2. i <= files[n] /\ files[n] <= i
    BY <1>2, <1>4, <2>1
  <2>3. i = files[n]
    BY <1>0, <1>1, <1>2, <2>1, <2>2
  <2> QED BY <2>1, <2>3
<1>5. FirstFile({n}) = CHOOSE path \in {<<i, m>> : i \in at, m \in {n}} : Is(path)
  BY DEF FirstFile, at
<1> HIDE DEF Is
<1>6. FirstFile({n}) = <<files[n], n>>
  BY <1>3, <1>4, <1>5
<1> QED BY <1>0, <1>6

\* The file that is loaded, and the name its conf has before.
LEMMA LoadedIs ==
    ASSUME DatabaseInv, AllMatched, NEW u \in Known
    PROVE  /\ Loaded(u).unit = u /\ Loaded(u).path = FileOf(u)
           /\ \/ u \in Found /\ FileOf(u) = <<files[u], u>> /\ Loaded(u).name \in {u, NameIn(FileOf(u), u)}
              \/ /\ u \notin Found /\ u.instance # "none" /\ Template(u.prefix) \in Found
                 /\ FileOf(u) = <<files[Template(u.prefix)], Template(u.prefix)>> /\ Loaded(u).name = u
              \/ /\ u \in SysvNames \ Found /\ FileOf(u) = <<0, u>>
                 /\ Loaded(u).name \in {u, NameIn(FileOf(u), u)}
              \/ FileOf(u) = None /\ Loaded(u).name = u
<1> DEFINE template == Template(u.prefix)
           path     == IF u \in DOMAIN files THEN <<files[u], u>>
                       ELSE IF u.instance # "none" /\ template \in DOMAIN files
                       THEN <<files[template], template>>
                       ELSE IF u \in SysvNames THEN <<0, u>> ELSE None
           name     == IF path = None THEN u
                       ELSE IF path[1] > 0 /\ path[2] # u THEN TemplateName(path, u) ELSE NameIn(path, u)
<1>1. Loaded(u) = [unit |-> u, path |-> path, name |-> name]
  BY DEF Loaded
<1>2. Scanned /\ DOMAIN files = Found
  BY AllFound DEF DatabaseInv, AllMatched, TemplatesMatched, FilesMatched
<1>3. Loaded(u).unit = u /\ Loaded(u).path = path /\ Loaded(u).name = name
  BY <1>1
<1>4. CASE u \in Found
  <2>1. path = <<files[u], u>> /\ FileOf(u) = path
    BY <1>2, <1>4, FirstFileIs DEF FileOf
  <2>2. path[2] = u
    BY <2>1
  <2> HIDE DEF path
  <2> QED BY <1>3, <1>4, <2>1, <2>2
<1>5. CASE u \notin Found /\ u.instance # "none" /\ template \in Found
  <2>1. path = <<files[template], template>> /\ files[template] \in Nat \ {0} /\ FileOf(u) = path
    BY <1>2, <1>5, FirstFileIs DEF FileOf
  <2>2. path[1] > 0 /\ path[2] # u
    BY <1>5, <2>1
  <2> HIDE DEF path
  <2> QED BY <1>3, <1>5, <2>1, <2>2 DEF TemplateName
<1>6. CASE u \notin Found /\ ~ (u.instance # "none" /\ template \in Found)
  <2>1. path = (IF u \in SysvNames THEN <<0, u>> ELSE None) /\ FileOf(u) = path
    BY <1>2, <1>6 DEF FileOf
  <2>2. u \in SysvNames => path[2] = u
    BY <2>1
  <2> HIDE DEF path
  <2> QED BY <1>3, <1>6, <2>1, <2>2
<1> QED BY <1>4, <1>5, <1>6

\* The conf of a unit's own file has its name, unless it is that of a template whose
\* instances were worked on before.
LEMMA NameIsRight ==
    ASSUME DatabaseInv, AllMatched, Len(worked) < Len(matched), NEW u, u = matched[Len(worked) + 1]
    PROVE  Loaded(u).name = u \/ AfterInstances(u)
<1> DEFINE k    == Len(worked) + 1
           path == FileOf(u)
<1>1. /\ matched \in Seq(Known) /\ worked \in Seq(Works) /\ Len(worked) \in Nat /\ Len(matched) \in Nat
      /\ k \in 1..Len(matched) /\ u = matched[k] /\ u \in Known
      /\ \A j \in 1..Len(worked) : j < k /\ j \in 1..Len(matched)
  <2>1. matched \in Seq(Known) /\ worked \in Seq(Works)
    BY DEF DatabaseInv, ReasonsInv, WorkedInv
  <2>2. /\ Len(worked) \in Nat /\ Len(matched) \in Nat
    BY <2>1, LenProperties
  <2>3. k \in 1..Len(matched) /\ \A j \in 1..Len(worked) : j < k /\ j \in 1..Len(matched)
    BY <2>2
  <2>4. u \in Known
    BY <2>1, <2>3, ElementOfSeq
  <2> QED BY <2>1, <2>2, <2>3, <2>4
<1>2. SUFFICES ASSUME Loaded(u).name # u PROVE AfterInstances(u)
  OBVIOUS
<1>3. path \in DOMAIN confs /\ confs[path] # u /\ path[2] = u /\ (path[1] > 0 => u \in Found)
  BY <1>1, <1>2, LoadedIs DEF NameIn
<1>4. PICK j \in 1..Len(worked) : /\ matched[j] \notin Found /\ matched[j].instance # "none"
                                  /\ path[1] > 0 /\ u = Template(matched[j].prefix)
  BY <1>3 DEF DatabaseInv, ConfsInv, Renamed
<1>5. u \in Found /\ u.suffix # "" /\ u.instance = ""
  <2>1. \A p : Template(p).instance = "" /\ Template(p).suffix = "service"
    BY DEF Template, Name
  <2> QED BY <1>3, <1>4, <2>1
<1>6. ~ MatchesAny(u)
  BY <1>1, <1>4, <1>5 DEF DatabaseInv, ReasonsInv
<1>7. PICK n \in Found, i \in DOMAIN called : n.instance # "none" /\ Asks(called[i], n) /\ u = Asked(called[i], n)
  BY <1>1, <1>6 DEF DatabaseInv, ReasonsInv, Instantiated
<1>8. n = Name(n.prefix, n.instance, n.suffix)
  BY NamesHaveParts DEF DatabaseInv, FilesInv
<1>9. u.instance = called[i].name.instance /\ u.prefix = n.prefix /\ called[i].name.prefix = n.prefix
  BY <1>7, <1>8 DEF Asked, Asks, Name
<1>10. ~ Matches(called[i], u)
  BY <1>6, <1>7 DEF MatchesAny
<1> QED BY <1>5, <1>7, <1>9, <1>10 DEF AfterInstances

LEMMA WorkType ==
    ASSUME DatabaseInv, AllMatched, NEW u \in Known
    PROVE  Loaded(u) \in Works
<1> DEFINE path == FileOf(u)
<1>0. DOMAIN files = Found /\ \A n \in Found : files[n] \in DOMAIN layout.folders
  <2>1. Scanned /\ FilesInv
    BY DEF DatabaseInv, AllMatched, TemplatesMatched, FilesMatched
  <2> QED BY <2>1, AllFound, NamesHaveParts DEF FilesInv
<1>1. path \in (({0} \cup DOMAIN layout.folders) \X (Found \cup SysvNames)) \cup {None}
  BY <1>0, LoadedIs
<1>2. NameIn(path, u) \in Known
  <2>1. CASE path \in DOMAIN confs
    <3>1. /\ confs[path] = path[2] \/ Renamed(path, confs[path])
          /\ path[2] \in Known
      BY <2>1 DEF DatabaseInv, ConfsInv, Known
    <3>2. CASE Renamed(path, confs[path])
      <4>1. PICK j \in 1..Len(worked) : confs[path] = matched[j]
        BY <3>2 DEF Renamed
      <4>2. matched \in Seq(Known) /\ worked \in Seq(Works) /\ Len(worked) <= Len(matched)
        BY DEF DatabaseInv, ReasonsInv, WorkedInv
      <4>3. Len(matched) \in Nat /\ Len(worked) \in Nat
        BY <4>2, LenProperties
      <4>4. j \in 1..Len(matched)
        BY <4>2, <4>3
      <4> QED BY <2>1, <4>1, <4>2, <4>4, ElementOfSeq DEF NameIn
    <3> QED BY <2>1, <3>1, <3>2 DEF NameIn
  <2> QED BY <2>1 DEF NameIn
<1>3. Loaded(u).name \in Known /\ Loaded(u).unit = u /\ Loaded(u).path = path
  BY <1>2, LoadedIs
<1>4. Loaded(u) = [unit |-> Loaded(u).unit, path |-> Loaded(u).path, name |-> Loaded(u).name]
  BY DEF Loaded
<1> HIDE DEF path
<1> QED BY <1>1, <1>3, <1>4 DEF Works

LEMMA WorkStep == DatabaseInv /\ Work => DatabaseInv'
<1> SUFFICES ASSUME DatabaseInv, Work PROVE DatabaseInv'
  OBVIOUS
<1> DEFINE k    == Len(worked) + 1
           u    == matched[k]
           work == Loaded(u)
<1>0. /\ AllMatched /\ Len(worked) < Len(matched)
      /\ confs' = IF work.path = None THEN confs ELSE With(confs, work.path, work.name)
      /\ worked' = Append(worked, work)
      /\ UNCHANGED <<command, scan, files, matching, matched>> /\ layout' = layout /\ called' = called
  BY DEF Work, command
<1>1. /\ Found' = Found /\ SysvNames' = SysvNames /\ Known' = Known /\ Works' = Works
      /\ \A n : MatchesAny(n)' = MatchesAny(n) /\ Instantiated(n)' = Instantiated(n)
      /\ \A n : FileOf(n)' = FileOf(n) /\ AfterInstances(n)' = AfterInstances(n)
  BY <1>0, CommandStays
<1>2. FilesInv' /\ Scanned' = Scanned
  BY <1>0, FilesStay
<1>3. FilesMatched' = FilesMatched
  BY <1>0, <1>2 DEF FilesMatched
<1>4. MatchingInv' /\ CompleteInv' /\ ReasonsInv'
  <2>1. MatchingInv'
    BY <1>0, <1>1, <1>2, <1>3 DEF DatabaseInv, MatchingInv
  <2>2. CompleteInv'
    BY <1>0, <1>1, <1>2 DEF DatabaseInv, CompleteInv
  <2>3. ReasonsInv'
    BY <1>0, <1>1, <1>3 DEF DatabaseInv, ReasonsInv
  <2> QED BY <2>1, <2>2, <2>3
<1>5. /\ matched \in Seq(Known) /\ worked \in Seq(Works) /\ Len(worked) \in Nat /\ Len(matched) \in Nat
      /\ k \in 1..Len(matched) /\ u \in Known
  <2>1. matched \in Seq(Known) /\ worked \in Seq(Works)
    BY DEF DatabaseInv, ReasonsInv, WorkedInv
  <2>2. /\ Len(worked) \in Nat /\ Len(matched) \in Nat
    BY <2>1, LenProperties
  <2>3. k \in 1..Len(matched)
    BY <1>0, <2>2
  <2>4. u \in Known
    BY <2>1, <2>3, ElementOfSeq
  <2> QED BY <2>1, <2>2, <2>3, <2>4
<1> HIDE DEF u, work
<1>6. work.unit = u /\ work.path = FileOf(u) /\ (work.name = u \/ AfterInstances(u))
  BY <1>0, <1>5, LoadedIs, NameIsRight DEF u, work
<1>7. /\ worked' \in Seq(Works) /\ Len(worked') = k /\ worked'[k] = work
      /\ \A i \in 1..Len(worked) : worked'[i] = worked[i]
  <2>1. work \in Works
    BY <1>0, <1>5, WorkType DEF u, work
  <2> QED BY <1>0, <1>5, <2>1, AppendProperties
<1>8. k \in 1..Len(worked') /\ \A i \in 1..Len(worked') : i \in 1..Len(worked) \/ i = k
  BY <1>5, <1>7
<1>9. WorkedInv'
  <2>1. Len(worked') <= Len(matched')
    BY <1>0, <1>5, <1>7
  <2>2. ASSUME NEW i \in 1..Len(worked')
        PROVE  (/\ worked[i].unit = matched[i] /\ worked[i].path = FileOf(matched[i])
                /\ worked[i].name = matched[i] \/ AfterInstances(matched[i]))'
    <3>1. /\ worked'[i].unit = matched[i] /\ worked'[i].path = FileOf(matched[i])
          /\ worked'[i].name = matched[i] \/ AfterInstances(matched[i])
      <4>1. CASE i = k
        BY <1>6, <1>7, <4>1 DEF u
      <4>2. CASE i \in 1..Len(worked)
        BY <1>7, <4>2 DEF DatabaseInv, WorkedInv
      <4> QED BY <1>8, <2>2, <4>1, <4>2
    <3>2. (FileOf(matched[i]))' = FileOf(matched[i])
      BY <1>0, <1>1 DEF FileOf, FirstFile
    <3>3. (AfterInstances(matched[i]))' <=> AfterInstances(matched[i])
      BY <1>0 DEF AfterInstances
    <3> QED BY <1>0, <3>1, <3>2, <3>3
  <2> QED BY <1>1, <1>7, <2>1, <2>2 DEF WorkedInv
<1>10. ConfsInv'
  <2> DEFINE Now(path, name) == /\ path[1] > 0
                                /\ \E j \in 1..k : /\ name = matched[j] /\ matched[j] \notin Found
                                                   /\ matched[j].instance # "none"
                                                   /\ path[2] = Template(matched[j].prefix)
             Right(path, name) == path[2] \in Found \cup SysvNames /\ (name = path[2] \/ Now(path, name))
  <2>1. ASSUME NEW path, NEW name, Renamed(path, name) PROVE Now(path, name)
    <3>1. \A j \in 1..Len(worked) : j \in 1..k
      BY <1>5
    <3> QED BY <2>1, <3>1 DEF Renamed
  <2>2. ASSUME NEW path \in DOMAIN confs PROVE Right(path, confs[path])
    BY <2>1, <2>2 DEF DatabaseInv, ConfsInv
  <2>3. ASSUME work.path # None PROVE Right(work.path, work.name)
    <3> DEFINE at == work.path
    <3>1. CASE at[2] = u /\ u \in Found \cup SysvNames /\ work.name \in {u, NameIn(at, u)}
      <4>1. NameIn(at, u) = IF at \in DOMAIN confs THEN confs[at] ELSE u
        BY DEF NameIn
      <4>2. CASE work.name = u
        BY <3>1, <4>2
      <4>3. CASE at \in DOMAIN confs /\ work.name = confs[at]
        BY <2>2, <4>3
      <4> QED BY <3>1, <4>1, <4>2, <4>3
    <3>2. CASE /\ u \notin Found /\ u.instance # "none" /\ Template(u.prefix) \in Found
               /\ at = <<files[Template(u.prefix)], Template(u.prefix)>> /\ work.name = u
      <4>1. Scanned
        BY <1>0 DEF AllMatched, TemplatesMatched, FilesMatched
      <4>2. files[Template(u.prefix)] \in Nat \ {0}
        BY <3>2, <4>1, FirstFileIs, Zenon
      <4>3. at[1] > 0 /\ at[2] = Template(u.prefix)
        BY <3>2, <4>2
      <4>4. k \in 1..k /\ u = matched[k]
        BY <1>5 DEF u
      <4> QED BY <3>2, <4>3, <4>4
    <3>3. \/ u \in Found /\ at = <<files[u], u>> /\ work.name \in {u, NameIn(at, u)}
          \/ /\ u \notin Found /\ u.instance # "none" /\ Template(u.prefix) \in Found
             /\ at = <<files[Template(u.prefix)], Template(u.prefix)>> /\ work.name = u
          \/ u \in SysvNames \ Found /\ at = <<0, u>> /\ work.name \in {u, NameIn(at, u)}
      BY <1>0, <1>5, <1>6, <2>3, LoadedIs DEF work
    <3>4. \/ at[2] = u /\ u \in Found \cup SysvNames /\ work.name \in {u, NameIn(at, u)}
          \/ /\ u \notin Found /\ u.instance # "none" /\ Template(u.prefix) \in Found
             /\ at = <<files[Template(u.prefix)], Template(u.prefix)>> /\ work.name = u
      BY <3>3
    <3> HIDE DEF at, Right
    <3> QED BY <3>1, <3>2, <3>4
  <2>4. \A path \in DOMAIN confs' : Right(path, confs'[path])
    <3>1. CASE work.path = None
      BY <1>0, <2>2, <3>1
    <3>2. CASE work.path # None
      <4>1. DOMAIN confs' = DOMAIN confs \cup {work.path} /\ confs'[work.path] = work.name
            /\ \A path \in DOMAIN confs \ {work.path} : confs'[path] = confs[path]
        BY <1>0, <3>2 DEF With
      <4> HIDE DEF Right
      <4> QED BY <2>2, <2>3, <3>2, <4>1
    <3> QED BY <3>1, <3>2
  <2>5. ASSUME NEW path \in DOMAIN confs'
        PROVE  (path[2] \in Found \cup SysvNames /\ (confs[path] = path[2] \/ Renamed(path, confs[path])))'
    BY <1>0, <1>1, <1>7, <2>4, <2>5 DEF Renamed
  <2> QED BY <2>5 DEF ConfsInv
<1> QED BY <1>2, <1>4, <1>9, <1>10 DEF DatabaseInv

LEMMA DatabaseInvStep == DatabaseInv /\ [DatabaseNext]_databaseVars => DatabaseInv'
<1> SUFFICES ASSUME DatabaseInv, [DatabaseNext]_databaseVars PROVE DatabaseInv'
  OBVIOUS
<1>1. CASE UNCHANGED databaseVars
  <2>1. UNCHANGED <<command, scan, files, matching, matched, confs, worked>> /\ layout' = layout /\ called' = called
    BY <1>1 DEF databaseVars, command
  <2>2. /\ Found' = Found /\ SysvNames' = SysvNames /\ Known' = Known /\ Works' = Works
        /\ \A n : MatchesAny(n)' = MatchesAny(n) /\ Instantiated(n)' = Instantiated(n)
    BY <2>1, CommandStays
  <2>3. FilesInv' /\ Scanned' = Scanned /\ FilesMatched' = FilesMatched
    BY <2>1, FilesStay DEF FilesMatched
  <2>4. MatchingInv'
    BY <2>1, <2>2, <2>3 DEF DatabaseInv, MatchingInv
  <2>5. CompleteInv'
    BY <2>1, <2>2, <2>3 DEF DatabaseInv, CompleteInv
  <2>6. ReasonsInv'
    BY <2>1, <2>2, <2>3 DEF DatabaseInv, ReasonsInv
  <2>7. ConfsInv' /\ WorkedInv'
    <3>1. Longer(matched, matched', None, FALSE)
      BY <2>1, NotLonger DEF DatabaseInv, ReasonsInv
    <3> QED BY <2>1, <3>1, WorkStays
  <2> QED BY <2>3, <2>4, <2>5, <2>6, <2>7 DEF DatabaseInv
<1> QED BY <1>1, ScanFolderStep, MatchUnitFileStep, TakeItemStep, MatchUnitTemplateStep, MatchSysvFileStep, WorkStep
        DEF DatabaseNext

LEMMA DatabaseInvAlways == DatabaseSpec => []DatabaseInv
BY DatabaseInvInit, DatabaseInvStep, PTL DEF DatabaseSpec

LEMMA WithInstance ==
    ASSUME NEW prefix, NEW instance, NEW suffix, NEW other
    PROVE  [Name(prefix, other, suffix) EXCEPT !.instance = instance] = Name(prefix, instance, suffix)
BY DEF Name

LEMMA DoneIsRight == DatabaseInv => EveryNamedUnitOnce
<1> SUFFICES ASSUME DatabaseInv, WorkDone
             PROVE  /\ IsInjective(matched)
                    /\ \A i \in DOMAIN matched :
                          /\ worked[i].unit = matched[i] /\ worked[i].path = FileOf(matched[i])
                          /\ worked[i].name = matched[i] \/ AfterInstances(matched[i])
                    /\ \A u \in Found \cup SysvNames :
                          u.suffix # "" /\ MatchesAny(u) => Contains(matched, u)
                    /\ \A i \in DOMAIN called :
                          LET u == [called[i].name EXCEPT !.suffix = "service"]
                          IN  called[i].name.instance # "none" /\ Template(u.prefix) \in Found
                                => Contains(matched, u)
                    /\ \A i \in DOMAIN matched :
                          called # <<>> =>
                            \E j \in DOMAIN called : \/ Matches(called[j], matched[i])
                                                     \/ /\ called[j].name.prefix = matched[i].prefix
                                                        /\ called[j].name.instance = matched[i].instance
  BY DEF EveryNamedUnitOnce
<1>1. /\ Scanned /\ FilesMatched /\ matching.files = {} /\ matching.items = {} /\ matching.scripts = {}
      /\ matching.argument > Len(called) /\ Len(worked) = Len(matched)
  BY DEF WorkDone, AllMatched, TemplatesMatched, FilesMatched
<1>2. IsInjective(matched) /\ matched \in Seq(Known) /\ DOMAIN matched = 1..Len(matched)
  BY LenProperties DEF DatabaseInv, ReasonsInv
<1>3. \A i \in DOMAIN called : i < matching.argument
  BY <1>1, MatchingType
<1>4. /\ \A n \in Found \cup SysvNames : n = Name(n.prefix, n.instance, n.suffix)
      /\ \A i \in DOMAIN called : called[i].name = Name(called[i].name.prefix, called[i].name.instance,
                                                        called[i].name.suffix)
  BY NamesHaveParts DEF DatabaseInv, FilesInv
<1>5. ASSUME NEW i \in DOMAIN matched
      PROVE  /\ worked[i].unit = matched[i] /\ worked[i].path = FileOf(matched[i])
             /\ worked[i].name = matched[i] \/ AfterInstances(matched[i])
  BY <1>1, <1>2 DEF DatabaseInv, WorkedInv
<1>6. ASSUME NEW u \in Found \cup SysvNames, u.suffix # "", MatchesAny(u)
      PROVE  Contains(matched, u)
  BY <1>1, <1>6 DEF DatabaseInv, CompleteInv
<1>7. ASSUME NEW i \in DOMAIN called, called[i].name.instance # "none", NEW u,
             u = [called[i].name EXCEPT !.suffix = "service"], Template(u.prefix) \in Found
      PROVE  Contains(matched, u)
  <2> DEFINE t == Template(u.prefix)
  <2>1. t.instance = "" /\ t.prefix = called[i].name.prefix /\ Asked(called[i], t) = u
    <3> DEFINE n == called[i].name
    <3>1. n = Name(n.prefix, n.instance, n.suffix)
      BY <1>4
    <3>2. u = Name(n.prefix, n.instance, "service")
      BY <1>7, <3>1 DEF Name
    <3>3. t = Name(n.prefix, "", "service")
      BY <3>2 DEF Template, Name
    <3> HIDE DEF t, n
    <3>4. t.instance = "" /\ t.prefix = n.prefix
      BY <3>3 DEF Name
    <3>5. [t EXCEPT !.instance = n.instance] = Name(n.prefix, n.instance, "service")
      BY <3>3, WithInstance
    <3> QED BY <3>2, <3>4, <3>5 DEF Asked, n
  <2>2. Asks(called[i], t)
    BY <1>7, <2>1 DEF Asks
  <2> HIDE DEF t
  <2>3. t \in Found \ matching.items
    BY <1>1, <1>7 DEF t
  <2>4. Contains(matched, Asked(called[i], t))
    BY <1>1, <1>3, <2>1, <2>2, <2>3 DEF DatabaseInv, CompleteInv
  <2> QED BY <2>1, <2>4
<1>8. ASSUME NEW i \in DOMAIN matched, called # <<>>
      PROVE  \E j \in DOMAIN called : \/ Matches(called[j], matched[i])
                                      \/ /\ called[j].name.prefix = matched[i].prefix
                                         /\ called[j].name.instance = matched[i].instance
  <2>1. CASE MatchesAny(matched[i])
    BY <1>8, <2>1 DEF MatchesAny
  <2>2. CASE Instantiated(matched[i])
    <3>1. PICK n \in Found, j \in DOMAIN called : Asks(called[j], n) /\ matched[i] = Asked(called[j], n)
      BY <2>2 DEF Instantiated
    <3>2. matched[i].prefix = called[j].name.prefix /\ matched[i].instance = called[j].name.instance
      <4>1. n = Name(n.prefix, n.instance, n.suffix)
        BY <1>4
      <4> QED BY <3>1, <4>1 DEF Asks, Asked, Name
    <3> QED BY <3>1, <3>2
  <2> QED BY <1>2, <1>8, <2>1, <2>2 DEF DatabaseInv, ReasonsInv
<1> QED BY <1>2, <1>5, <1>6, <1>7, <1>8

\* The units of a command line are those its arguments name or match, each once, from
\* its own file and by its own name, except a template whose instances came first:
\* EveryNamedUnitOnce, of MatchUnits and LoadConf.
THEOREM NamedUnitsOnce == DatabaseSpec => []EveryNamedUnitOnce
BY DatabaseInvAlways, DoneIsRight, PTL

\* The types of the maps of found files, of the list of matched units and of the loaded
\* confs: DatabaseTypeOK, of ScanUnitFiles, MatchUnits and LoadConf.
THEOREM DatabaseTypes == DatabaseSpec => []DatabaseTypeOK
<1>1. DatabaseInv => DatabaseTypeOK
  <2> SUFFICES ASSUME DatabaseInv PROVE DatabaseTypeOK
    OBVIOUS
  <2>1. /\ scan \in 1..(Len(layout.folders) + 1)
        /\ DOMAIN files \subseteq Found /\ \A n \in DOMAIN files : n \in layout.folders[files[n]]
    <3>1. \A i \in 1..(scan - 1) : i \in DOMAIN layout.folders
      BY NamesHaveParts DEF DatabaseInv, FilesInv
    <3> QED BY <3>1 DEF DatabaseInv, FilesInv, Found
  <2>2. matching.argument <= Len(called) => matching.item \in DOMAIN files
    BY DEF DatabaseInv, MatchingInv
  <2>3. Len(worked) <= Len(matched) /\ \A path \in DOMAIN confs : path[2] \in Found \cup SysvNames
    BY DEF DatabaseInv, WorkedInv, ConfsInv
  <2> QED BY <2>1, <2>2, <2>3, MatchingType DEF DatabaseTypeOK
<1> QED BY <1>1, DatabaseInvAlways, PTL

-----------------------------------------------------------------------------

\* Each of the algorithms keeps the types of its variables, whatever the unit files,
\* the folders, the sources of the environment and the command line say: TypesOK.
THEOREM UnitFilesTypes ==
    InputOK /\ SortSpec /\ Spec /\ FileSpec /\ EnvironmentSpec /\ DatabaseSpec => []TypesOK
<1>1. SortTypeOK /\ TypeOK /\ FileTypeOK /\ EnvironmentTypeOK /\ DatabaseTypeOK => TypesOK
  BY DEF TypesOK
<1> QED BY <1>1, SortTypes, TypeCorrectness, FileTypes, EnvironmentTypes, DatabaseTypes, PTL

=============================================================================
