------------------------------ MODULE SortAfter ------------------------------
(***************************************************************************)
(* The order in which units are started: CompareAfter and ConfSortedAfter  *)
(* of internal/units/unitfiles.go.  The list is sorted by ranks that are   *)
(* raised, pair by pair and pass by pass, until no After= or Before= is    *)
(* left unsatisfied or every unit has had its pass.  One action is the     *)
(* comparison of one pair.                                                 *)
(***************************************************************************)
EXTENDS Integers, Sequences, FiniteSets

CONSTANT N \* number of units in the list

ASSUME SortAssumption == N \in Nat \ {0}

Items == 1..N

VARIABLES after,   \* after[i]: the listed units in After= of unit i
          before,  \* before[i]: those in its Before=
          rank,    \* rank[i]
          a, b,    \* the pair that is compared next
          changed, \* was a rank raised in this pass?
          pass,    \* number of this pass
          result   \* the sorted list, or <<>> as long as it is not sorted

sortVars == <<after, before, rank, a, b, changed, pass, result>>

\* What the unit files may say (a unit that names itself is never compared with itself).
Orderings == {f \in [Items -> SUBSET Items] : \A i \in Items : i \notin f[i]}

SortInit == /\ after \in Orderings
        /\ before \in Orderings
        /\ rank = [i \in Items |-> 0]
        /\ a = 1 /\ b = 1
        /\ changed = FALSE
        /\ pass = 1
        /\ result = <<>>

\* Mutant: Before= of the first unit is read the wrong way round.
CompareAfter_Swapped(x, y) ==
    IF y \in after[x] \/ y \in before[x] THEN -1 ELSE IF x \in after[y] THEN 1 ELSE 0

\* Positive if x comes first, negative if y does; After= counts before Before=.
CompareAfter(x, y) ==
    IF y \in after[x] THEN -1
    ELSE IF x \in after[y] \/ y \in before[x] THEN 1
    ELSE IF x \in before[y] THEN -1 ELSE 0

\* Mutant: the rank of the unit that has to come last is lowered.
Raised_Lowers(x, y) ==
    LET c == CompareAfter(x, y)
    IN  IF c > 0 /\ rank[x] <= rank[y] THEN [rank EXCEPT ![y] = rank[x] - 1]
        ELSE IF c < 0 /\ rank[y] <= rank[x] THEN [rank EXCEPT ![x] = rank[y] - 1]
        ELSE rank

\* The rank of the unit that has to come first is raised above the other's.
Raised(x, y) ==
    LET c == CompareAfter(x, y)
    IN  IF c > 0 /\ rank[x] <= rank[y] THEN [rank EXCEPT ![x] = rank[y] + 1]
        ELSE IF c < 0 /\ rank[y] <= rank[x] THEN [rank EXCEPT ![y] = rank[x] + 1]
        ELSE rank

\* Mutant: the flag tells of the last pair only.
Compare_LastPair == /\ pass <= N
                    /\ a <= N
                    /\ rank' = IF a = b THEN rank ELSE Raised(a, b)
                    /\ changed' = (rank' # rank)
                    /\ IF b < N THEN b' = b + 1 /\ a' = a
                                ELSE b' = 1 /\ a' = a + 1
                    /\ UNCHANGED <<after, before, pass, result>>

Compare == /\ pass <= N
           /\ a <= N
           /\ rank' = IF a = b THEN rank ELSE Raised(a, b)
           /\ changed' = (changed \/ rank' # rank)
           /\ IF b < N THEN b' = b + 1 /\ a' = a
                       ELSE b' = 1 /\ a' = a + 1
           /\ UNCHANGED <<after, before, pass, result>>

\* The end of a pass that has changed a rank.
NextPass == /\ pass <= N
            /\ a > N
            /\ changed
            /\ a' = 1 /\ b' = 1
            /\ changed' = FALSE
            /\ pass' = pass + 1
            /\ UNCHANGED <<after, before, rank, result>>

Settled == a > N /\ ~ changed

\* sort.Slice by descending rank, which is not stable: units of the same rank
\* come in any order.
Sort == /\ result = <<>>
        /\ Settled \/ pass > N
        /\ \E s \in [Items -> Items] :
              /\ \A i, j \in Items : i < j => s[i] # s[j] /\ rank[s[i]] >= rank[s[j]]
              /\ result' = s
        /\ UNCHANGED <<after, before, rank, a, b, changed, pass>>

SortNext == Compare \/ NextPass \/ Sort

SortSpec == SortInit /\ [][SortNext]_sortVars

\* The sort is sequential code: it runs to its end.
SortFairSpec == SortSpec /\ WF_sortVars(SortNext)

-----------------------------------------------------------------------------

SortTypeOK == /\ after \in [Items -> SUBSET Items]
          /\ before \in [Items -> SUBSET Items]
          /\ rank \in [Items -> Nat]
          /\ a \in 1..(N + 1)
          /\ b \in 1..N
          /\ changed \in BOOLEAN
          /\ pass \in 1..(N + 1)
          /\ result \in {<<>>} \cup [Items -> Items]

\* x has to be started before y: y says After=x or x says Before=y.
First(x, y) == x # y /\ (x \in after[y] \/ y \in before[x])

\* No set of units in which each waits for another one of the set.
Acyclic == \A S \in SUBSET Items :
              S # {} => \E y \in S : \A x \in S : ~ First(x, y)

Position(x) == CHOOSE i \in Items : result[i] = x

\* Whatever After= and Before= say, as long as they can be satisfied the result
\* satisfies all of them: N passes are enough.
SortRespectsOrder ==
    result # <<>> /\ Acyclic =>
        \A x, y \in Items : First(x, y) => Position(x) < Position(y)

\* A pass that changes nothing has found every pair in order, although ranks
\* that were compared early in a pass may be raised later in it.
SettledIsOrdered ==
    Settled => \A x, y \in Items :
                  x # y /\ CompareAfter(x, y) > 0 => rank[x] > rank[y]

\* Unsatisfiable orderings (cycles) do not keep the sort from ending.
SortEnds == <>(result # <<>>)

=============================================================================
