----------------------------- MODULE Dependencies -----------------------------
(***************************************************************************)
(* list-dependencies: GetDependenciesUnit and listDependencies of          *)
(* internal/units/unitfiles.go.  The listing walks the dependencies of the *)
(* units depth first.  The recursive calls are a stack of frames, and one  *)
(* action is the entry of a call, the next dependency of the innermost     *)
(* call, or its return.  Go iterates over a map in an order of its own:    *)
(* any dependency may be the next one.                                     *)
(*                                                                         *)
(* The listing is kept as the set of units that have a line in it.  The    *)
(* parameter "show" is empty in the only call, so units without a unit     *)
(* file have no line and no style is left out.                             *)
(***************************************************************************)
EXTENDS Naturals, Sequences, FiniteSets

CONSTANTS
    Units,
    Root,       \* the unit whose dependencies are listed
    Declarable  \* what the unit files may declare: functions that give two units u and d
                \* the set of the styles with which u names d

\* The style that a dependency gets is the first of its styles in this list.  The
\* options are read in the opposite order, each replacing what was found before;
\* the folders <unit>.requires and <unit>.wants add what no option has named.
Styles == <<"Conflicts", "PropagateReloadTo", "ConsistsOf", "PartOf", "BindsTo",
            "Requisite", "Wants", "Requires", ".requires", ".wants">>

StyleNames == {Styles[i] : i \in DOMAIN Styles}

VARIABLES
    declared, \* declared[u][d]: the styles with which u names d
    loaded,   \* units that have a unit file
    call,     \* the call of listDependencies that is entered next, if any: a set
    stack,    \* the calls in progress
    listed,   \* units that have a line in the listing
    expanded  \* units whose dependencies were walked

vars == <<declared, loaded, call, stack, listed, expanded>>
input == <<declared, loaded>>

Init == /\ declared \in Declarable
        /\ loaded \in SUBSET Units
        /\ call = {[unit |-> Root, mark |-> "", loop |-> {}]}
        /\ stack = <<>>
        /\ listed = {}
        /\ expanded = {}

DependencyStyle(u, d) ==
    LET found == {i \in DOMAIN Styles : Styles[i] \in declared[u][d]}
    IN  Styles[CHOOSE i \in found : \A j \in found : i <= j]

Dependencies(u) == {d \in Units : declared[u][d] # {}}

\* Marks at which the listing does not go deeper: "(to be reloaded as well)" and
\* "(to be stopped on conflict)".
StopsAt(mark) == mark \in {"PropagateReloadTo", "Conflicts"}

\* The head of a call: no line for a unit without a file, no descent from a stop mark.
Enter ==
    \E c \in call :
       /\ call' = {}
       /\ IF c.unit \notin loaded
          THEN UNCHANGED <<stack, listed, expanded>>
          ELSE /\ listed' = listed \cup {c.unit}
               /\ IF StopsAt(c.mark)
                  THEN UNCHANGED <<stack, expanded>>
                  ELSE /\ stack' = Append(stack, [unit |-> c.unit, loop |-> c.loop,
                                                  todo |-> Dependencies(c.unit)])
                       /\ expanded' = expanded \cup {c.unit}
       /\ UNCHANGED input

Top == stack[Len(stack)]

Without(frame, d) == [frame EXCEPT !.todo = frame.todo \ {d}]

\* What the calls below do not list again: the dependencies of all their callers.
LoopBelow(frame) == frame.loop \cup Dependencies(frame.unit)

\* Mutant: a call skips what the calls below it have to skip.
Follow_NewLoop ==
    /\ call = {} /\ stack # <<>>
    /\ \E d \in Top.todo :
          /\ stack' = [stack EXCEPT ![Len(stack)] = Without(Top, d)]
          /\ call' = IF d \in LoopBelow(Top) THEN {}
                     ELSE {[unit |-> d, mark |-> DependencyStyle(Top.unit, d),
                            loop |-> LoopBelow(Top)]}
    /\ UNCHANGED <<input, listed, expanded>>

\* One round of the loop over the dependencies.
Follow ==
    /\ call = {} /\ stack # <<>>
    /\ \E d \in Top.todo :
          /\ stack' = [stack EXCEPT ![Len(stack)] = Without(Top, d)]
          /\ call' = IF d \in Top.loop THEN {}
                     ELSE {[unit |-> d, mark |-> DependencyStyle(Top.unit, d),
                            loop |-> LoopBelow(Top)]}
    /\ UNCHANGED <<input, listed, expanded>>

Return ==
    /\ call = {} /\ stack # <<>>
    /\ Top.todo = {}
    /\ stack' = SubSeq(stack, 1, Len(stack) - 1)
    /\ UNCHANGED <<input, call, listed, expanded>>

Next == Enter \/ Follow \/ Return

Spec == Init /\ [][Next]_vars

\* The listing is sequential code.
FairSpec == Spec /\ WF_vars(Next)

-----------------------------------------------------------------------------

Done == call = {} /\ stack = <<>>

Call  == [unit : Units, mark : StyleNames \cup {""}, loop : SUBSET Units]
Frame == [unit : Units, loop : SUBSET Units, todo : SUBSET Units]

\* What the constants have to satisfy.
InputOK == /\ Root \in Units
           /\ Declarable \subseteq [Units -> [Units -> SUBSET StyleNames]]

\* Types.
TypeOK == /\ declared \in [Units -> [Units -> SUBSET StyleNames]]
          /\ loaded \subseteq Units
          /\ call \subseteq Call /\ \A c, d \in call : c = d
          /\ stack \in Seq(Frame)
          /\ listed \subseteq Units /\ expanded \subseteq Units

\* The units that the walk may reach from the root: the least set that contains the
\* root and, of each member that has a file, the dependencies, those of a stop
\* mark (which are listed and not walked) apart.
Walks(u, d) == d \in Dependencies(u) /\ ~ StopsAt(DependencyStyle(u, d))
Closed(S) == \A u \in S \cap loaded : \A d \in Units : Walks(u, d) => d \in S
Reachable == {u \in Units : \A S \in SUBSET Units : Root \in S /\ Closed(S) => u \in S}

\* The finished listing misses nothing: it has the root, every dependency of every
\* unit it walked, and where no unit conflicts with another or is reloaded with
\* it, everything that can be reached.  It has nothing else: each line is a
\* unit in reach or one that such a unit names.
ListingIsComplete ==
    /\ Done => /\ Root \in loaded => Root \in expanded
               /\ \A u \in expanded : Dependencies(u) \cap loaded \subseteq listed
               /\ (\A u, d \in Units : d \in Dependencies(u) => Walks(u, d))
                     => listed = Reachable \cap loaded
    /\ expanded \subseteq Reachable \cap loaded
    /\ \A d \in listed : d = Root \/ \E u \in expanded : d \in Dependencies(u)

\* Units that need each other do not keep the walk going round: no unit is its own
\* ancestor, except the root, which may come once more below itself.
NoUnitBelowItself ==
    \A i, j \in DOMAIN stack : i < j /\ stack[i].unit = stack[j].unit => i = 1

\* The listing ends, whatever the units say of each other.
ListingEnds == <>Done

=============================================================================
