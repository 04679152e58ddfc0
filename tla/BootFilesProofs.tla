---------------------------- MODULE BootFilesProofs ----------------------------
(***************************************************************************)
(* Proofs about BootFiles, for any number of invocations and process ids   *)
(* and any boot time an invocation may come to.                            *)
(***************************************************************************)
EXTENDS BootFiles, TLAPS, FiniteSetTheorems

\* What may follow a read or a write of the status file.
Afters == {"main", "state", "again", "record", "fail", "signal", "clean", "inactive", "reset", "end"}

\* An invocation that reads or writes knows what follows, a starter that is about to
\* record has started a process, and who has the lock is neither idle nor waits for it,
\* as only an operation does that takes it.
PointInv == \A p \in Procs :
               /\ at[p] \in {"look", "truncate", "read", "lines"} => then[p] \in Afters
               /\ then[p] = "record" \/ at[p] = "record" => mine[p] # None
               /\ lock = p => at[p] \notin {"idle", "lock"}
               /\ at[p] = "lock" => op[p] \in Locking

TypeInv == TypeOK /\ PointInv

LEMMA TypeInit == Init => TypeInv
<1> SUFFICES ASSUME Init PROVE TypeInv
  OBVIOUS
<1> USE BootAssumption
<1>1. Empty \in Map
  BY DEF Empty, Map, States
<1>2. file \in File
  BY <1>1 DEF Init, File
<1>3. proc \in [Pids -> {"free", "stranger", "unit", "ended"}]
  BY DEF Init
<1>4. got \in [Procs -> Map] /\ map \in [Procs -> Map]
  BY <1>1 DEF Init
<1>5. QED
  BY <1>2, <1>3, <1>4 DEF Init, TypeInv, TypeOK, PointInv, Labels

\* Each step keeps the types and the control state.
LEMMA TypeStep == TypeInv /\ [Next]_vars => TypeInv'
<1> SUFFICES ASSUME TypeInv, [Next]_vars PROVE TypeInv'
  OBVIOUS
<1> USE BootAssumption DEF TypeInv, TypeOK, PointInv, Afters, Labels, Locking, Unlocked
<1>1. Empty \in Map
  BY DEF Empty, Map, States
<1>2. \A text \in Map : Fresh(text) \in File
  BY DEF Fresh, File
<1>3. \A text \in Map, state \in States : [text EXCEPT !.state = state] \in Map
  BY DEF Map
<1>4. \A text \in Map : [text EXCEPT !.main = None] \in Map
  BY DEF Map
<1>5. \A p \in Procs : [state |-> "active", main |-> mine[p]] \in Map
  BY DEF Map, States
<1>6. {"failed", "inactive"} \subseteq States
  BY DEF States
<1>10. ASSUME NEW p \in Procs, Look(p) PROVE TypeInv'
  <2>1. GetBoottime(p) \in {"unknown", "boot", "late"}
    BY DEF GetBoottime
  <2>2. got' \in [Procs -> Map]
    BY <1>10, <1>1 DEF Look
  <2>3. QED
    BY <1>10, <2>1, <2>2 DEF Look, Goto
<1>11. ASSUME NEW p \in Procs, Truncate(p) PROVE TypeInv'
  <2>1. file' \in File /\ got' \in [Procs -> Map]
    BY <1>11, <1>1, <1>2 DEF Truncate
  <2>2. QED
    BY <1>11, <2>1 DEF Truncate, Goto, Written
<1>12. ASSUME NEW p \in Procs, Read(p) PROVE TypeInv'
  <2>1. got' \in [Procs -> Map]
    BY <1>12 DEF Read, File
  <2>2. QED
    BY <1>12, <2>1 DEF Read, Goto
<1>13. ASSUME NEW p \in Procs, Lines(p) PROVE TypeInv'
  <2>1. file' \in File
    BY <1>13, <1>2 DEF Lines
  <2>2. exposed' \subseteq Pids
    BY <1>13 DEF Lines
  <2>3. QED
    BY <1>13, <2>1, <2>2 DEF Lines, Goto, Written
<1>14. ASSUME NEW p \in Procs, Begin(p) PROVE TypeInv'
  BY <1>14 DEF Begin, Goto, ReadFor
<1>15. ASSUME NEW p \in Procs, Lock(p) PROVE TypeInv'
  BY <1>15 DEF Lock, Goto, ReadFor
<1>16. ASSUME NEW p \in Procs, LockFails(p) PROVE TypeInv'
  <2>1. got' \in [Procs -> Map] /\ map' \in [Procs -> Map]
    BY <1>16, <1>1 DEF LockFails, Leave
  <2>2. QED
    BY <1>16, <2>1 DEF LockFails, Leave
<1>17. ASSUME NEW p \in Procs, End(p) PROVE TypeInv'
  <2>1. got' \in [Procs -> Map] /\ map' \in [Procs -> Map]
    BY <1>17, <1>1 DEF End, Leave
  <2>2. QED
    BY <1>17, <2>1 DEF End, Leave
<1>18. ASSUME NEW p \in Procs, Main(p) PROVE TypeInv'
  BY <1>18 DEF Main, Goto, ReadFor
<1>19. ASSUME NEW p \in Procs, State(p) PROVE TypeInv'
  BY <1>19 DEF State, Goto, ReadFor
<1>20. ASSUME NEW p \in Procs, Again(p) PROVE TypeInv'
  BY <1>20 DEF Again, Goto
<1>21. ASSUME NEW p \in Procs, Spawn(p) PROVE TypeInv'
  BY <1>21 DEF Spawn, Goto, ReadFor
<1>22. ASSUME NEW p \in Procs, NEW new \in Map, NEW l \in Afters \ {"record"},
              at[p] \notin {"idle", "lock"}, Create(p, new, l),
              UNCHANGED <<op, got, mine, lock, proc, exposed>>
       PROVE TypeInv'
  <2>1. file' \in File /\ map' \in [Procs -> Map]
    BY <1>22, <1>1, <1>2 DEF Create
  <2>2. at' \in [Procs -> Labels] /\ then' \in [Procs -> Labels]
    BY <1>22 DEF Create, Goto
  <2>3. boottime' \in [Procs -> {"unknown", "boot", "late"}]
    BY <1>22 DEF Create, Written
  <2>4. PointInv'
    BY <1>22 DEF Create, Goto
  <2> QED BY <1>22, <2>1, <2>2, <2>3, <2>4
<1>23. ASSUME NEW p \in Procs, Record(p) PROVE TypeInv'
  BY <1>23, <1>22, <1>5 DEF Record
<1>24. ASSUME NEW p \in Procs, Fail(p) PROVE TypeInv'
  BY <1>24, <1>22, <1>3, <1>6 DEF Fail
<1>25. ASSUME NEW p \in Procs, Signal(p) PROVE TypeInv'
  <2>1. proc' \in [Pids -> {"free", "stranger", "unit", "ended"}]
    BY <1>25 DEF Signal
  <2>2. /\ at' = [at EXCEPT ![p] = "look"] /\ then' = [then EXCEPT ![p] = "clean"]
        /\ UNCHANGED <<boottime, op, got, map, mine, lock, file, exposed>>
    BY <1>25 DEF Signal, Goto, ReadFor
  <2> QED BY <1>25, <2>1, <2>2 DEF Signal
<1>26. ASSUME NEW p \in Procs, Clean(p) PROVE TypeInv'
  BY <1>26, <1>22, <1>4 DEF Clean
<1>27. ASSUME NEW p \in Procs, Inactive(p) PROVE TypeInv'
  BY <1>27, <1>22, <1>3, <1>6 DEF Inactive
<1>28. ASSUME NEW p \in Procs, Reset(p) PROVE TypeInv'
  BY <1>28, <1>22, <1>3, <1>6 DEF Reset
<1>29. ASSUME ProcessEnds PROVE TypeInv'
  BY <1>29 DEF ProcessEnds
<1>30. CASE UNCHANGED vars
  BY <1>30 DEF vars
<1>31. QED
  BY <1>10, <1>11, <1>12, <1>13, <1>14, <1>15, <1>16, <1>17, <1>18, <1>19, <1>20, <1>21,
     <1>23, <1>24, <1>25, <1>26, <1>27, <1>28, <1>29, <1>30 DEF Next, Step

\* The types of the status file after a boot, for any number of invocations.
THEOREM TypeCorrectness == Spec => []TypeOK
<1>1. TypeInv => TypeOK
  BY DEF TypeInv
<1>2. QED
  BY TypeInit, TypeStep, <1>1, PTL DEF Spec

-----------------------------------------------------------------------------

\* The process a text names, if any, was started since the boot, and so was one if the
\* text says that the unit is active.
OfThisBoot(text) == /\ text.main # None => proc[text.main] \in {"unit", "ended"}
                    /\ text.state = "active" => \E i \in Pids : proc[i] \in {"unit", "ended"}

\* What is read from a file that was written since the boot, and all that is written.
BootInv == /\ file.age # "old" => OfThisBoot(file.text)
           /\ \A p \in Procs : /\ OfThisBoot(got[p]) /\ OfThisBoot(map[p])
                               /\ at[p] = "read" => file.age = "new"
                               /\ mine[p] # None => proc[mine[p]] \in {"unit", "ended"}

LEMMA BootInit == Init => BootInv
<1>1. Empty.main = None /\ Empty.state = "none"
  BY DEF Empty
<1> DEFINE empty == Empty
<1>2. empty.main = None /\ empty.state = "none"
  BY <1>1
<1>3. ASSUME Init PROVE /\ \A p \in Procs : got[p] = empty /\ map[p] = empty
                        /\ file.age # "old" => file.text = empty
  BY <1>3 DEF Init
<1> HIDE DEF empty
<1>4. QED
  BY <1>2, <1>3 DEF Init, BootInv, OfThisBoot

\* Processes that were started since the boot stay so.
LEMMA ProcessesStay ==
    ASSUME TypeOK, [Next]_vars
    PROVE  \A i \in Pids : proc[i] \in {"unit", "ended"} => proc'[i] \in {"unit", "ended"}
<1> USE DEF TypeOK
<1>1. ASSUME NEW p \in Procs, Spawn(p) PROVE \A i \in Pids : proc[i] = "free" \/ proc'[i] = proc[i]
  BY <1>1 DEF Spawn
<1>2. ASSUME NEW p \in Procs, Signal(p) PROVE \A i \in Pids : proc'[i] \in {proc[i], "ended"}
  BY <1>2 DEF Signal
<1>3. ASSUME ProcessEnds PROVE \A i \in Pids : proc'[i] \in {proc[i], "ended"}
  BY <1>3 DEF ProcessEnds
<1>4. ASSUME NEW p \in Procs, Step(p), ~ Spawn(p), ~ Signal(p) PROVE proc' = proc
  BY <1>4 DEF Step, Begin, Look, Truncate, Read, Lines, Lock, LockFails, End, Main, State, Again,
              Record, Fail, Clean, Inactive, Reset
<1>5. UNCHANGED vars => proc' = proc
  BY DEF vars
<1>6. QED
  BY <1>1, <1>2, <1>3, <1>4, <1>5 DEF Next

\* Each step keeps the texts of this boot: what is read is from a file that has been
\* written since, and what is written is what was read, or the process just started.
LEMMA BootStep == TypeInv /\ BootInv /\ [Next]_vars => BootInv'
<1> SUFFICES ASSUME TypeInv, BootInv, [Next]_vars PROVE BootInv'
  OBVIOUS
<1> USE BootAssumption
<1> DEFINE Now(text) == /\ text.main # None => proc'[text.main] \in {"unit", "ended"}
                        /\ text.state = "active" => \E i \in Pids : proc'[i] \in {"unit", "ended"}
<1>1. \A i \in Pids : proc[i] \in {"unit", "ended"} => proc'[i] \in {"unit", "ended"}
  BY ProcessesStay DEF TypeInv
<1>2. \A text \in Map : OfThisBoot(text) => Now(text)
  BY <1>1 DEF OfThisBoot, Map
<1>3. Now(Empty)
  BY DEF Empty
<1>4. \A text \in Map, state \in {"failed", "inactive"} : Now(text) => Now([text EXCEPT !.state = state])
  BY DEF Map
<1>5. \A text \in Map : Now(text) => Now([text EXCEPT !.main = None])
  BY DEF Map
<1>6. \A p \in Procs : /\ got[p] \in Map /\ Now(got[p])
                       /\ map[p] \in Map /\ Now(map[p])
                       /\ mine[p] \in Pids \cup {None}
                       /\ mine[p] # None => proc'[mine[p]] \in {"unit", "ended"}
  BY <1>1, <1>2 DEF TypeInv, TypeOK, BootInv
<1>7. file.text \in Map /\ (file.age # "old" => Now(file.text))
  BY <1>2 DEF TypeInv, TypeOK, BootInv, File
<1>8. \A text : Fresh(text).age = "new" /\ Fresh(text).text = text
  BY DEF Fresh
<1>9. file.age \in {"missing", "old", "new"}
  BY DEF TypeInv, TypeOK, File
<1> HIDE DEF Now
<1> USE DEF TypeInv, TypeOK, PointInv
\* What a step may do to the file, to what an invocation has read and to what it writes.
<1>20. /\ file'.age # "old" => Now(file'.text)
       /\ file.age = "new" => file'.age = "new"
  <2>1. ASSUME NEW p \in Procs, Truncate(p) PROVE file' = Fresh(Empty)
    BY <2>1 DEF Truncate
  <2>2. ASSUME NEW p \in Procs, Lines(p) PROVE file' = Fresh(map[p])
    BY <2>2 DEF Lines
  <2>3. ASSUME NEW p \in Procs, Record(p) \/ Fail(p) \/ Clean(p) \/ Inactive(p) \/ Reset(p)
        PROVE  file' = Fresh(Empty)
    BY <2>3 DEF Record, Fail, Clean, Inactive, Reset, Create
  <2>4. ASSUME NEW p \in Procs,
               \/ Begin(p) \/ Look(p) \/ Read(p) \/ Lock(p) \/ LockFails(p) \/ End(p)
               \/ Main(p) \/ State(p) \/ Again(p) \/ Spawn(p) \/ Signal(p)
        PROVE  file' = file
    BY <2>4 DEF Begin, Look, Read, Lock, LockFails, End, Main, State, Again, Spawn, Signal
  <2>5. ProcessEnds \/ UNCHANGED vars => file' = file
    BY DEF ProcessEnds, vars
  <2>6. \/ file' = file \/ file' = Fresh(Empty)
        \/ \E p \in Procs : file' = Fresh(map[p])
    BY <2>1, <2>2, <2>3, <2>4, <2>5 DEF Next, Step
  <2>7. QED
    BY <2>6, <1>3, <1>6, <1>7, <1>8
<1>21. \A q \in Procs : /\ Now(got'[q])
                        /\ at'[q] = "read" => file'.age = "new"
  <2>1. ASSUME NEW p \in Procs, Look(p)
        PROVE  \A q \in Procs : /\ got'[q] \in {got[q], Empty}
                                /\ at'[q] = "read" => at[q] = "read" \/ file.age = "new"
    BY <2>1, <1>9 DEF Look, Goto, Afters
  <2>2. ASSUME NEW p \in Procs, Truncate(p)
        PROVE  \A q \in Procs : /\ got'[q] \in {got[q], Empty}
                                /\ at'[q] = "read" => at[q] = "read"
    BY <2>2 DEF Truncate, Goto, Afters
  <2>3. ASSUME NEW p \in Procs, Read(p)
        PROVE  \A q \in Procs : /\ got'[q] = got[q] \/ (got'[q] = file.text /\ file.age = "new")
                                /\ at'[q] = "read" => at[q] = "read"
    BY <2>3 DEF Read, Goto, Afters, BootInv
  <2>4. ASSUME NEW p \in Procs, LockFails(p) \/ End(p)
        PROVE  \A q \in Procs : /\ got'[q] \in {got[q], Empty}
                                /\ at'[q] = "read" => at[q] = "read"
    BY <2>4 DEF LockFails, End, Leave
  <2>5. ASSUME NEW p \in Procs,
               \/ Record(p) \/ Fail(p) \/ Clean(p) \/ Inactive(p) \/ Reset(p)
               \/ Begin(p) \/ Lock(p) \/ Main(p) \/ State(p) \/ Again(p) \/ Spawn(p) \/ Signal(p)
        PROVE  \A q \in Procs : got'[q] = got[q] /\ (at'[q] = "read" => at[q] = "read")
    BY <2>5 DEF Record, Fail, Clean, Inactive, Reset, Create, Begin, Lock, Main, State, Again, Spawn,
                Signal, Goto, ReadFor
  <2>6. ASSUME NEW p \in Procs, Lines(p)
        PROVE  \A q \in Procs : got'[q] = got[q] /\ (at'[q] = "read" => at[q] = "read")
    BY <2>6 DEF Lines, Goto, Afters
  <2>7. ProcessEnds \/ UNCHANGED vars => got' = got /\ at' = at
    BY DEF ProcessEnds, vars
  <2>8. \A q \in Procs : /\ \/ got'[q] \in {got[q], Empty}
                            \/ got'[q] = file.text /\ file.age = "new"
                         /\ at'[q] = "read" => at[q] = "read" \/ file.age = "new"
    BY <2>1, <2>2, <2>3, <2>4, <2>5, <2>6, <2>7 DEF Next, Step
  <2>9. QED
    BY <2>8, <1>3, <1>6, <1>7, <1>20 DEF BootInv
<1>22. \A q \in Procs : /\ Now(map'[q])
                        /\ mine'[q] # None => proc'[mine'[q]] \in {"unit", "ended"}
  <2>1. ASSUME NEW p \in Procs, Record(p) PROVE \A q \in Procs : Now(map'[q]) /\ mine'[q] = mine[q]
    <3>1. mine[p] # None
      BY <2>1 DEF Record
    <3>2. Now([state |-> "active", main |-> mine[p]])
      BY <3>1, <1>6 DEF Now
    <3>3. QED
      BY <2>1, <3>2, <1>6 DEF Record, Create
  <2>2. ASSUME NEW p \in Procs, Fail(p) \/ Clean(p) \/ Inactive(p) \/ Reset(p)
        PROVE  \A q \in Procs : Now(map'[q]) /\ mine'[q] = mine[q]
    <3>1. map'[p] \in {[got[p] EXCEPT !.state = "failed"], [got[p] EXCEPT !.main = None],
                       [map[p] EXCEPT !.state = "inactive"], [got[p] EXCEPT !.state = "inactive"]}
      BY <2>2 DEF Fail, Clean, Inactive, Reset, Create
    <3>2. \A q \in Procs : mine'[q] = mine[q] /\ (q # p => map'[q] = map[q])
      BY <2>2 DEF Fail, Clean, Inactive, Reset, Create
    <3>3. /\ Now([got[p] EXCEPT !.state = "failed"]) /\ Now([got[p] EXCEPT !.state = "inactive"])
          /\ Now([map[p] EXCEPT !.state = "inactive"]) /\ Now([got[p] EXCEPT !.main = None])
      BY <1>4, <1>5, <1>6
    <3>4. Now(map'[p])
      BY <3>1, <3>3, Zenon
    <3>5. QED
      BY <3>2, <3>4, <1>6
  <2>3. ASSUME NEW p \in Procs, Spawn(p)
        PROVE  \A q \in Procs : /\ map'[q] = map[q]
                                /\ mine'[q] # mine[q] => proc'[mine'[q]] = "unit"
    BY <2>3 DEF Spawn
  <2>4. ASSUME NEW p \in Procs, LockFails(p) \/ End(p)
        PROVE  \A q \in Procs : map'[q] \in {map[q], Empty} /\ mine'[q] \in {mine[q], None}
    BY <2>4 DEF LockFails, End, Leave
  <2>5. ASSUME NEW p \in Procs,
               \/ Look(p) \/ Truncate(p) \/ Read(p) \/ Lines(p)
               \/ Begin(p) \/ Lock(p) \/ Main(p) \/ State(p) \/ Again(p) \/ Signal(p)
        PROVE  map' = map /\ mine' = mine
    BY <2>5 DEF Look, Truncate, Read, Lines, Begin, Lock, Main, State, Again, Signal
  <2>6. ProcessEnds \/ UNCHANGED vars => map' = map /\ mine' = mine
    BY DEF ProcessEnds, vars
  <2>7. QED
    BY <2>1, <2>2, <2>3, <2>4, <2>5, <2>6, <1>3, <1>6 DEF Next, Step
<1>23. QED
  BY <1>20, <1>21, <1>22 DEF BootInv, OfThisBoot, Now

\* Nobody learns anything of the time before the boot, whoever empties the file, however
\* many invocations there are and whatever boot time they come to.
THEOREM NothingOfThePast == Spec => []ReadsAreOfThisBoot
<1>1. BootInv => ReadsAreOfThisBoot
  BY DEF BootInv, OfThisBoot, ReadsAreOfThisBoot
<1>2. QED
  BY TypeInit, TypeStep, BootInit, BootStep, <1>1, PTL DEF Spec

-----------------------------------------------------------------------------
(* Where a process that is always there can be seen, the boot time is      *)
(* known.  Then a start is lost only to somebody who was about to write.   *)

SeesBoot == Visible \cap 0 .. 8 # {}

\* The processes that count.
Tracked == Running \ exposed

\* p has started a process, and the file does not name it yet.
InStart(p) == mine[p] # None /\ at[p] # "end"

\* Which labels an operation comes to, and what it reads the file for.
ControlAt(p) ==
    /\ op[p] \in Locking /\ at[p] \notin {"idle", "lock"} => lock = p
    /\ op[p] = "start" => /\ at[p] \notin {"signal", "clean", "inactive", "reset"}
                          /\ Reading(p) => then[p] \in {"main", "state", "again", "record", "fail"}
                          /\ at[p] = "lines" => then[p] = "end"
    /\ op[p] = "stop" => /\ at[p] \notin {"main", "state", "again", "spawn", "record", "fail", "reset"}
                         /\ Reading(p) => then[p] \in {"signal", "clean"}
                         /\ at[p] = "lines" => then[p] \in {"inactive", "end"}
    /\ op[p] \notin Locking =>
          /\ at[p] \in {"idle", "look", "truncate", "read", "main", "state", "reset", "lines", "end"}
          /\ Reading(p) => then[p] \in {"main", "state", "reset"}
          /\ at[p] = "lines" => then[p] = "end"
          /\ op[p] # "reset-failed" => at[p] \notin {"reset", "lines"} /\ (Reading(p) => then[p] # "reset")
    /\ mine[p] # None => /\ lock = p /\ op[p] = "start"
                         /\ \/ at[p] \in {"record", "end"}
                            \/ Reading(p) /\ then[p] = "record"
                            \/ at[p] = "lines" /\ map[p].main = mine[p] /\ map[p].state = "active"

\* A start that has found the unit not running, and a stop that has stopped it.
BeforeSpawn(p) == /\ op[p] = "start" /\ mine[p] = None
                  /\ at[p] \in {"spawn", "fail", "lines"} \/ (Reading(p) /\ then[p] = "fail")
AfterSignal(p) == /\ op[p] = "stop"
                  /\ at[p] \in {"clean", "inactive", "lines"} \/ (Reading(p) /\ then[p] = "clean")

\* What runs, at most, by the place an operation with the lock has come to.
HoldAt(p) ==
    /\ InStart(p) => Tracked \subseteq {mine[p]}
    /\ BeforeSpawn(p) \/ AfterSignal(p) => Tracked = {}
    /\ op[p] \in Locking /\ at[p] \in {"main", "state", "again", "signal"} =>
          \A i \in Tracked : got[p].main = i /\ got[p].state = "active"

\* What the file says of the process that runs, with nobody about to write.
SettledOn(i) == /\ file.age = "new" /\ file.text.main = i /\ file.text.state = "active"
                /\ \A q \in Procs : ~ Meddling(q)

Settled == (\A p \in Procs : ~ InStart(p)) => \A i \in Tracked : SettledOn(i)

TimeInv == \A p \in Procs : boottime[p] # "late"

KeptInv == /\ TypeInv /\ TimeInv
           /\ \A p \in Procs : ControlAt(p) /\ HoldAt(p)
           /\ Settled

LEMMA KeptInit == Init => KeptInv
<1> SUFFICES ASSUME Init PROVE KeptInv
  OBVIOUS
<1>1. Tracked = {}
  BY DEF Init, Tracked, Running
<1>2. \A p \in Procs : ControlAt(p) /\ HoldAt(p)
  BY <1>1 DEF Init, ControlAt, HoldAt, InStart, BeforeSpawn, AfterSignal, Reading, Locking
<1> QED BY <1>1, <1>2, TypeInit DEF Init, KeptInv, TimeInv, Settled

\* What a step of p leaves alone.
OthersStay(p) == \A q \in Procs \ {p} : /\ at'[q] = at[q] /\ op'[q] = op[q] /\ then'[q] = then[q]
                                        /\ got'[q] = got[q] /\ map'[q] = map[q] /\ mine'[q] = mine[q]
                                        /\ lock = q => lock' = q

LEMMA StepsOfOne == ASSUME TypeOK, NEW p \in Procs, Step(p) PROVE OthersStay(p)
<1> USE DEF TypeOK, OthersStay, Goto, ReadFor, Leave
<1>1. CASE Begin(p) \/ Lock(p) \/ LockFails(p) \/ End(p)
  BY <1>1, BootAssumption DEF Begin, Lock, LockFails, End
<1>2. CASE Look(p) \/ Truncate(p) \/ Read(p) \/ Lines(p)
  BY <1>2 DEF Look, Truncate, Read, Lines
<1>3. CASE Main(p) \/ State(p) \/ Again(p) \/ Spawn(p) \/ Signal(p)
  BY <1>3 DEF Main, State, Again, Spawn, Signal
<1>4. CASE Record(p) \/ Fail(p) \/ Clean(p) \/ Inactive(p) \/ Reset(p)
  BY <1>4 DEF Record, Fail, Clean, Inactive, Reset, Create
<1> QED BY <1>1, <1>2, <1>3, <1>4 DEF Step

\* The boot time stays right where it can be seen.
LEMMA TimeStep == SeesBoot /\ TypeInv /\ TimeInv /\ [Next]_vars => TimeInv'
<1> SUFFICES ASSUME SeesBoot, TypeInv, TimeInv, [Next]_vars PROVE TimeInv'
  OBVIOUS
<1> USE DEF TypeInv, TypeOK, TimeInv, Goto, ReadFor, Leave
<1>1. ASSUME NEW p \in Procs, Look(p) PROVE TimeInv'
  BY <1>1 DEF Look, GetBoottime, SeesBoot
<1>2. ASSUME Written PROVE TimeInv'
  BY <1>2 DEF Written
<1>3. ASSUME NEW p \in Procs, End(p) \/ LockFails(p) PROVE TimeInv'
  BY <1>3 DEF End, LockFails
<1>4. ASSUME boottime' = boottime PROVE TimeInv'
  BY <1>4
<1>5. ASSUME NEW p \in Procs, Step(p)
      PROVE  Look(p) \/ Written \/ End(p) \/ LockFails(p) \/ boottime' = boottime
  BY <1>5 DEF Step, Begin, Truncate, Read, Lines, Lock, Main, State, Again, Spawn, Record, Fail,
              Signal, Clean, Inactive, Reset, Create
<1>6. ProcessEnds \/ UNCHANGED vars => boottime' = boottime
  BY DEF ProcessEnds, vars
<1> QED BY <1>1, <1>2, <1>3, <1>4, <1>5, <1>6 DEF Next

\* The control part.
LEMMA ControlStep == ASSUME KeptInv, NEW p \in Procs, Step(p) PROVE ControlAt(p)'
<1>a. TypeOK /\ PointInv /\ ControlAt(p)
  BY DEF KeptInv, TypeInv
<1> USE <1>a DEF TypeOK, PointInv, ControlAt, Goto, ReadFor, Reading, Locking, Unlocked
<1>b. op[p] \in {"start", "stop", "is-active", "reset-failed", "none"}
  OBVIOUS
<1>1. CASE Begin(p)
  <2>1. PICK o \in Ops : /\ op' = [op EXCEPT ![p] = o]
                         /\ IF o \in Locking THEN Goto(p, "lock") /\ then' = then ELSE ReadFor(p, "main")
    BY <1>1 DEF Begin
  <2>2. op'[p] = o /\ o \in Locking \cup Unlocked /\ mine'[p] = mine[p] /\ lock' = lock
    BY <1>1, <2>1, BootAssumption DEF Begin
  <2>3. mine[p] = None
    BY <1>1 DEF Begin
  <2>4. CASE o \in Locking
    BY <2>1, <2>2, <2>3, <2>4
  <2>5. CASE o \notin Locking
    BY <2>1, <2>2, <2>3, <2>5
  <2> QED BY <2>4, <2>5
<1>2. CASE Lock(p) \/ LockFails(p) \/ End(p)
  BY <1>2 DEF Lock, LockFails, End, Leave
<1>3. CASE Look(p) \/ Truncate(p) \/ Read(p)
  BY <1>3 DEF Look, Truncate, Read
<1>4. CASE Main(p) \/ State(p) \/ Again(p)
  BY <1>4 DEF Main, State, Again
<1>5. CASE Spawn(p) \/ Signal(p)
  BY <1>5 DEF Spawn, Signal
<1>6. CASE Lines(p)
  BY <1>6 DEF Lines
<1>7. CASE Record(p)
  <2>1. map'[p].main = mine[p] /\ map'[p].state = "active"
    BY <1>7 DEF Record, Create
  <2> QED BY <1>7, <2>1 DEF Record, Create
<1>8. CASE Fail(p) \/ Clean(p) \/ Inactive(p) \/ Reset(p)
  BY <1>8 DEF Fail, Clean, Inactive, Reset, Create
<1> QED BY <1>1, <1>2, <1>3, <1>4, <1>5, <1>6, <1>7, <1>8 DEF Step

\* Who has the lock is the only one that works with it, and the only one in a start.
LEMMA HolderIsOne ==
    ASSUME KeptInv, NEW p \in Procs, lock = p, NEW q \in Procs \ {p}
    PROVE  ~ InStart(q) /\ (op[q] \in Locking => at[q] \in {"idle", "lock"})
BY BootAssumption DEF KeptInv, ControlAt, InStart

\* A process that counts exists.
LEMMA TrackedExists == ASSUME TypeOK, NEW i \in Tracked PROVE i \in Pids /\ proc[i] = "unit" /\ Exists(i)
BY BootAssumption DEF Tracked, Running, Exists

\* The step of one invocation that starts no process is enough to look at.
LEMMA HoldOfOthers ==
    ASSUME KeptInv, NEW p \in Procs, OthersStay(p), Tracked' \subseteq Tracked, NEW q \in Procs \ {p}
    PROVE  HoldAt(q)'
BY DEF KeptInv, OthersStay, HoldAt, InStart, BeforeSpawn, AfterSignal, Reading

\* A step of p that does not end its start leaves things settled, if it is not p that
\* becomes somebody about to write, and the file stays as it is.
LEMMA SettledStays ==
    ASSUME KeptInv, NEW p \in Procs, OthersStay(p), Tracked' \subseteq Tracked,
           InStart(p) => InStart(p)',
           ASSUME NEW i \in Tracked, SettledOn(i) PROVE file' = file /\ ~ Meddling(p)'
    PROVE  Settled'
<1> SUFFICES ASSUME \A q \in Procs : ~ InStart(q)', NEW i \in Tracked' PROVE SettledOn(i)'
  BY DEF Settled
<1>1. \A q \in Procs : ~ InStart(q)
  BY DEF OthersStay, InStart
<1>2. i \in Tracked /\ SettledOn(i)
  BY <1>1 DEF KeptInv, Settled
<1>3. \A q \in Procs \ {p} : ~ Meddling(q)'
  BY <1>2 DEF SettledOn, OthersStay, Meddling, Reading
<1> QED BY <1>2, <1>3 DEF SettledOn

\* Every step but a spawn leaves at most as many processes that count.
LEMMA OnlySpawnAdds ==
    ASSUME TypeOK
    PROVE  /\ \A p \in Procs : Step(p) /\ ~ Spawn(p) => Tracked' \subseteq Tracked
           /\ ProcessEnds \/ UNCHANGED vars => Tracked' \subseteq Tracked
<1> USE DEF TypeOK
<1>1. ASSUME exposed \subseteq exposed', \A i \in Pids : proc'[i] = proc[i] \/ proc'[i] = "ended"
      PROVE  Tracked' \subseteq Tracked
  BY <1>1 DEF Tracked, Running
<1>2. ASSUME NEW p \in Procs, Signal(p) PROVE Tracked' \subseteq Tracked
  BY <1>1, <1>2 DEF Signal
<1>3. ASSUME ProcessEnds PROVE Tracked' \subseteq Tracked
  BY <1>1, <1>3 DEF ProcessEnds
<1>4. ASSUME NEW p \in Procs, Lines(p) PROVE Tracked' \subseteq Tracked
  BY <1>1, <1>4 DEF Lines
<1>5. ASSUME NEW p \in Procs, Step(p), ~ Spawn(p), ~ Signal(p), ~ Lines(p)
      PROVE  proc' = proc /\ exposed' = exposed
  BY <1>5 DEF Step, Begin, Look, Truncate, Read, Lock, LockFails, End, Main, State, Again,
              Record, Fail, Clean, Inactive, Reset, Create
<1>6. UNCHANGED vars => proc' = proc /\ exposed' = exposed
  BY DEF vars
<1> QED BY <1>1, <1>2, <1>3, <1>4, <1>5, <1>6

\* With the lock, and before its own start or in a stop, one can rely on the file.
LEMMA HolderIsSettled ==
    ASSUME KeptInv, NEW p \in Procs, op[p] \in Locking, at[p] \notin {"idle", "lock"}, mine[p] = None
    PROVE  \A i \in Tracked : SettledOn(i)
<1>1. lock = p /\ ~ InStart(p)
  BY DEF KeptInv, ControlAt, InStart
<1> QED BY <1>1, HolderIsOne DEF KeptInv, Settled

\* A step that starts no process.
LEMMA QuietStep ==
    ASSUME SeesBoot, KeptInv, NEW p \in Procs, Step(p), Tracked' \subseteq Tracked,
           ~ \E i \in Pids : Spawn(p) /\ mine' = [mine EXCEPT ![p] = i]
    PROVE  HoldAt(p)' /\ Settled'
<1>a. TypeOK /\ PointInv /\ ControlAt(p) /\ HoldAt(p) /\ boottime[p] # "late"
  BY DEF KeptInv, TypeInv, TimeInv
<1>b. OthersStay(p) /\ ControlAt(p)'
  BY <1>a, StepsOfOne, ControlStep
<1>c. ASSUME Tracked' = {} PROVE HoldAt(p)' /\ Settled'
  BY <1>c DEF HoldAt, Settled
<1>d. op[p] \in {"start", "stop", "is-active", "reset-failed", "none"}
  BY <1>a DEF TypeOK, Locking, Unlocked
<1> USE <1>a DEF TypeOK, PointInv, Goto, ReadFor, Reading, Locking
<1>1. CASE Begin(p) \/ Lock(p) \/ LockFails(p) \/ End(p)
  <2>1. ~ InStart(p) /\ mine'[p] = None /\ file' = file
    BY <1>1 DEF Begin, Lock, LockFails, End, Leave, ControlAt, InStart
  <2>2. /\ at'[p] \in {"idle", "lock", "look"}
        /\ at'[p] = "look" => then'[p] \in {"main", "signal"}
    BY <1>1 DEF Begin, Lock, LockFails, End, Leave
  <2>3. HoldAt(p)'
    BY <2>1, <2>2 DEF HoldAt, InStart, BeforeSpawn, AfterSignal
  <2>4. ~ Meddling(p)'
    BY <2>2 DEF Meddling
  <2> QED BY <1>b, <2>1, <2>3, <2>4, SettledStays
<1>2. CASE Look(p) \/ Truncate(p) \/ Read(p)
  <2>1. /\ op' = op /\ mine' = mine
        /\ at'[p] = then[p] \/ (at'[p] \in {"truncate", "read"} /\ then' = then)
    BY <1>2 DEF Look, Truncate, Read
  <2>2. InStart(p) => InStart(p)'
    BY <1>2, <2>1 DEF InStart, ControlAt, Look, Truncate, Read
  <2>3. ASSUME NEW i \in Tracked, SettledOn(i)
        PROVE  /\ Read(p) \/ (Look(p) /\ at'[p] = "read")
               /\ file' = file
    <3>1. file.age = "new" /\ at[p] # "truncate"
      BY <2>3 DEF SettledOn, Meddling
    <3>2. ~ Truncate(p)
      BY <3>1 DEF Truncate
    <3>3. CASE Read(p)
      BY <3>3 DEF Read
    <3>4. CASE Look(p)
      <4>1. GetBoottime(p) = "boot"
        BY DEF GetBoottime, SeesBoot
      <4> QED BY <3>1, <3>4, <4>1 DEF Look
    <3> QED BY <1>2, <3>2, <3>3, <3>4
  <2>4. ASSUME NEW i \in Tracked, SettledOn(i), Read(p)
        PROVE  got'[p].main = i /\ got'[p].state = "active"
    BY <2>4 DEF SettledOn, Read
  <2>5. ASSUME NEW i \in Tracked, SettledOn(i) PROVE file' = file /\ ~ Meddling(p)'
    <3>1. ~ Meddling(p) /\ file' = file
      BY <2>3, <2>5 DEF SettledOn
    <3>2. CASE Look(p) /\ at'[p] = "read"
      <4>1. Reading(p) /\ then' = then /\ op' = op
        BY <3>2 DEF Look
      <4> QED BY <3>1, <3>2, <4>1 DEF Meddling
    <3>3. CASE Read(p)
      <4>1. Reading(p) /\ at'[p] = then[p] /\ then' = then /\ op' = op
        BY <3>3 DEF Read
      <4>2. got'[p].state = "active"
        BY <2>4, <2>5, <3>3
      <4>3. then[p] \notin {"truncate", "look", "read", "lines"}
        BY <4>1 DEF Afters
      <4> QED BY <3>1, <4>1, <4>2, <4>3 DEF Meddling
    <3> QED BY <2>3, <2>5, <3>1, <3>2, <3>3
  <2>6. HoldAt(p)'
    <3>1. InStart(p)' => Tracked' \subseteq {mine'[p]}
      BY <1>2, <2>1 DEF InStart, HoldAt, Look, Truncate, Read
    <3>2. BeforeSpawn(p)' \/ AfterSignal(p)' => Tracked' = {}
      BY <1>2, <2>1 DEF HoldAt, BeforeSpawn, AfterSignal, ControlAt, Look, Truncate, Read
    <3>3. ASSUME op'[p] \in Locking, at'[p] \in {"main", "state", "again", "signal"}, NEW i \in Tracked
          PROVE  got'[p].main = i /\ got'[p].state = "active"
      <4>1. mine[p] = None /\ at[p] \notin {"idle", "lock"}
        BY <1>2, <2>1, <3>3 DEF ControlAt, Look, Truncate, Read
      <4>2. SettledOn(i)
        BY <2>1, <3>3, <4>1, HolderIsSettled
      <4> QED BY <2>3, <2>4, <3>3, <4>2
    <3> QED BY <3>1, <3>2, <3>3 DEF HoldAt
  <2> QED BY <1>b, <2>2, <2>5, <2>6, SettledStays
<1>3. CASE Main(p) \/ State(p) \/ Again(p)
  <2>1. /\ mine[p] = None /\ mine' = mine /\ op' = op /\ file' = file /\ got' = got
        /\ at'[p] \in {"end", "look", "spawn"}
        /\ at'[p] = "look" => then'[p] \in {"state", "again", "reset"}
    BY <1>3 DEF Main, State, Again, ControlAt
  <2>2. ASSUME at'[p] = "spawn" PROVE Tracked = {}
    <3>1. \/ at[p] = "state" /\ op[p] = "start" /\ got[p].state # "active"
          \/ at[p] = "again" /\ op[p] = "start" /\ ~ Exists(got[p].main)
      BY <1>3, <2>2 DEF Main, State, Again, ControlAt
    <3> QED BY <3>1, TrackedExists DEF HoldAt
  <2>3. HoldAt(p)'
    BY <2>1, <2>2 DEF HoldAt, InStart, BeforeSpawn, AfterSignal
  <2>4. ASSUME NEW i \in Tracked, SettledOn(i) PROVE ~ Meddling(p)'
    <3>1. at'[p] = "look" /\ then'[p] = "reset" => op[p] = "reset-failed" /\ at[p] = "state" /\ got[p].state = "failed"
      BY <1>3 DEF Main, State, Again
    <3> QED BY <2>1, <2>4, <3>1 DEF SettledOn, Meddling
  <2> QED BY <1>b, <2>1, <2>3, <2>4, SettledStays DEF InStart
<1>4. CASE Lines(p)
  <2>1. /\ file' = Fresh(map[p]) /\ at'[p] = then[p] /\ op' = op /\ mine' = mine
        /\ exposed' = exposed \cup {i \in Pids : i = mine[p] /\ \E q \in Procs \ {p} : Meddling(q)}
    BY <1>4 DEF Lines
  <2>2. HoldAt(p)'
    BY <1>4, <2>1 DEF Lines, HoldAt, InStart, BeforeSpawn, AfterSignal, ControlAt
  <2>3. CASE InStart(p)
    <3>1. /\ Tracked \subseteq {mine[p]} /\ op[p] = "start" /\ at'[p] = "end"
          /\ map[p].main = mine[p] /\ map[p].state = "active"
      BY <1>4, <2>1, <2>3 DEF Lines, HoldAt, ControlAt, InStart
    <3>2. file'.age = "new" /\ file'.text.main = mine[p] /\ file'.text.state = "active"
      BY <2>1, <3>1 DEF Fresh
    <3>3. ~ Meddling(p)'
      BY <3>1 DEF Meddling
    <3>4. ASSUME NEW i \in Tracked', NEW q \in Procs \ {p} PROVE ~ Meddling(q)'
      <4>1. i = mine[p] /\ i \in Pids /\ i \notin exposed'
        BY <3>1 DEF Tracked, Running
      <4>2. ~ Meddling(q)
        BY <2>1, <4>1
      <4> QED BY <1>b, <4>2 DEF OthersStay, Meddling
    <3> QED BY <2>2, <3>1, <3>2, <3>3, <3>4 DEF Settled, SettledOn
  <2>4. CASE ~ InStart(p)
    <3>1. op[p] \in Locking => Tracked = {}
      BY <1>4, <2>4 DEF Lines, InStart, HoldAt, BeforeSpawn, AfterSignal
    <3>2. op[p] \notin Locking => Meddling(p)
      BY <1>4, <1>d DEF Lines, Meddling, ControlAt
    <3> QED BY <1>b, <2>2, <2>4, <3>1, <3>2, SettledStays DEF SettledOn
  <2> QED BY <2>3, <2>4
<1>5. CASE Record(p)
  <2>1. mine[p] # None /\ mine' = mine /\ op' = op /\ op[p] = "start" /\ at'[p] = "lines"
    BY <1>5 DEF Record, Create, ControlAt
  <2>2. InStart(p)' /\ Tracked' \subseteq {mine'[p]}
    BY <1>5, <2>1 DEF Record, InStart, HoldAt
  <2> QED BY <2>1, <2>2 DEF HoldAt, Settled, BeforeSpawn, AfterSignal
<1>6. CASE Spawn(p) \/ Fail(p)
  <2>1. op[p] = "start" /\ at[p] \in {"spawn", "fail"}
    BY <1>6, <1>d DEF Spawn, Fail, ControlAt
  <2>2. mine[p] = None
    BY <2>1 DEF ControlAt
  <2> QED BY <1>c, <2>1, <2>2 DEF HoldAt, BeforeSpawn
<1>7. CASE Signal(p)
  <2>1. op[p] = "stop" /\ at[p] = "signal"
    BY <1>7, <1>d DEF Signal, ControlAt
  <2>2. \A i \in Tracked : got[p].main = i
    BY <2>1 DEF HoldAt
  <2>3. \A i \in Tracked' : FALSE
    <3> SUFFICES ASSUME NEW i \in Tracked' PROVE FALSE
      OBVIOUS
    <3>1. i \in Tracked /\ i = got[p].main /\ Exists(i) /\ i \in Pids
      BY <2>2, TrackedExists
    <3>2. proc'[i] = "ended"
      BY <1>7, <3>1 DEF Signal
    <3> QED BY <3>2 DEF Tracked, Running
  <2> QED BY <1>c, <2>3
<1>8. CASE Clean(p) \/ Inactive(p)
  <2>1. op[p] = "stop" /\ at[p] \in {"clean", "inactive"}
    BY <1>8, <1>d DEF Clean, Inactive, ControlAt
  <2> QED BY <1>c, <2>1 DEF HoldAt, AfterSignal
<1>9. CASE Reset(p)
  <2>1. op[p] = "reset-failed" /\ at[p] = "reset" /\ mine[p] = None
    BY <1>9, <1>d DEF Reset, ControlAt
  <2>2. Meddling(p) /\ op' = op /\ mine' = mine /\ at'[p] = "lines"
    BY <1>9, <2>1 DEF Reset, Create, Meddling
  <2>3. HoldAt(p)'
    BY <2>1, <2>2 DEF HoldAt, InStart, BeforeSpawn, AfterSignal
  <2> QED BY <1>b, <2>1, <2>2, <2>3, SettledStays DEF SettledOn, InStart
<1> QED BY <1>1, <1>2, <1>3, <1>4, <1>5, <1>6, <1>7, <1>8, <1>9 DEF Step

\* The start of a process.
LEMMA StartStep ==
    ASSUME KeptInv, NEW p \in Procs, NEW i \in Pids, Spawn(p), mine' = [mine EXCEPT ![p] = i]
    PROVE  (\A q \in Procs : HoldAt(q)') /\ Settled'
<1>a. TypeOK /\ ControlAt(p) /\ HoldAt(p)
  BY DEF KeptInv, TypeInv
<1>b. OthersStay(p)
  BY <1>a, StepsOfOne DEF Step
<1>1. op[p] = "start" /\ lock = p /\ at[p] = "spawn" /\ mine[p] = None
  BY <1>a DEF Spawn, ControlAt, TypeOK, Locking, Unlocked, Reading
<1>2. Tracked = {}
  BY <1>a, <1>1 DEF HoldAt, BeforeSpawn
<1>3. mine'[p] = i /\ i # None /\ at'[p] = "look" /\ op' = op
  BY <1>a, BootAssumption DEF Spawn, ReadFor, Goto, TypeOK
<1>4. Tracked' \subseteq {i}
  <2>1. ASSUME NEW k \in Pids \ {i}, proc'[k] = "unit" PROVE proc[k] = "unit"
    <3>1. CASE proc' = proc
      BY <2>1, <3>1
    <3>2. ASSUME NEW j \in Pids, proc' = [proc EXCEPT ![j] = "unit"], mine' = [mine EXCEPT ![p] = j]
          PROVE  proc[k] = "unit"
      <4>1. j = i
        BY <1>a, <1>3, <3>2 DEF TypeOK
      <4> QED BY <1>a, <2>1, <3>2, <4>1 DEF TypeOK
    <3> QED BY <3>1, <3>2 DEF Spawn
  <2>2. exposed' = exposed
    BY DEF Spawn
  <2> QED BY <1>2, <2>1, <2>2 DEF Tracked, Running
<1>5. InStart(p)' /\ HoldAt(p)'
  BY <1>1, <1>3, <1>4 DEF InStart, HoldAt, BeforeSpawn, AfterSignal
<1>6. ASSUME NEW q \in Procs \ {p} PROVE HoldAt(q)'
  <2>1. ~ InStart(q) /\ (op[q] \in Locking => at[q] \in {"idle", "lock"})
    BY <1>1, HolderIsOne
  <2> QED BY <1>b, <2>1 DEF OthersStay, HoldAt, InStart, BeforeSpawn, AfterSignal, Reading, Locking
<1> QED BY <1>5, <1>6 DEF Settled

LEMMA KeptStep == SeesBoot /\ KeptInv /\ [Next]_vars => KeptInv'
<1> SUFFICES ASSUME SeesBoot, KeptInv, [Next]_vars PROVE KeptInv'
  OBVIOUS
<1>a. TypeInv /\ TypeOK /\ TypeInv' /\ TimeInv'
  BY TypeStep, TimeStep DEF KeptInv, TypeInv
<1>1. ASSUME NEW p \in Procs, Step(p)
      PROVE  (\A q \in Procs : ControlAt(q)' /\ HoldAt(q)') /\ Settled'
  <2>1. OthersStay(p) /\ ControlAt(p)'
    BY <1>1, <1>a, StepsOfOne, ControlStep
  <2>2. \A q \in Procs \ {p} : ControlAt(q)'
    BY <2>1 DEF KeptInv, ControlAt, OthersStay, Reading
  <2>3. CASE \E i \in Pids : Spawn(p) /\ mine' = [mine EXCEPT ![p] = i]
    BY <2>1, <2>2, <2>3, StartStep
  <2>4. CASE ~ \E i \in Pids : Spawn(p) /\ mine' = [mine EXCEPT ![p] = i]
    <3>1. Tracked' \subseteq Tracked
      <4>1. CASE Spawn(p)
        BY <2>4, <4>1 DEF Spawn, Tracked, Running
      <4>2. CASE ~ Spawn(p)
        BY <1>1, <1>a, <4>2, OnlySpawnAdds
      <4> QED BY <4>1, <4>2
    <3>2. HoldAt(p)' /\ Settled'
      BY <1>1, <2>4, <3>1, QuietStep
    <3>3. \A q \in Procs \ {p} : HoldAt(q)'
      BY <2>1, <3>1, HoldOfOthers
    <3> QED BY <2>1, <2>2, <3>2, <3>3
  <2> QED BY <2>3, <2>4
<1>2. ASSUME ProcessEnds \/ UNCHANGED vars
      PROVE  (\A q \in Procs : ControlAt(q)' /\ HoldAt(q)') /\ Settled'
  <2>1. /\ at' = at /\ op' = op /\ then' = then /\ got' = got /\ map' = map /\ mine' = mine
        /\ lock' = lock /\ file' = file
    BY <1>2 DEF ProcessEnds, vars
  <2>2. Tracked' \subseteq Tracked
    BY <1>a, <1>2, OnlySpawnAdds
  <2>3. \A q \in Procs : ControlAt(q)' /\ HoldAt(q)'
    BY <2>1, <2>2 DEF KeptInv, ControlAt, HoldAt, InStart, BeforeSpawn, AfterSignal, Reading
  <2>4. Settled'
    BY <2>1, <2>2 DEF KeptInv, Settled, SettledOn, InStart, Meddling, Reading
  <2> QED BY <2>3, <2>4
<1> QED BY <1>a, <1>1, <1>2 DEF Next, KeptInv

LEMMA KeptAlways == ASSUME SeesBoot PROVE Spec => []KeptInv
BY KeptInit, KeptStep, PTL DEF Spec

\* Where the boot time can be seen, the process of a unit is on record unless somebody
\* without the lock was about to write the file when it was recorded.
THEOREM KeptOnRecord == ASSUME SeesBoot PROVE Spec => []RecordedUnlessExposed
<1>1. KeptInv => RecordedUnlessExposed
  <2> SUFFICES ASSUME KeptInv, NEW i \in Tracked
               PROVE  file.text.main = i \/ \E p \in Procs : mine[p] = i /\ lock = p
    BY DEF RecordedUnlessExposed, Tracked
  <2>1. CASE \A p \in Procs : ~ InStart(p)
    BY <2>1 DEF KeptInv, Settled, SettledOn
  <2>2. ASSUME NEW p \in Procs, InStart(p) PROVE mine[p] = i /\ lock = p
    BY <2>2 DEF KeptInv, HoldAt, ControlAt, InStart
  <2> QED BY <2>1, <2>2
<1> QED BY <1>1, KeptAlways, PTL

\* And then it runs once.
THEOREM RunsOnce == ASSUME SeesBoot PROVE Spec => []OnceUnlessExposed
<1>1. KeptInv => OnceUnlessExposed
  <2> SUFFICES ASSUME KeptInv PROVE Cardinality(Tracked) <= 1
    BY DEF OnceUnlessExposed, Tracked
  <2>1. \E x : Tracked \subseteq {x}
    <3>1. CASE \A p \in Procs : ~ InStart(p)
      BY <3>1 DEF KeptInv, Settled, SettledOn
    <3>2. ASSUME NEW p \in Procs, InStart(p) PROVE Tracked \subseteq {mine[p]}
      BY <3>2 DEF KeptInv, HoldAt
    <3> QED BY <3>1, <3>2
  <2>2. PICK x : Tracked \subseteq {x}
    BY <2>1
  <2>3. Tracked = {} \/ Tracked = {x}
    BY <2>2
  <2>4. Cardinality({}) = 0 /\ Cardinality({x}) = 1
    BY FS_EmptySet, FS_Singleton
  <2> QED BY <2>3, <2>4
<1> QED BY <1>1, KeptAlways, PTL

=============================================================================
