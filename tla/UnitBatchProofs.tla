---------------------------- MODULE UnitBatchProofs ----------------------------
(***************************************************************************)
(* Proofs about UnitBatch for any number of units, invocations and process *)
(* ids: the types; that nobody waits for a lock with another in hand; and, *)
(* where each unit has a file of its own, whom a stop kills, and that each *)
(* unit of a list is a unit as ServiceControl has it.                      *)
(***************************************************************************)
EXTENDS UnitBatch, TLAPS, FiniteSetTheorems, SequenceTheorems

\* What is true between the steps besides the types: an invocation that runs has
\* a unit to work on, and one that writes has read the status map before.
MemoryInv == \A p \in Procs : /\ At(p) # "idle" => inv[p].list # <<>>
                              /\ At(p) = "flush" => inv[p].cache[ConfOf(Unit(p))] \in Status

TypeInv == TypeOK /\ MemoryInv

\* What is matched is a list of units, not empty, and what is left of it after
\* the first one is done is matched as well.
LEMMA MatchedList ==
    ASSUME NEW l \in Matched
    PROVE  /\ l \in Seq(Units) /\ l # <<>>
           /\ Len(l) > 1 => Tail(l) \in Matched
<1> DEFINE C == Cardinality(Units)
<1>1. C \in Nat
  BY BatchAssumption, FS_CardinalityType
<1>2. PICK n \in 1..C : l \in [1..n -> Units]
  BY <1>1 DEF Matched
<1>3. l \in Seq(Units) /\ Len(l) = n /\ l # <<>>
  BY <1>1, <1>2
<1>4. ASSUME Len(l) > 1 PROVE Tail(l) \in Matched
  <2>0. /\ Tail(l) \in Seq(Units) /\ Len(Tail(l)) = n - 1
        /\ \A i \in 1..(n - 1) : Tail(l)[i] = l[i + 1]
    BY <1>3, HeadTailProperties
  <2>1. Tail(l) \in [1..(n - 1) -> Units] /\ n - 1 \in 1..C
    <3>1. Tail(l) \in [1..Len(Tail(l)) -> Units]
      BY <2>0, LenProperties
    <3>2. n - 1 \in 1..C
      BY <1>1, <1>3, <1>4
    <3> QED BY <2>0, <3>1, <3>2
  <2>2. \A i \in DOMAIN Tail(l) : Tail(l)[i] = l[i + 1] /\ i + 1 \in DOMAIN l
    BY <1>1, <1>2, <2>0, <2>1
  <2>3. ASSUME NEW i \in DOMAIN Tail(l), NEW j \in DOMAIN Tail(l), i < j
        PROVE  /\ Tail(l)[i] # Tail(l)[j]
               /\ Tail(l)[j] \notin Instances =>
                     Tail(l)[i] \notin Instances /\ Tail(l)[i] < Tail(l)[j]
    <3>1. i + 1 < j + 1
      BY <1>1, <2>1, <2>3
    <3> QED BY <2>2, <3>1 DEF Matched
  <2> QED BY <1>1, <2>1, <2>3 DEF Matched
<1> QED BY <1>3, <1>4

\* The unit an invocation is at, and the loaded unit it leads to.
LEMMA UnitType ==
    ASSUME TypeInv, NEW p \in Procs, At(p) # "idle"
    PROVE  Unit(p) \in Units /\ ConfOf(Unit(p)) \in Loaded /\ inv[p].list \in Matched
<1>1. inv[p].list \in Matched
  BY DEF TypeInv, TypeOK, MemoryInv, Invocation
<1> QED BY <1>1, MatchedList DEF Unit, ConfOf, Loaded

LEMMA KnownType ==
    ASSUME TypeInv, NEW p \in Procs, At(p) # "idle" PROVE Known(p) \in Status
BY UnitType DEF TypeInv, TypeOK, Invocation, Known

\* What the steps make of an invocation's memory.
LEMMA MovedToType ==
    ASSUME NEW v \in Invocation, NEW l \in Labels
    PROVE  LET r == MovedTo(v, l)
           IN  r \in Invocation /\ r.at = l /\ r.list = v.list /\ r.cache = v.cache
BY DEF MovedTo, Invocation

LEMMA WithPidType ==
    ASSUME NEW v \in Invocation, NEW i \in Pids \cup {None}, NEW l \in Labels
    PROVE  LET r == WithPid(v, i, l) IN r \in Invocation /\ r.at = l /\ r.list = v.list
BY DEF WithPid, Invocation

LEMMA WithStatusType ==
    ASSUME NEW v \in Invocation, NEW c \in Loaded, NEW new \in Status, NEW l \in Labels
    PROVE  LET r == WithStatus(v, c, new, l)
           IN  /\ r \in Invocation /\ r.at = "flush" /\ r.next = l
               /\ r.list = v.list /\ r.cache[c] = new
<1>1. "flush" \in Labels
  BY DEF Labels
<1> QED BY <1>1 DEF WithStatus, Invocation

LEMMA AtNextUnitType ==
    ASSUME NEW v \in Invocation, Tail(v.list) \in Matched
    PROVE  LET r == AtNextUnit(v)
           IN  r \in Invocation /\ r.at = "lock" /\ r.list = Tail(v.list)
<1>1. "lock" \in Labels /\ "idle" \in Labels
  BY DEF Labels
<1> QED BY <1>1 DEF AtNextUnit, Invocation

\* A step changes what one invocation remembers, and nothing else has to be shown.
LEMMA MemoryType ==
    ASSUME TypeInv, NEW p \in Procs, NEW r \in Invocation, Remember(p, r),
           r.at # "idle" => r.list # <<>>,
           r.at = "flush" => r.cache[ConfOf(Head(r.list))] \in Status
    PROVE  inv' \in [Procs -> Invocation] /\ MemoryInv'
BY DEF TypeInv, TypeOK, MemoryInv, At, Unit, Remember

LEMMA Remembers ==
    ASSUME TypeInv, NEW p \in Procs, NEW r, Remember(p, r)
    PROVE  inv'[p] = r /\ Remember(p, inv'[p]) /\ \A q \in Procs \ {p} : inv'[q] = inv[q]
BY DEF TypeInv, TypeOK, Remember

LEMMA TypeInvInit == Init => TypeInv
<1> SUFFICES ASSUME Init PROVE TypeInv
  OBVIOUS
<1>1. Idle \in Invocation
  BY DEF Idle, Invocation, Labels, Loaded, Status, States
<1>2. Empty \in Status /\ NoProcess \in Process
  BY DEF Empty, Status, States, NoProcess, Process
<1>3. \A p \in Procs : At(p) = "idle"
  BY DEF Init, At, Idle
<1> QED BY <1>1, <1>2, <1>3 DEF Init, TypeInv, TypeOK, MemoryInv

\* An invocation that goes on to a step other than the end of a write.
LEMMA GotoType ==
    ASSUME TypeInv, NEW p \in Procs, NEW l \in Labels \ {"flush"}, At(p) # "idle", Goto(p, l)
    PROVE  inv' \in [Procs -> Invocation] /\ MemoryInv'
<1> DEFINE r == MovedTo(inv[p], l)
<1>1. r \in Invocation /\ Remember(p, r) /\ r.at = l /\ r.list = inv[p].list
  BY MovedToType DEF TypeInv, TypeOK, Goto
<1>2. r.list # <<>>
  BY <1>1 DEF TypeInv, MemoryInv
<1> HIDE DEF r
<1> QED BY <1>1, <1>2, MemoryType

\* A write of a status map keeps the types.
LEMMA WriteType ==
    ASSUME TypeInv, NEW p \in Procs, NEW new \in Status, NEW l \in Labels, At(p) # "idle",
           WriteStatus(p, new, l)
    PROVE  /\ inv' \in [Procs -> Invocation] /\ MemoryInv'
           /\ status' \in [Units -> Status]
<1>1. Unit(p) \in Units /\ ConfOf(Unit(p)) \in Loaded /\ inv[p].list # <<>>
  BY UnitType DEF TypeInv, MemoryInv
<1> DEFINE r == WithStatus(inv[p], ConfOf(Unit(p)), new, l)
<1>2. /\ r \in Invocation /\ Remember(p, r)
      /\ r.list = inv[p].list /\ r.cache[ConfOf(Unit(p))] = new
  <2>1. inv[p] \in Invocation
    BY DEF TypeInv, TypeOK
  <2> QED BY <1>1, <2>1, WithStatusType DEF WriteStatus
<1> HIDE DEF r
<1>3. inv' \in [Procs -> Invocation] /\ MemoryInv'
  BY <1>1, <1>2, MemoryType DEF Unit
<1>4. status' \in [Units -> Status]
  BY DEF TypeInv, TypeOK, WriteStatus, Empty, Status, States
<1> QED BY <1>3, <1>4

LEMMA TypeInvStep == TypeInv /\ [Next]_vars => TypeInv'
<1> SUFFICES ASSUME TypeInv, [Next]_vars PROVE TypeInv'
  OBVIOUS
<1> USE DEF files
<1>1. ASSUME NEW p \in Procs, Begin(p) PROVE TypeInv'
  <2>1. PICK o \in Ops, l \in Lists :
            Remember(p, [Idle EXCEPT !.at = "lock", !.op = o, !.list = l])
    BY <1>1 DEF Begin
  <2> DEFINE r == [Idle EXCEPT !.at = "lock", !.op = o, !.list = l]
  <2>2. l \in Matched /\ l # <<>>
    BY MatchedList, BatchAssumption
  <2>3. r \in Invocation /\ r.at = "lock" /\ r.list = l
    BY <2>2 DEF Idle, Invocation, Labels
  <2> HIDE DEF r
  <2> QED BY <1>1, <2>1, <2>2, <2>3, MemoryType DEF Begin, TypeInv, TypeOK, r
<1>2. ASSUME NEW p \in Procs, Advance(p) PROVE TypeInv'
  <2>1. CASE Len(inv[p].list) > 1
    <3> DEFINE r == AtNextUnit(inv[p])
    <3>1. inv[p].list \in Matched
      BY <1>2, UnitType DEF Advance
    <3>2. Tail(inv[p].list) \in Matched /\ Tail(inv[p].list) # <<>>
      BY <2>1, <3>1, MatchedList
    <3>3. r \in Invocation /\ r.at = "lock" /\ r.list = Tail(inv[p].list)
      BY <3>2, AtNextUnitType DEF TypeInv, TypeOK
    <3>4. Remember(p, r)
      BY <1>2, <2>1 DEF Advance
    <3> HIDE DEF r
    <3> QED BY <1>2, <2>1, <3>2, <3>3, <3>4, MemoryType DEF Advance, TypeInv, TypeOK
  <2>2. CASE ~ Len(inv[p].list) > 1
    <3>1. Idle \in Invocation /\ Idle.at = "idle"
      BY DEF Idle, Invocation, Labels
    <3>2. proc' \in [Pids -> Process]
      BY <1>2, <2>2 DEF Advance, Orphaned, TypeInv, TypeOK, Process
    <3> QED BY <1>2, <2>2, <3>1, <3>2, MemoryType DEF Advance, TypeInv, TypeOK
  <2> QED BY <2>1, <2>2
<1>3. ASSUME NEW p \in Procs,
             Lock(p) \/ LockFails(p) \/ ActiveUnderLock(p) \/ Check(p) \/ Pre(p) \/ Term(p)
               \/ Vanish(p) \/ Unlock(p)
      PROVE  TypeInv'
  <2>1. At(p) # "idle" /\ \E l \in Labels \ {"flush"} : Goto(p, l)
    BY <1>3 DEF Lock, LockFails, ActiveUnderLock, Check, Pre, Term, Vanish, Unlock, Labels
  <2>2. lock' \in [Units -> Procs \cup {None}]
    BY <1>3 DEF Lock, LockFails, ActiveUnderLock, Check, Pre, Term, Vanish, Unlock, TypeInv, TypeOK
  <2> QED BY <1>3, <2>1, <2>2, GotoType
          DEF Lock, LockFails, ActiveUnderLock, Check, Pre, Term, Vanish, Unlock, TypeInv, TypeOK
<1>4. ASSUME NEW p \in Procs, Dirs(p) \/ RmDirs(p) PROVE TypeInv'
  <2>1. At(p) # "idle" /\ \E l \in Labels \ {"flush"} : Goto(p, l)
    BY <1>4 DEF Dirs, RmDirs, Labels
  <2> QED BY <1>4, <2>1, GotoType DEF Dirs, RmDirs, TypeInv, TypeOK
<1>5. ASSUME NEW p \in Procs, Kill(p) PROVE TypeInv'
  <2>1. At(p) # "idle" /\ "clean" \in Labels \ {"flush"} /\ Goto(p, "clean")
    BY <1>5 DEF Kill, Labels
  <2>2. proc' \in [Pids -> Process] /\ orphans' \in [Units -> SUBSET Pids]
    BY <1>5 DEF Kill, Ended, TypeInv, TypeOK, Process
  <2> QED BY <1>5, <2>1, <2>2, GotoType DEF Kill, TypeInv, TypeOK
<1>6. ASSUME NEW p \in Procs, Flush(p) PROVE TypeInv'
  <2>1. /\ Unit(p) \in Units /\ ConfOf(Unit(p)) \in Loaded /\ inv[p].list # <<>>
        /\ inv[p].cache[ConfOf(Unit(p))] \in Status
    BY <1>6, UnitType DEF Flush, TypeInv, MemoryInv
  <2> DEFINE r == MovedTo(inv[p], inv[p].next)
  <2>2. /\ r \in Invocation /\ Remember(p, r)
        /\ r.list = inv[p].list /\ r.cache = inv[p].cache
    <3>1. inv[p] \in Invocation /\ inv[p].next \in Labels
      BY DEF TypeInv, TypeOK, Invocation
    <3> QED BY <1>6, <3>1, MovedToType DEF Flush, Goto
  <2> HIDE DEF r
  <2>3. inv' \in [Procs -> Invocation] /\ MemoryInv'
    BY <2>1, <2>2, MemoryType DEF Unit
  <2> QED BY <1>6, <2>1, <2>3 DEF Flush, TypeInv, TypeOK
<1>7. ASSUME NEW p \in Procs, Spawn(p) PROVE TypeInv'
  <2>1. PICK i \in Pids :
            /\ proc' = [proc EXCEPT ![i] = [st |-> "run", unit |-> Unit(p), parent |-> p]]
            /\ Remember(p, WithPid(inv[p], i, "record"))
    BY <1>7 DEF Spawn
  <2> DEFINE r == WithPid(inv[p], i, "record")
  <2>2. Unit(p) \in Units /\ inv[p].list # <<>>
    BY <1>7, UnitType DEF Spawn, TypeInv, MemoryInv
  <2>3. /\ r \in Invocation /\ Remember(p, r)
        /\ r.list = inv[p].list /\ r.at = "record"
    <3>1. inv[p] \in Invocation /\ "record" \in Labels
      BY DEF TypeInv, TypeOK, Labels
    <3> QED BY <2>1, <3>1, WithPidType
  <2> HIDE DEF r
  <2>4. proc' \in [Pids -> Process]
    BY <2>1, <2>2 DEF TypeInv, TypeOK, Process
  <2> QED BY <1>7, <2>2, <2>3, <2>4, MemoryType DEF Spawn, TypeInv, TypeOK
<1>8. ASSUME NEW p \in Procs, Read(p) PROVE TypeInv'
  <2> DEFINE r == WithPid(inv[p], status[Unit(p)].main, "term")
  <2>1. status[Unit(p)].main \in Pids \cup {None} /\ inv[p].list # <<>>
    BY <1>8, UnitType DEF Read, TypeInv, TypeOK, Status, MemoryInv
  <2>2. /\ r \in Invocation /\ Remember(p, r)
        /\ r.list = inv[p].list /\ r.at = "term"
    <3>1. inv[p] \in Invocation /\ "term" \in Labels
      BY DEF TypeInv, TypeOK, Labels
    <3> QED BY <1>8, <2>1, <3>1, WithPidType DEF Read
  <2> HIDE DEF r
  <2> QED BY <1>8, <2>1, <2>2, MemoryType DEF Read, TypeInv, TypeOK
<1>9. ASSUME NEW p \in Procs, SpawnFails(p) \/ Record(p) \/ Clean(p) \/ Inactive(p) PROVE TypeInv'
  <2>1. At(p) # "idle"
    BY <1>9 DEF SpawnFails, Record, Clean, Inactive
  <2>2. Known(p) \in Status /\ inv[p].pid \in Pids \cup {None}
    BY <2>1, KnownType DEF TypeInv, TypeOK, Invocation
  <2>3. /\ [Known(p) EXCEPT !.state = "failed"] \in Status
        /\ [Known(p) EXCEPT !.state = "inactive"] \in Status
        /\ [Known(p) EXCEPT !.main = None] \in Status
        /\ [state |-> "active", main |-> inv[p].pid] \in Status
    BY <2>2 DEF Status, States
  <2>4. \E new \in Status, l \in Labels : WriteStatus(p, new, l)
    BY <1>9, <2>3 DEF SpawnFails, Record, Clean, Inactive, Labels
  <2>5. /\ inv' \in [Procs -> Invocation] /\ MemoryInv'
        /\ status' \in [Units -> Status]
    BY <2>1, <2>4, WriteType
  <2> QED BY <1>9, <2>5 DEF SpawnFails, Record, Clean, Inactive, TypeInv, TypeOK
<1>10. ASSUME NEW p \in Procs, Crash(p) PROVE TypeInv'
  <2>1. Idle \in Invocation /\ Idle.at = "idle" /\ Remember(p, Idle)
    BY <1>10 DEF Crash, Idle, Invocation, Labels
  <2>2. lock' \in [Units -> Procs \cup {None}]
    BY <1>10 DEF Crash, TypeInv, TypeOK
  <2>3. proc' \in [Pids -> Process] /\ orphans' \in [Units -> SUBSET Pids]
    BY <1>10 DEF Crash, Orphaned, InFlight, TypeInv, TypeOK, Process
  <2> QED BY <1>10, <2>1, <2>2, <2>3, MemoryType DEF Crash, TypeInv, TypeOK
<1>11. ASSUME NEW i \in Pids, ProcessEnds(i) \/ Reap(i) PROVE TypeInv'
  <2>1. proc' \in [Pids -> Process] /\ orphans' \in [Units -> SUBSET Pids]
    BY <1>11 DEF ProcessEnds, Reap, Ended, Reaped, NoProcess, TypeInv, TypeOK, Process
  <2> QED BY <1>11, <2>1 DEF ProcessEnds, Reap, TypeInv, TypeOK, MemoryInv, At, Unit
<1>12. ASSUME UNCHANGED vars PROVE TypeInv'
  BY <1>12 DEF vars, TypeInv, TypeOK, MemoryInv, At, Unit
<1> QED BY <1>1, <1>2, <1>3, <1>4, <1>5, <1>6, <1>7, <1>8, <1>9, <1>10, <1>11, <1>12
        DEF Next, UnitStep

\* The types, for any number of units, invocations and process ids; whatever list
\* an invocation is given, it has a unit to work on until it ends.
THEOREM TypeCorrectness == Spec => []TypeOK
<1>1. TypeInv => TypeOK
  BY DEF TypeInv
<1> QED BY <1>1, TypeInvInit, TypeInvStep, PTL DEF Spec

-----------------------------------------------------------------------------

\* Who has the lock of a unit is at that unit, between Lock and Unlock; where a
\* write of the status file leads to is in there, too.
HeldInv == \A p \in Procs :
    /\ \A u \in Units : lock[u] = p => At(p) \notin {"idle", "lock", "done"} /\ Unit(p) = u
    /\ At(p) = "flush" => inv[p].next \in {"unlock", "inactive", "rmdirs"}

\* An invocation goes on with its unit and keeps its lock.
LEMMA HeldStays ==
    ASSUME TypeInv, HeldInv, NEW p \in Procs, UNCHANGED lock,
           NEW r \in Invocation, Remember(p, r), r.list = inv[p].list,
           r.at \notin {"idle", "lock", "done"},
           r.at = "flush" => r.next \in {"unlock", "inactive", "rmdirs"}
    PROVE  HeldInv'
BY DEF TypeInv, TypeOK, HeldInv, At, Unit, Remember

\* An invocation that holds no lock goes anywhere but to a write.
LEMMA HeldNothing ==
    ASSUME TypeInv, HeldInv, NEW p \in Procs, \A u \in Units : lock'[u] # p,
           \A u \in Units : lock'[u] = lock[u] \/ lock'[u] = None,
           NEW r \in Invocation, Remember(p, r), r.at # "flush"
    PROVE  HeldInv'
<1>1. None \notin Procs
  BY BatchAssumption
<1> QED BY <1>1 DEF TypeInv, TypeOK, HeldInv, At, Unit, Remember

LEMMA HeldInvStep == TypeInv /\ HeldInv /\ [Next]_vars => HeldInv'
<1> SUFFICES ASSUME TypeInv, HeldInv, [Next]_vars PROVE HeldInv'
  OBVIOUS
<1> USE DEF files
<1>1. /\ inv \in [Procs -> Invocation] /\ inv' \in [Procs -> Invocation]
      /\ lock \in [Units -> Procs \cup {None}]
      /\ None \notin Procs
  BY TypeInvStep, BatchAssumption DEF TypeInv, TypeOK
<1> USE DEF Goto
<1>2. ASSUME NEW p \in Procs, Begin(p) \/ LockFails(p) \/ Advance(p) PROVE HeldInv'
  <2>1. At(p) \in {"idle", "lock", "done"} /\ UNCHANGED lock
    BY <1>2 DEF Begin, LockFails, Advance
  <2>2. PICK r : Remember(p, r) /\ r.at # "flush"
    <3>1. CASE Begin(p)
      <4>1. PICK o \in Ops, l \in Lists :
                Remember(p, [Idle EXCEPT !.at = "lock", !.op = o, !.list = l])
        BY <3>1 DEF Begin
      <4>2. [Idle EXCEPT !.at = "lock", !.op = o, !.list = l].at # "flush"
        BY DEF Idle
      <4> QED BY <4>1, <4>2
    <3>2. CASE LockFails(p)
      <4>1. MovedTo(inv[p], "done").at # "flush"
        BY <1>1, MovedToType DEF Labels
      <4> QED BY <3>2, <4>1 DEF LockFails
    <3>3. CASE Advance(p)
      <4>1. Idle.at # "flush"
        BY DEF Idle
      <4>2. AtNextUnit(inv[p]).at # "flush"
        BY <1>1 DEF AtNextUnit, Invocation
      <4> QED BY <3>3, <4>1, <4>2 DEF Advance
    <3> QED BY <1>2, <3>1, <3>2, <3>3
  <2>3. \A u \in Units : lock[u] # p
    BY <2>1 DEF HeldInv
  <2>4. r \in Invocation
    BY <1>1, <2>2, Remembers
  <2> QED BY <1>1, <2>1, <2>2, <2>3, <2>4, HeldNothing
<1>3. ASSUME NEW p \in Procs, Unlock(p) \/ Crash(p) PROVE HeldInv'
  <2>1. /\ Remember(p, Idle) \/ Remember(p, MovedTo(inv[p], "done"))
        /\ Idle.at # "flush" /\ MovedTo(inv[p], "done").at # "flush"
    BY <1>1, <1>3, MovedToType DEF Unlock, Crash, Idle, Labels
  <2>2. \A u \in Units : lock'[u] # p /\ (lock'[u] = lock[u] \/ lock'[u] = None)
    BY <1>1, <1>3 DEF Unlock, Crash, HeldInv
  <2>3. Remember(p, inv'[p]) /\ inv'[p].at # "flush"
    BY <2>1, Remembers
  <2> QED BY <1>1, <2>2, <2>3, HeldNothing
<1>4. ASSUME NEW p \in Procs, Lock(p) PROVE HeldInv'
  <2>1. At(p) = "lock" /\ lock' = [lock EXCEPT ![Unit(p)] = p] /\ lock[Unit(p)] = None
    BY <1>4 DEF Lock
  <2>2. PICK l \in {"check", "read", "isactive"} : Remember(p, MovedTo(inv[p], l))
    BY <1>4 DEF Lock
  <2>3. \A u \in Units : lock[u] # p
    BY <2>1 DEF HeldInv
  <2>4. /\ inv'[p].at = l /\ inv'[p].list = inv[p].list
        /\ \A q \in Procs \ {p} : inv'[q] = inv[q]
    BY <1>1, <2>2, Remembers, MovedToType DEF Labels
  <2>5. \A q \in Procs \ {p}, u \in Units : lock'[u] = q => lock[u] = q
    BY <1>1, <2>1
  <2>6. \A u \in Units : lock'[u] = p => u = Unit(p)
    BY <1>1, <2>1, <2>3
  <2> QED BY <2>4, <2>5, <2>6 DEF HeldInv, At, Unit
<1>5. ASSUME NEW p \in Procs,
             ActiveUnderLock(p) \/ Check(p) \/ Dirs(p) \/ Pre(p) \/ Spawn(p) \/ Read(p)
               \/ Term(p) \/ Vanish(p) \/ Kill(p) \/ RmDirs(p)
      PROVE  HeldInv'
  <2> DEFINE Inside == Labels \ {"idle", "lock", "done", "flush"}
  <2>1. PICK l \in Inside, i \in Pids \cup {None} :
            \/ Remember(p, MovedTo(inv[p], l))
            \/ Remember(p, WithPid(inv[p], i, l))
    <3>1. CASE Spawn(p)
      BY <3>1 DEF Spawn, Labels
    <3>2. CASE Read(p)
      <4>1. status[Unit(p)].main \in Pids \cup {None}
        BY <3>2, UnitType DEF Read, TypeInv, TypeOK, Status
      <4> QED BY <3>2, <4>1 DEF Read, Labels
    <3>3. CASE ActiveUnderLock(p) \/ Check(p) \/ Dirs(p) \/ Pre(p) \/ Term(p) \/ Vanish(p)
                 \/ Kill(p) \/ RmDirs(p)
      BY <3>3 DEF ActiveUnderLock, Check, Dirs, Pre, Term, Vanish, Kill, RmDirs, Labels
    <3> QED BY <1>5, <3>1, <3>2, <3>3
  <2>2. /\ Remember(p, inv'[p]) /\ inv'[p].list = inv[p].list
        /\ inv'[p].at \notin {"idle", "lock", "done", "flush"}
    <3> inv[p] \in Invocation /\ l \in Labels
      BY <1>1
    <3>1. /\ MovedTo(inv[p], l).at = l /\ MovedTo(inv[p], l).list = inv[p].list
          /\ WithPid(inv[p], i, l).at = l /\ WithPid(inv[p], i, l).list = inv[p].list
      BY MovedToType, WithPidType
    <3>2. inv'[p] \in {MovedTo(inv[p], l), WithPid(inv[p], i, l)} /\ Remember(p, inv'[p])
      BY <1>1, <2>1 DEF Remember
    <3> QED BY <3>1, <3>2
  <2>3. UNCHANGED lock
    BY <1>5 DEF ActiveUnderLock, Check, Dirs, Pre, Spawn, Read, Term, Vanish, Kill, RmDirs
  <2> QED BY <1>1, <2>2, <2>3, HeldStays
<1>6. ASSUME NEW p \in Procs, SpawnFails(p) \/ Record(p) \/ Clean(p) \/ Inactive(p) PROVE HeldInv'
  <2>1. Unit(p) \in Units /\ ConfOf(Unit(p)) \in Loaded /\ Known(p) \in Status
        /\ inv[p].pid \in Pids \cup {None}
    BY <1>1, <1>6, UnitType, KnownType DEF SpawnFails, Record, Clean, Inactive, Invocation
  <2>2. /\ [Known(p) EXCEPT !.state = "failed"] \in Status
        /\ [Known(p) EXCEPT !.state = "inactive"] \in Status
        /\ [Known(p) EXCEPT !.main = None] \in Status
        /\ [state |-> "active", main |-> inv[p].pid] \in Status
    BY <2>1 DEF Status, States
  <2>3. PICK new \in Status, l \in {"unlock", "inactive", "rmdirs"} :
            Remember(p, WithStatus(inv[p], ConfOf(Unit(p)), new, l))
    BY <1>6, <2>2 DEF SpawnFails, Record, Clean, Inactive, WriteStatus
  <2>4. /\ Remember(p, inv'[p]) /\ inv'[p].list = inv[p].list
        /\ inv'[p].at = "flush" /\ inv'[p].next \in {"unlock", "inactive", "rmdirs"}
    <3> DEFINE r == WithStatus(inv[p], ConfOf(Unit(p)), new, l)
    <3> inv[p] \in Invocation /\ l \in Labels
      BY <1>1 DEF Labels
    <3>1. r.at = "flush" /\ r.next = l /\ r.list = inv[p].list
      BY <2>1, WithStatusType
    <3>2. inv'[p] = r /\ Remember(p, inv'[p])
      BY <1>1, <2>3 DEF Remember
    <3> QED BY <3>1, <3>2
  <2>5. UNCHANGED lock
    BY <1>6 DEF SpawnFails, Record, Clean, Inactive
  <2> QED BY <1>1, <2>4, <2>5, HeldStays
<1>7. ASSUME NEW p \in Procs, Flush(p) PROVE HeldInv'
  <2>1. inv[p].next \in {"unlock", "inactive", "rmdirs"}
    BY <1>7 DEF Flush, HeldInv
  <2>2. /\ Remember(p, inv'[p]) /\ inv'[p].list = inv[p].list
        /\ inv'[p].at \in {"unlock", "inactive", "rmdirs"}
    BY <1>1, <1>7, <2>1, Remembers, MovedToType DEF Flush, Labels
  <2> QED BY <1>1, <1>7, <2>2, HeldStays DEF Flush
<1>8. ASSUME UNCHANGED <<inv, lock>> PROVE HeldInv'
  BY <1>8 DEF HeldInv, At, Unit
<1>9. ASSUME NEW i \in Pids, ProcessEnds(i) \/ Reap(i) PROVE HeldInv'
  BY <1>8, <1>9 DEF ProcessEnds, Reap
<1> QED BY <1>2, <1>3, <1>4, <1>5, <1>6, <1>7, <1>8, <1>9 DEF Next, UnitStep, vars

\* Command lines with overlapping lists cannot block each other: whoever waits
\* for the lock of a unit holds none, whatever the lists and however many.
THEOREM NoHoldAndWait == Spec => []WaitsEmptyHanded
<1>1. Init => HeldInv
  BY BatchAssumption DEF Init, HeldInv, At, Idle
<1>2. TypeInv /\ HeldInv => WaitsEmptyHanded
  BY DEF HeldInv, WaitsEmptyHanded
<1> QED BY <1>1, <1>2, TypeInvInit, TypeInvStep, HeldInvStep, PTL DEF Spec

-----------------------------------------------------------------------------
(* Whom a stop kills, where no unit is an instance of a template and no    *)
(* process id is given out again.                                          *)

\* Each unit has a file of its own, and hence a status map of its own in memory.
OwnFiles == Instances = {}

\* Nobody, the processes of unit u, and those that are gone for good.
Mine(u) == {None} \cup {i \in Pids : proc[i].st = "past" \/ proc[i].unit = u}

\* What the status file of a unit or a status map in memory names was a process of that
\* unit, and so is the process an invocation is about to record or to signal.
OwnInv == /\ \A u \in Units : status[u].main \in Mine(u)
          /\ \A p \in Procs :
                /\ \A u \in Units : inv[p].cache[u].main \in Mine(u)
                /\ At(p) \in {"record", "term", "vanish", "kill"} => inv[p].pid \in Mine(Unit(p))

LEMMA OwnInvInit == Init => OwnInv
BY DEF Init, OwnInv, Mine, At, Idle, Loaded, NoCache, Empty

\* A process of a unit stays one, or is gone for good.
LEMMA MineStays ==
    ASSUME OwnFiles, ~ Reuse, TypeInv, [Next]_vars, NEW u \in Units
    PROVE  Mine(u) \subseteq Mine(u)'
<1> USE DEF Mine
<1>1. UNCHANGED proc => Mine(u) \subseteq Mine(u)'
  OBVIOUS
<1>2. ASSUME NEW p \in Procs, Spawn(p) PROVE Mine(u) \subseteq Mine(u)'
  <2>1. PICK i \in Pids : /\ proc[i] = NoProcess
                          /\ proc' = [proc EXCEPT ![i] = [st |-> "run", unit |-> Unit(p), parent |-> p]]
    BY <1>2 DEF Spawn
  <2>2. proc[i].st # "past" /\ proc[i].unit # u
    BY <2>1, BatchAssumption DEF NoProcess
  <2>3. \A k \in Pids \ {i} : proc'[k] = proc[k]
    BY <2>1 DEF TypeInv, TypeOK
  <2> QED BY <2>2, <2>3
<1>3. ASSUME NEW i \in Pids, proc[i].st # "past", Ended(i) PROVE Mine(u) \subseteq Mine(u)'
  <2>1. \A k \in Pids : proc'[k].unit = proc[k].unit /\ (k # i => proc'[k] = proc[k])
    BY <1>3 DEF Ended, TypeInv, TypeOK, Process
  <2> QED BY <1>3, <2>1
<1>4. ASSUME NEW p \in Procs, Kill(p) PROVE Mine(u) \subseteq Mine(u)'
  <2>1. inv[p].pid \in Pids \cup {None}
    BY DEF TypeInv, TypeOK, Invocation
  <2> QED BY <1>1, <1>3, <1>4, <2>1 DEF Kill, Exists
<1>5. ASSUME NEW i \in Pids, Reap(i) PROVE Mine(u) \subseteq Mine(u)'
  BY <1>5 DEF Reap, Reaped, NoProcess, TypeInv, TypeOK
<1>6. ASSUME NEW p \in Procs, proc' = Orphaned(p) PROVE Mine(u) \subseteq Mine(u)'
  BY <1>6 DEF Orphaned, TypeInv, TypeOK, Process
<1>7. ASSUME NEW p \in Procs, Begin(p) \/ Advance(p) \/ Crash(p) PROVE Mine(u) \subseteq Mine(u)'
  BY <1>1, <1>6, <1>7 DEF Begin, Advance, Crash
<1>8. ASSUME NEW p \in Procs,
             \/ Lock(p) \/ LockFails(p) \/ ActiveUnderLock(p) \/ Flush(p) \/ Check(p)
             \/ Dirs(p) \/ Pre(p) \/ SpawnFails(p) \/ Record(p) \/ Read(p)
             \/ Term(p) \/ Vanish(p) \/ Clean(p) \/ Inactive(p) \/ RmDirs(p)
             \/ Unlock(p)
      PROVE  Mine(u) \subseteq Mine(u)'
  <2>1. UNCHANGED proc
    BY <1>8 DEF Lock, LockFails, ActiveUnderLock, Flush, Check, Dirs, Pre, SpawnFails, Record,
                Read, Term, Vanish, Clean, Inactive, RmDirs, Unlock
  <2> QED BY <1>1, <2>1
<1>9. ASSUME UNCHANGED vars PROVE Mine(u) \subseteq Mine(u)'
  BY <1>1, <1>9 DEF vars
<1>10. ASSUME NEW i \in Pids, ProcessEnds(i) PROVE Mine(u) \subseteq Mine(u)'
  BY <1>3, <1>10 DEF ProcessEnds
<1> QED BY <1>2, <1>4, <1>5, <1>7, <1>8, <1>9, <1>10 DEF Next, UnitStep

\* A step of one invocation, and what it has to keep.
LEMMA OwnKept ==
    ASSUME OwnInv, TypeInv, NEW p \in Procs, \A u \in Units : Mine(u) \subseteq Mine(u)',
           NEW r, Remember(p, r),
           \A u \in Units : status'[u].main \in Mine(u),
           \A u \in Units : r.cache[u].main \in Mine(u),
           r.at \in {"record", "term", "vanish", "kill"} =>
              \E u \in Units : Head(r.list) = u /\ r.pid \in Mine(u)'
    PROVE  OwnInv'
<1>1. inv'[p] = r /\ \A q \in Procs \ {p} : inv'[q] = inv[q]
  BY Remembers
<1>2. ASSUME NEW q \in Procs \ {p}, At(q) \in {"record", "term", "vanish", "kill"}
      PROVE  Unit(q) \in Units
  BY <1>2, UnitType
<1> QED BY <1>1, <1>2 DEF OwnInv, At, Unit

LEMMA OwnInvStep == OwnFiles /\ ~ Reuse /\ TypeInv /\ HeldInv /\ OwnInv /\ [Next]_vars => OwnInv'
<1> SUFFICES ASSUME OwnFiles, ~ Reuse, TypeInv, HeldInv, OwnInv, [Next]_vars PROVE OwnInv'
  OBVIOUS
<1> USE DEF files
<1>1. \A u \in Units : Mine(u) \subseteq Mine(u)' /\ None \in Mine(u)
  BY MineStays DEF Mine
<1>2. \A u \in Units : ConfOf(u) = u /\ u \in Loaded
  BY DEF OwnFiles, ConfOf, Loaded
<1>3. /\ inv \in [Procs -> Invocation] /\ status \in [Units -> Status]
      /\ \A u \in Units : Idle.cache[u].main \in Mine(u)
  BY <1>1, <1>2 DEF TypeInv, TypeOK, Idle, NoCache
<1>4. ASSUME NEW p \in Procs, At(p) # "idle" PROVE Unit(p) \in Units
  BY <1>4, UnitType
<1>5. ASSUME NEW p \in Procs, Begin(p) \/ Crash(p) PROVE OwnInv'
  <2>1. PICK r : /\ Remember(p, r) /\ r.cache = Idle.cache /\ r.at \in {"idle", "lock"}
    <3>1. CASE Crash(p)
      BY <3>1 DEF Crash, Idle
    <3>2. CASE Begin(p)
      <4>1. PICK o \in Ops, l \in Lists :
                Remember(p, [Idle EXCEPT !.at = "lock", !.op = o, !.list = l])
        BY <3>2 DEF Begin
      <4>2. [Idle EXCEPT !.at = "lock", !.op = o, !.list = l].cache = Idle.cache
            /\ [Idle EXCEPT !.at = "lock", !.op = o, !.list = l].at = "lock"
        BY DEF Idle
      <4> QED BY <4>1, <4>2
    <3> QED BY <1>5, <3>1, <3>2
  <2>2. UNCHANGED status
    BY <1>5 DEF Begin, Crash
  <2> QED BY <1>1, <1>3, <2>1, <2>2, OwnKept DEF OwnInv
<1>6. ASSUME NEW p \in Procs, Advance(p) PROVE OwnInv'
  <2>1. PICK r : Remember(p, r) /\ r.at \in {"idle", "lock"} /\ r.cache \in {Idle.cache, inv[p].cache}
    <3>1. AtNextUnit(inv[p]).at = "lock" /\ AtNextUnit(inv[p]).cache = inv[p].cache
      BY <1>3 DEF AtNextUnit, Invocation
    <3>2. Idle.at = "idle"
      BY DEF Idle
    <3> QED BY <1>6, <3>1, <3>2 DEF Advance
  <2>2. UNCHANGED status
    BY <1>6 DEF Advance
  <2> QED BY <1>1, <1>3, <2>1, <2>2, OwnKept DEF OwnInv
\* A step to a label before which there is no process id, or one known as before.
<1>7. ASSUME NEW p \in Procs, NEW l \in Labels, Goto(p, l), At(p) # "idle",
             \/ l \notin {"record", "term", "vanish", "kill"}
             \/ At(p) \in {"record", "term", "vanish", "kill"},
             \A u \in Units : status'[u].main \in Mine(u)
      PROVE  OwnInv'
  <2> DEFINE r == MovedTo(inv[p], l)
  <2>1. /\ r.at = l /\ r.list = inv[p].list /\ r.cache = inv[p].cache /\ r.pid = inv[p].pid
    BY <1>3 DEF MovedTo, Invocation
  <2>2. Remember(p, r)
    BY <1>7 DEF Goto
  <2>3. Head(r.list) = Unit(p) /\ Unit(p) \in Units
    BY <1>4, <1>7, <2>1 DEF Unit
  <2> HIDE DEF r
  <2> QED BY <1>1, <1>7, <2>1, <2>2, <2>3, OwnKept DEF OwnInv
<1>8. ASSUME NEW p \in Procs,
             \/ Lock(p) \/ LockFails(p) \/ ActiveUnderLock(p) \/ Check(p) \/ Dirs(p) \/ Pre(p)
             \/ Term(p) \/ Vanish(p) \/ Kill(p) \/ RmDirs(p) \/ Unlock(p)
      PROVE  OwnInv'
  <2>1. UNCHANGED status /\ At(p) # "idle"
    BY <1>8 DEF Lock, LockFails, ActiveUnderLock, Check, Dirs, Pre, Term, Vanish, Kill, RmDirs, Unlock
  <2>2. PICK l \in Labels :
            /\ Goto(p, l)
            /\ \/ l \notin {"record", "term", "vanish", "kill"}
               \/ At(p) \in {"record", "term", "vanish", "kill"}
    BY <1>8 DEF Lock, LockFails, ActiveUnderLock, Check, Dirs, Pre, Term, Vanish, Kill, RmDirs,
                Unlock, Labels
  <2> QED BY <1>7, <2>1, <2>2 DEF OwnInv
<1>9. ASSUME NEW p \in Procs, Flush(p) PROVE OwnInv'
  <2>1. /\ At(p) # "idle" /\ Goto(p, inv[p].next) /\ inv[p].next \in Labels
        /\ status' = [status EXCEPT ![Unit(p)] = inv[p].cache[ConfOf(Unit(p))]]
    BY <1>3, <1>9 DEF Flush, Invocation
  <2>2. \A u \in Units : status'[u].main \in Mine(u)
    BY <1>2, <1>3, <1>4, <2>1 DEF OwnInv
  <2>3. inv[p].next \notin {"record", "term", "vanish", "kill"}
    BY <1>9 DEF Flush, HeldInv
  <2> QED BY <1>7, <2>1, <2>2, <2>3
<1>10. ASSUME NEW p \in Procs, Spawn(p) PROVE OwnInv'
  <2>1. PICK i \in Pids :
            /\ proc' = [proc EXCEPT ![i] = [st |-> "run", unit |-> Unit(p), parent |-> p]]
            /\ Remember(p, WithPid(inv[p], i, "record"))
    BY <1>10 DEF Spawn
  <2> DEFINE r == WithPid(inv[p], i, "record")
  <2>2. /\ r.list = inv[p].list /\ r.cache = inv[p].cache /\ r.pid = i
    BY <1>3 DEF WithPid, Invocation
  <2>3. PICK u \in Units : Head(r.list) = u /\ Unit(p) = u
    BY <1>4, <1>10, <2>2 DEF Spawn, Unit
  <2>4. i \in Mine(u)'
    BY <2>1, <2>3 DEF Mine, TypeInv, TypeOK
  <2>5. Remember(p, r) /\ UNCHANGED status
    BY <1>10, <2>1 DEF Spawn
  <2> HIDE DEF r
  <2> QED BY <1>1, <2>2, <2>3, <2>4, <2>5, OwnKept DEF OwnInv
<1>11. ASSUME NEW p \in Procs, Read(p) PROVE OwnInv'
  <2> DEFINE r == WithPid(inv[p], status[Unit(p)].main, "term")
  <2>1. Remember(p, r) /\ UNCHANGED status
    BY <1>11 DEF Read
  <2>2. /\ r.list = inv[p].list /\ r.cache = inv[p].cache /\ r.pid = status[Unit(p)].main
    BY <1>3 DEF WithPid, Invocation
  <2>3. PICK u \in Units : Head(r.list) = u /\ Unit(p) = u
    BY <1>4, <1>11, <2>2 DEF Read, Unit
  <2>4. r.pid \in Mine(u)'
    BY <1>1, <2>2, <2>3 DEF OwnInv
  <2> HIDE DEF r
  <2> QED BY <1>1, <2>1, <2>2, <2>3, <2>4, OwnKept DEF OwnInv
<1>12. ASSUME NEW p \in Procs, SpawnFails(p) \/ Record(p) \/ Clean(p) \/ Inactive(p) PROVE OwnInv'
  <2>1. PICK u \in Units : u = Unit(p) /\ ConfOf(u) = u /\ u \in Loaded
    BY <1>2, <1>4, <1>12 DEF SpawnFails, Record, Clean, Inactive
  <2>2. Known(p) \in Status /\ Known(p).main \in Mine(u)
    <3>1. Known(p) \in Status
      BY <1>12, KnownType DEF SpawnFails, Record, Clean, Inactive
    <3> QED BY <2>1, <3>1 DEF Known, OwnInv
  <2>3. PICK new : /\ new.main \in Mine(u)
                   /\ \E l : WriteStatus(p, new, l)
    <3>1. /\ [Known(p) EXCEPT !.state = "failed"].main = Known(p).main
          /\ [Known(p) EXCEPT !.state = "inactive"].main = Known(p).main
          /\ [Known(p) EXCEPT !.main = None].main = None
      BY <2>2 DEF Status
    <3>2. At(p) = "record" => inv[p].pid \in Mine(u)
      BY <2>1 DEF OwnInv
    <3>3. CASE SpawnFails(p)
      BY <2>2, <3>1, <3>3 DEF SpawnFails
    <3>4. CASE Record(p)
      BY <3>2, <3>4 DEF Record
    <3>5. CASE Clean(p)
      BY <1>1, <3>1, <3>5 DEF Clean
    <3>6. CASE Inactive(p)
      BY <2>2, <3>1, <3>6 DEF Inactive
    <3> QED BY <1>12, <3>3, <3>4, <3>5, <3>6
  <2>4. PICK l : WriteStatus(p, new, l)
    BY <2>3
  <2> DEFINE r == WithStatus(inv[p], u, new, l)
  <2>5. /\ Remember(p, r) /\ status' = [status EXCEPT ![u] = Empty]
    BY <2>1, <2>4 DEF WriteStatus
  <2>6. r.at = "flush" /\ r.cache = [inv[p].cache EXCEPT ![u] = new]
    BY <1>3 DEF WithStatus, Invocation
  <2>7. \A w \in Units : r.cache[w].main \in Mine(w)
    BY <1>2, <1>3, <2>3, <2>6 DEF OwnInv, Invocation
  <2>8. \A w \in Units : status'[w].main \in Mine(w)
    BY <1>1, <1>3, <2>5 DEF OwnInv, Empty
  <2> HIDE DEF r
  <2> QED BY <1>1, <2>5, <2>6, <2>7, <2>8, OwnKept
<1>13. ASSUME UNCHANGED <<inv, status>> PROVE OwnInv'
  <2>1. \A p \in Procs : At(p) # "idle" => Unit(p) \in Units
    BY <1>4
  <2> QED BY <1>1, <1>13, <2>1 DEF OwnInv, At, Unit
<1>14. ASSUME NEW i \in Pids, ProcessEnds(i) \/ Reap(i) PROVE OwnInv'
  BY <1>13, <1>14 DEF ProcessEnds, Reap
<1> QED BY <1>5, <1>6, <1>8, <1>9, <1>10, <1>11, <1>12, <1>13, <1>14 DEF Next, UnitStep, vars

\* "StopModules stops every matched unit", and no other: the process that gets SIGKILL is
\* one of the unit the invocation has come to, for command lines over any number of units
\* with files of their own, and process ids that are not reused.
THEOREM StopsNobodyElse == ASSUME OwnFiles, ~ Reuse PROVE Spec => StopsOnlyMatched
<1> DEFINE KillsOwn == \A p \in Procs : Kill(p) /\ Exists(inv[p].pid) => proc[inv[p].pid].unit = Unit(p)
<1>1. TypeInv /\ OwnInv => KillsOwn
  BY DEF OwnInv, KillsOwn, Kill, Exists, Mine
<1>2. Init => TypeInv /\ HeldInv /\ OwnInv
  BY TypeInvInit, OwnInvInit, BatchAssumption DEF Init, HeldInv, At, Idle
<1>3. TypeInv /\ HeldInv /\ OwnInv /\ [Next]_vars => TypeInv' /\ HeldInv' /\ OwnInv'
  BY TypeInvStep, HeldInvStep, OwnInvStep
<1> QED BY <1>1, <1>2, <1>3, PTL DEF Spec, StopsOnlyMatched

-----------------------------------------------------------------------------
(* One unit of a list as ServiceControl sees it, where no unit is an       *)
(* instance of a template.                                                 *)

\* Nothing of invocation p has to do with unit u yet.
Ahead(p, u) == /\ inv[p].cache[u] = NoCache
               /\ \A i \in Pids : proc[i].parent = p => proc[i].unit # u

\* An invocation knows nothing of the units it has not come to, and has no children
\* when it begins; what it does it was asked for; a process that is an orphan runs.
AheadInv ==
    /\ \A p \in Procs :
          /\ At(p) # "idle" => inv[p].op \in Ops
          /\ At(p) = "isactive" => inv[p].op = "restart"
          /\ At(p) = "idle" => \A i \in Pids : proc[i].parent # p
          /\ At(p) # "idle" => \A j \in 2..Len(inv[p].list) : Ahead(p, inv[p].list[j])
    /\ \A u \in Units : \A i \in orphans[u] : proc[i].st = "run"

AloneInv == TypeInv /\ HeldInv /\ AheadInv

\* The list of an invocation, position by position.
LEMMA ListFacts ==
    ASSUME TypeInv, NEW p \in Procs, At(p) # "idle"
    PROVE  /\ Len(inv[p].list) \in Nat \ {0} /\ Unit(p) = inv[p].list[1]
           /\ \A j \in 1..Len(inv[p].list) : inv[p].list[j] \in Units
           /\ \A j \in 2..Len(inv[p].list) : inv[p].list[j] # Unit(p)
<1>1. inv[p].list \in Matched
  BY UnitType
<1>2. inv[p].list \in Seq(Units) /\ inv[p].list # <<>>
  BY <1>1, MatchedList
<1>3. Len(inv[p].list) \in Nat \ {0} /\ Unit(p) = inv[p].list[1] /\ DOMAIN inv[p].list = 1..Len(inv[p].list)
  BY <1>2 DEF Unit
<1>4. \A j \in 1..Len(inv[p].list) : inv[p].list[j] \in Units
  BY <1>2
<1>5. \A j \in 2..Len(inv[p].list) : inv[p].list[1] # inv[p].list[j]
  BY <1>1, <1>3 DEF Matched
<1> QED BY <1>3, <1>4, <1>5

LEMMA AheadInvInit == Init => AheadInv
BY BatchAssumption DEF Init, AheadInv, At, Idle, NoProcess

\* No process gets a parent by a step, but the one that p starts for the unit it is at.
FewChildren(p) ==
    \A i \in Pids, q \in Procs :
        proc'[i].parent = q => \/ proc[i].parent = q /\ proc'[i].unit = proc[i].unit
                               \/ q = p /\ At(p) # "idle" /\ proc'[i].unit = Unit(p)

OrphansRun == \A u \in Units : \A i \in orphans[u] : proc[i].st = "run"

\* A step of an invocation that stays at its unit.
LEMMA AheadKept ==
    ASSUME TypeInv, AheadInv, NEW p \in Procs, At(p) # "idle",
           NEW r, Remember(p, r), r.list = inv[p].list, r.op = inv[p].op, r.at # "idle",
           r.at = "isactive" => r.op = "restart",
           \A u \in Units \ {Unit(p)} : r.cache[u] = inv[p].cache[u],
           FewChildren(p), OrphansRun'
    PROVE  AheadInv'
<1>1. inv'[p] = r /\ \A q \in Procs \ {p} : inv'[q] = inv[q]
  BY Remembers
<1>2. ASSUME NEW q \in Procs \ {p}
      PROVE  /\ At(q)' # "idle" => inv'[q].op \in Ops
             /\ At(q)' = "isactive" => inv'[q].op = "restart"
             /\ At(q)' = "idle" => \A i \in Pids : proc'[i].parent # q
             /\ At(q)' # "idle" => \A j \in 2..Len(inv'[q].list) : Ahead(q, inv[q].list[j])'
  BY <1>1 DEF AheadInv, At, Ahead, FewChildren
<1>3. /\ At(p)' # "idle" /\ inv'[p].op \in Ops
      /\ At(p)' = "isactive" => inv'[p].op = "restart"
  BY <1>1 DEF AheadInv, At
<1>4. ASSUME NEW j \in 2..Len(inv'[p].list) PROVE Ahead(p, inv[p].list[j])'
  <2> DEFINE v == inv[p].list[j]
  <2>1. j \in 2..Len(inv[p].list)
    BY <1>1
  <2>2. v \in Units \ {Unit(p)} /\ inv'[p].list[j] = v
    <3>1. Len(inv[p].list) \in Nat \ {0}
      BY ListFacts
    <3>2. j \in 1..Len(inv[p].list)
      BY <2>1, <3>1
    <3> QED BY <1>1, <2>1, <3>2, ListFacts
  <2>3. Ahead(p, v)
    BY <2>1 DEF AheadInv
  <2>4. inv'[p].cache[v] = NoCache
    BY <1>1, <2>2, <2>3 DEF Ahead
  <2>5. \A i \in Pids : proc'[i].parent = p => proc'[i].unit # v
    BY <2>2, <2>3 DEF Ahead, FewChildren
  <2> QED BY <2>2, <2>4, <2>5 DEF Ahead
<1> QED BY <1>1, <1>2, <1>3, <1>4 DEF AheadInv, OrphansRun

\* An invocation whose memory is made anew, or that goes on to its next unit.
LEMMA AheadOthers ==
    ASSUME TypeInv, AheadInv, NEW p \in Procs, NEW r, Remember(p, r), FewChildren(p), OrphansRun',
           r.at # "idle" => r.op \in Ops,
           r.at # "isactive",
           r.at = "idle" => \A i \in Pids : proc'[i].parent # p,
           r.at # "idle" => \A j \in 2..Len(r.list) : \E u \in Units :
                               /\ r.list[j] = u /\ r.cache[u] = NoCache
                               /\ \A i \in Pids : proc'[i].parent = p => proc'[i].unit # u
    PROVE  AheadInv'
<1>1. inv'[p] = r /\ \A q \in Procs \ {p} : inv'[q] = inv[q]
  BY Remembers
<1>2. ASSUME NEW q \in Procs \ {p}
      PROVE  /\ At(q)' # "idle" => inv'[q].op \in Ops
             /\ At(q)' = "isactive" => inv'[q].op = "restart"
             /\ At(q)' = "idle" => \A i \in Pids : proc'[i].parent # q
             /\ At(q)' # "idle" => \A j \in 2..Len(inv'[q].list) : Ahead(q, inv[q].list[j])'
  BY <1>1 DEF AheadInv, At, Ahead, FewChildren
<1>3. At(p)' # "idle" => \A j \in 2..Len(inv'[p].list) : Ahead(p, inv[p].list[j])'
  BY <1>1 DEF At, Ahead
<1> QED BY <1>1, <1>2, <1>3 DEF AheadInv, OrphansRun, At

AllFewChildren == \A p \in Procs : FewChildren(p)

\* What happens to the processes in the steps that start none.
LEMMA ProcessesKept ==
    ASSUME TypeInv, AheadInv
    PROVE  /\ UNCHANGED <<proc, orphans>> => AllFewChildren /\ OrphansRun'
           /\ \A i \in Pids : proc[i].st # "past" /\ Ended(i) => AllFewChildren /\ OrphansRun'
           /\ \A q \in Procs : proc' = Orphaned(q) =>
                 /\ AllFewChildren
                 /\ \A i \in Pids : proc'[i].parent # q /\ proc'[i].st = proc[i].st
           /\ \A i \in Pids : Reap(i) => AllFewChildren /\ OrphansRun'
<1> USE DEF AllFewChildren, FewChildren, OrphansRun
<1>0. None \notin Procs /\ OrphansRun /\ proc \in [Pids -> Process]
      /\ orphans \in [Units -> SUBSET Pids]
  BY BatchAssumption DEF AheadInv, TypeInv, TypeOK
<1>1. UNCHANGED <<proc, orphans>> => AllFewChildren /\ OrphansRun'
  BY <1>0
<1>2. ASSUME NEW i \in Pids, Ended(i) PROVE AllFewChildren /\ OrphansRun'
  <2>1. /\ \A k \in Pids : proc'[k].parent = proc[k].parent /\ proc'[k].unit = proc[k].unit
        /\ \A k \in Pids \ {i} : proc'[k] = proc[k]
    BY <1>0, <1>2 DEF Ended, Process
  <2>2. \A u \in Units : orphans'[u] = orphans[u] \ {i} /\ orphans[u] \subseteq Pids
    BY <1>0, <1>2 DEF Ended
  <2> QED BY <1>0, <2>1, <2>2
<1>3. ASSUME NEW q \in Procs, proc' = Orphaned(q)
      PROVE  /\ AllFewChildren
             /\ \A i \in Pids : proc'[i].parent # q /\ proc'[i].st = proc[i].st
  <2>1. \A i \in Pids :
            IF proc[i].parent = q
              THEN proc'[i].parent = None /\ proc'[i].unit = proc[i].unit /\ proc'[i].st = proc[i].st
              ELSE proc'[i] = proc[i]
    BY <1>0, <1>3 DEF Orphaned, Process
  <2> QED BY <1>0, <2>1
<1>4. ASSUME NEW i \in Pids, Reap(i) PROVE AllFewChildren /\ OrphansRun'
  <2>1. /\ proc'[i].parent = None
        /\ \A k \in Pids \ {i} : proc'[k] = proc[k]
    BY <1>0, <1>4 DEF Reap, Reaped, NoProcess
  <2>2. \A u \in Units : orphans'[u] = orphans[u] /\ i \notin orphans[u] /\ orphans[u] \subseteq Pids
    BY <1>0, <1>4 DEF Reap
  <2> QED BY <1>0, <2>1, <2>2
<1> QED BY <1>1, <1>2, <1>3, <1>4

LEMMA AheadInvStep == OwnFiles /\ AloneInv /\ [Next]_vars => AheadInv'
<1> SUFFICES ASSUME OwnFiles, AloneInv, [Next]_vars PROVE AheadInv'
  OBVIOUS
<1> USE DEF files
<1>0. TypeInv /\ HeldInv /\ AheadInv
  BY DEF AloneInv
<1>1. inv \in [Procs -> Invocation] /\ proc \in [Pids -> Process]
  BY <1>0 DEF TypeInv, TypeOK
<1>2. ASSUME NEW p \in Procs, Begin(p) PROVE AheadInv'
  <2>1. PICK o \in Ops, l \in Lists :
            Remember(p, [Idle EXCEPT !.at = "lock", !.op = o, !.list = l])
    BY <1>2 DEF Begin
  <2> DEFINE r == [Idle EXCEPT !.at = "lock", !.op = o, !.list = l]
  <2>2. r.at = "lock" /\ r.op = o /\ r.list = l /\ r.cache = [c \in Loaded |-> NoCache]
    BY DEF Idle
  <2>3. \A j \in 2..Len(l) : l[j] \in Units
    <3>1. l \in Seq(Units)
      BY BatchAssumption, MatchedList
    <3> QED BY <3>1
  <2>4. \A i \in Pids : proc'[i].parent # p
    BY <1>0, <1>2 DEF Begin, AheadInv
  <2>5. FewChildren(p) /\ OrphansRun'
    BY <1>0, <1>2, ProcessesKept DEF AllFewChildren, Begin
  <2>6. \A u \in Units : r.cache[u] = NoCache
    BY <2>2 DEF Loaded
  <2>7. Remember(p, r)
    BY <2>1
  <2> HIDE DEF r
  <2>8. \A j \in 2..Len(r.list) : \E u \in Units :
            /\ r.list[j] = u /\ r.cache[u] = NoCache
            /\ \A i \in Pids : proc'[i].parent = p => proc'[i].unit # u
    BY <2>2, <2>3, <2>4, <2>6
  <2> QED BY <1>0, <2>2, <2>4, <2>5, <2>7, <2>8, AheadOthers
<1>3. ASSUME NEW p \in Procs, Advance(p) PROVE AheadInv'
  <2>1. At(p) = "done" /\ UNCHANGED orphans
    BY <1>3 DEF Advance
  <2>2. CASE Len(inv[p].list) > 1
    <3> DEFINE r == AtNextUnit(inv[p])
    <3>1. Remember(p, r) /\ UNCHANGED proc
      BY <1>3, <2>2 DEF Advance
    <3>2. r.at = "lock" /\ r.op = inv[p].op /\ r.list = Tail(inv[p].list) /\ r.cache = inv[p].cache
      BY <1>1 DEF AtNextUnit, Invocation
    <3>3. FewChildren(p) /\ OrphansRun'
      BY <1>0, <2>1, <3>1, ProcessesKept DEF AllFewChildren
    <3>4. inv[p].list \in Seq(Units)
      BY <1>0, <2>1, UnitType, MatchedList
    <3>5. ASSUME NEW j \in 2..Len(r.list)
          PROVE  \E u \in Units :
                     /\ r.list[j] = u /\ r.cache[u] = NoCache
                     /\ \A i \in Pids : proc'[i].parent = p => proc'[i].unit # u
      <4>1. j + 1 \in 2..Len(inv[p].list) /\ r.list[j] = inv[p].list[j + 1]
        BY <2>2, <3>2, <3>4
      <4>2. inv[p].list[j + 1] \in Units
        BY <3>4, <4>1
      <4>3. Ahead(p, inv[p].list[j + 1])
        BY <1>0, <2>1, <4>1 DEF AheadInv
      <4> QED BY <3>1, <3>2, <4>1, <4>2, <4>3 DEF Ahead
    <3>6. inv[p].op \in Ops
      BY <1>0, <2>1 DEF AheadInv
    <3> HIDE DEF r
    <3> QED BY <1>0, <3>1, <3>2, <3>3, <3>5, <3>6, AheadOthers
  <2>3. CASE ~ Len(inv[p].list) > 1
    <3>1. Remember(p, Idle) /\ proc' = Orphaned(p) /\ Idle.at = "idle"
      BY <1>3, <2>3 DEF Advance, Idle
    <3>2. FewChildren(p) /\ \A i \in Pids : proc'[i].parent # p /\ proc'[i].st = proc[i].st
      BY <1>0, <3>1, ProcessesKept DEF AllFewChildren
    <3>3. OrphansRun'
      BY <1>0, <2>1, <3>2 DEF OrphansRun, AheadInv, TypeInv, TypeOK
    <3> QED BY <1>0, <3>1, <3>2, <3>3, AheadOthers
  <2> QED BY <2>2, <2>3
<1>4. ASSUME NEW p \in Procs, Crash(p) PROVE AheadInv'
  <2>1. Remember(p, Idle) /\ proc' = Orphaned(p) /\ Idle.at = "idle" /\ At(p) # "idle"
    BY <1>4, CrashAssumption DEF Crash, Idle
  <2>2. FewChildren(p) /\ \A i \in Pids : proc'[i].parent # p /\ proc'[i].st = proc[i].st
    BY <1>0, <2>1, ProcessesKept DEF AllFewChildren
  <2>3. \A u \in Units : orphans'[u] \subseteq orphans[u] \cup {i \in Pids : proc[i].st = "run"}
    BY <1>0, <1>4 DEF Crash, InFlight, TypeInv, TypeOK
  <2>4. OrphansRun'
    BY <1>0, <2>2, <2>3 DEF OrphansRun, AheadInv, TypeInv, TypeOK
  <2> QED BY <1>0, <2>1, <2>2, <2>4, AheadOthers
\* The steps that go to a label and change no map.
<1>5. ASSUME NEW p \in Procs, NEW l \in Labels, Goto(p, l), At(p) # "idle", l # "idle",
             l = "isactive" => inv[p].op = "restart", FewChildren(p), OrphansRun'
      PROVE  AheadInv'
  <2> DEFINE r == MovedTo(inv[p], l)
  <2>1. r.at = l /\ r.list = inv[p].list /\ r.op = inv[p].op /\ r.cache = inv[p].cache
    BY <1>1 DEF MovedTo, Invocation
  <2>2. Remember(p, r)
    BY <1>5 DEF Goto
  <2> HIDE DEF r
  <2> QED BY <1>0, <1>5, <2>1, <2>2, AheadKept
<1>6. ASSUME NEW p \in Procs, Lock(p) PROVE AheadInv'
  <2>1. inv[p].op \in {"start", "stop", "restart"} /\ At(p) = "lock"
    BY <1>0, <1>6, BatchAssumption DEF Lock, AheadInv
  <2>2. PICK l \in {"check", "read", "isactive"} :
            Goto(p, l) /\ (l = "isactive" => inv[p].op = "restart")
    BY <1>6, <2>1 DEF Lock
  <2> QED BY <1>0, <1>5, <1>6, <2>1, <2>2, ProcessesKept DEF AllFewChildren, Lock, Labels
<1>7. ASSUME NEW p \in Procs,
             \/ LockFails(p) \/ ActiveUnderLock(p) \/ Check(p) \/ Dirs(p) \/ Pre(p)
             \/ Term(p) \/ Vanish(p) \/ RmDirs(p) \/ Unlock(p)
      PROVE  AheadInv'
  <2>1. At(p) # "idle" /\ UNCHANGED <<proc, orphans>>
    BY <1>7 DEF LockFails, ActiveUnderLock, Check, Dirs, Pre, Term, Vanish, RmDirs, Unlock
  <2>2. PICK l \in Labels \ {"idle", "isactive"} : Goto(p, l)
    BY <1>7 DEF LockFails, ActiveUnderLock, Check, Dirs, Pre, Term, Vanish, RmDirs, Unlock, Labels
  <2> QED BY <1>0, <1>5, <2>1, <2>2, ProcessesKept DEF AllFewChildren
<1>8. ASSUME NEW p \in Procs, Kill(p) PROVE AheadInv'
  <2>1. At(p) # "idle" /\ Goto(p, "clean") /\ "clean" \in Labels
    BY <1>8 DEF Kill, Labels
  <2>2. FewChildren(p) /\ OrphansRun'
    <3>1. CASE Exists(inv[p].pid)
      <4>1. inv[p].pid \in Pids /\ proc[inv[p].pid].st # "past"
        BY <1>1, <3>1 DEF Exists, Invocation
      <4> QED BY <1>0, <1>8, <3>1, <4>1, ProcessesKept DEF AllFewChildren, Kill
    <3> QED BY <1>0, <1>8, <3>1, ProcessesKept DEF AllFewChildren, Kill
  <2> QED BY <1>5, <2>1, <2>2
<1>9. ASSUME NEW p \in Procs, Flush(p) PROVE AheadInv'
  <2>1. At(p) # "idle" /\ Goto(p, inv[p].next) /\ UNCHANGED <<proc, orphans>>
    BY <1>9 DEF Flush
  <2>2. inv[p].next \in {"unlock", "inactive", "rmdirs"}
    BY <1>0, <1>9 DEF Flush, HeldInv
  <2> QED BY <1>0, <1>5, <2>1, <2>2, ProcessesKept DEF AllFewChildren, Labels
<1>10. ASSUME NEW p \in Procs, Spawn(p) PROVE AheadInv'
  <2>1. PICK i \in Pids :
            /\ proc[i] = NoProcess
            /\ proc' = [proc EXCEPT ![i] = [st |-> "run", unit |-> Unit(p), parent |-> p]]
            /\ Remember(p, WithPid(inv[p], i, "record"))
    BY <1>10 DEF Spawn
  <2> DEFINE r == WithPid(inv[p], i, "record")
  <2>2. r.at = "record" /\ r.list = inv[p].list /\ r.op = inv[p].op /\ r.cache = inv[p].cache
    BY <1>1 DEF WithPid, Invocation
  <2>3. At(p) # "idle" /\ UNCHANGED orphans
    BY <1>10 DEF Spawn
  <2>4. /\ proc'[i].parent = p /\ proc'[i].unit = Unit(p) /\ proc'[i].st = "run"
        /\ \A k \in Pids \ {i} : proc'[k] = proc[k]
    BY <1>1, <2>1
  <2>5. FewChildren(p)
    BY <2>3, <2>4 DEF FewChildren
  <2>6. OrphansRun'
    BY <1>0, <2>3, <2>4 DEF OrphansRun, AheadInv, TypeInv, TypeOK
  <2> HIDE DEF r
  <2> QED BY <1>0, <2>1, <2>2, <2>3, <2>5, <2>6, AheadKept DEF r
<1>11. ASSUME NEW p \in Procs, Read(p) PROVE AheadInv'
  <2> DEFINE r == WithPid(inv[p], status[Unit(p)].main, "term")
  <2>1. r.at = "term" /\ r.list = inv[p].list /\ r.op = inv[p].op /\ r.cache = inv[p].cache
    BY <1>1 DEF WithPid, Invocation
  <2>2. At(p) # "idle" /\ UNCHANGED <<proc, orphans>> /\ Remember(p, r)
    BY <1>11 DEF Read
  <2>3. FewChildren(p) /\ OrphansRun'
    BY <1>0, <2>2, ProcessesKept DEF AllFewChildren
  <2> HIDE DEF r
  <2> QED BY <1>0, <2>1, <2>2, <2>3, AheadKept
<1>12. ASSUME NEW p \in Procs, SpawnFails(p) \/ Record(p) \/ Clean(p) \/ Inactive(p) PROVE AheadInv'
  <2>1. PICK new, l : WriteStatus(p, new, l)
    BY <1>12 DEF SpawnFails, Record, Clean, Inactive
  <2>2. At(p) # "idle" /\ UNCHANGED <<proc, orphans>>
    BY <1>12 DEF SpawnFails, Record, Clean, Inactive
  <2>3. PICK u \in Units : u = Unit(p) /\ ConfOf(u) = u
    BY <1>0, <2>2, UnitType DEF OwnFiles, ConfOf
  <2> DEFINE r == WithStatus(inv[p], u, new, l)
  <2>4. Remember(p, r)
    BY <2>1, <2>3 DEF WriteStatus
  <2>5. /\ r.at = "flush" /\ r.list = inv[p].list /\ r.op = inv[p].op
        /\ r.cache = [inv[p].cache EXCEPT ![u] = new]
    BY <1>1 DEF WithStatus, Invocation
  <2>6. \A v \in Units \ {Unit(p)} : r.cache[v] = inv[p].cache[v]
    BY <1>1, <2>3, <2>5 DEF Invocation
  <2>7. FewChildren(p) /\ OrphansRun'
    BY <1>0, <2>2, ProcessesKept DEF AllFewChildren
  <2> HIDE DEF r
  <2> QED BY <1>0, <2>2, <2>4, <2>5, <2>6, <2>7, AheadKept
\* The processes by themselves.
<1>13. ASSUME UNCHANGED inv, AllFewChildren, OrphansRun' PROVE AheadInv'
  <2>1. \A i \in Pids, q \in Procs :
            At(q) = "idle" /\ proc'[i].parent = q => proc[i].parent = q /\ proc'[i].unit = proc[i].unit
    BY <1>13 DEF AllFewChildren, FewChildren
  <2>2. \A i \in Pids, q \in Procs :
            At(q) # "idle" /\ proc'[i].parent = q /\ proc'[i].unit # Unit(q)
              => proc[i].parent = q /\ proc'[i].unit = proc[i].unit
    BY <1>13 DEF AllFewChildren, FewChildren
  <2>3. ASSUME NEW q \in Procs, At(q) # "idle", NEW j \in 2..Len(inv[q].list)
        PROVE  Ahead(q, inv[q].list[j])'
    <3>1. PICK v \in Units : v = inv[q].list[j] /\ v # Unit(q) /\ Ahead(q, v)
      <4>1. j \in 1..Len(inv[q].list)
        BY <1>0, <2>3, ListFacts
      <4> QED BY <1>0, <2>3, <4>1, ListFacts DEF AheadInv
    <3>2. inv'[q].list[j] = v /\ inv'[q].cache[v] = NoCache
      BY <1>13, <3>1 DEF Ahead
    <3>3. \A i \in Pids : proc'[i].parent = q => proc'[i].unit # v
      BY <2>2, <2>3, <3>1 DEF Ahead
    <3> QED BY <3>2, <3>3 DEF Ahead
  <2>4. ASSUME NEW q \in Procs
        PROVE  /\ At(q)' # "idle" => inv'[q].op \in Ops
               /\ At(q)' = "isactive" => inv'[q].op = "restart"
               /\ At(q)' = "idle" => \A i \in Pids : proc'[i].parent # q
               /\ At(q)' # "idle" => \A j \in 2..Len(inv'[q].list) : Ahead(q, inv[q].list[j])'
    <3>1. inv'[q] = inv[q] /\ (At(q)' = "idle" <=> At(q) = "idle")
      BY <1>13 DEF At
    <3>2. At(q)' # "idle" => \A j \in 2..Len(inv'[q].list) : Ahead(q, inv[q].list[j])'
      BY <2>3, <3>1
    <3>3. At(q)' = "idle" => \A i \in Pids : proc'[i].parent # q
      BY <1>0, <2>1, <3>1 DEF AheadInv
    <3> QED BY <1>0, <3>1, <3>2, <3>3 DEF AheadInv, At
  <2> QED BY <1>13, <2>4 DEF AheadInv, OrphansRun, At
<1>14. ASSUME NEW i \in Pids, ProcessEnds(i) \/ Reap(i) PROVE AheadInv'
  <2>1. UNCHANGED inv
    BY <1>14 DEF ProcessEnds, Reap
  <2>2. Reap(i) \/ (proc[i].st # "past" /\ Ended(i))
    BY <1>14 DEF ProcessEnds
  <2>3. AllFewChildren /\ OrphansRun'
    BY <1>0, <2>2, ProcessesKept
  <2> QED BY <1>13, <2>1, <2>3
<1>15. ASSUME UNCHANGED vars PROVE AheadInv'
  <2>1. AllFewChildren /\ OrphansRun'
    BY <1>0, <1>15, ProcessesKept DEF vars
  <2> QED BY <1>13, <1>15, <2>1 DEF vars
<1> QED BY <1>2, <1>3, <1>4, <1>6, <1>7, <1>8, <1>9, <1>10, <1>11, <1>12, <1>14, <1>15
        DEF Next, UnitStep

LEMMA AloneInvAlways == ASSUME OwnFiles PROVE Spec => []AloneInv
<1>1. Init => AloneInv
  BY TypeInvInit, AheadInvInit, BatchAssumption DEF Init, AloneInv, HeldInv, At, Idle
<1>2. AloneInv /\ [Next]_vars => AloneInv'
  BY TypeInvStep, HeldInvStep, AheadInvStep DEF AloneInv
<1> QED BY <1>1, <1>2, PTL DEF Spec

\* What unit u sees of the memory of the invocations, ...
Memory(u) == <<AtSeen(u), OpSeen(u), PidSeen(u), NextSeen(u), CacheSeen(u)>>

\* ... which does not change when an invocation moves that is at another unit ...
LEMMA SeenElsewhere ==
    ASSUME NEW p \in Procs, NEW u \in Units, \A q \in Procs \ {p} : inv'[q] = inv[q],
           ~ On(p, u), ~ On(p, u)'
    PROVE  UNCHANGED Memory(u) /\ \A q \in Procs : On(q, u)' <=> On(q, u)
<1>1. \A q \in Procs : /\ On(q, u)' <=> On(q, u)
                       /\ On(q, u) => inv'[q] = inv[q] /\ At(q)' = At(q)
  BY DEF On, At, Unit
<1> QED BY <1>1 DEF Memory, AtSeen, OpSeen, PidSeen, NextSeen, CacheSeen

\* ... and changes for one invocation when that one stays.
LEMMA SeenHere ==
    ASSUME NEW p \in Procs, NEW u \in Units, \A q \in Procs \ {p} : inv'[q] = inv[q],
           On(p, u), On(p, u)', ConfOf(u) = u
    PROVE  /\ \A q \in Procs : On(q, u)' <=> On(q, u)
           /\ AtSeen(u)[p] = At(p) /\ OpSeen(u)[p] = inv[p].op /\ PidSeen(u)[p] = inv[p].pid
           /\ NextSeen(u)[p] = inv[p].next /\ CacheSeen(u)[p] = inv[p].cache[u]
           /\ AtSeen(u)'    = [AtSeen(u) EXCEPT ![p] = inv'[p].at]
           /\ OpSeen(u)'    = [OpSeen(u) EXCEPT ![p] = inv'[p].op]
           /\ PidSeen(u)'   = [PidSeen(u) EXCEPT ![p] = inv'[p].pid]
           /\ NextSeen(u)'  = [NextSeen(u) EXCEPT ![p] = inv'[p].next]
           /\ CacheSeen(u)' = [CacheSeen(u) EXCEPT ![p] = inv'[p].cache[u]]
           /\ inv'[p].op = inv[p].op => UNCHANGED OpSeen(u)
           /\ inv'[p].pid = inv[p].pid => UNCHANGED PidSeen(u)
           /\ inv'[p].next = inv[p].next => UNCHANGED NextSeen(u)
           /\ inv'[p].cache[u] = inv[p].cache[u] => UNCHANGED CacheSeen(u)
<1>1. \A q \in Procs : On(q, u)' <=> On(q, u)
  BY DEF On, At, Unit
<1>2. \A q \in Procs \ {p} : At(q)' = At(q) /\ inv'[q] = inv[q]
  BY DEF At
<1>3. At(p)' = inv'[p].at
  BY DEF At
<1>4. /\ AtSeen(u)[p] = At(p) /\ OpSeen(u)[p] = inv[p].op /\ PidSeen(u)[p] = inv[p].pid
      /\ NextSeen(u)[p] = inv[p].next /\ CacheSeen(u)[p] = inv[p].cache[u]
  BY DEF AtSeen, OpSeen, PidSeen, NextSeen, CacheSeen
<1>5. AtSeen(u)' = [AtSeen(u) EXCEPT ![p] = inv'[p].at]
  BY <1>1, <1>2, <1>3 DEF AtSeen
<1>6. OpSeen(u)' = [OpSeen(u) EXCEPT ![p] = inv'[p].op]
  BY <1>1, <1>2 DEF OpSeen
<1>7. PidSeen(u)' = [PidSeen(u) EXCEPT ![p] = inv'[p].pid]
  BY <1>1, <1>2 DEF PidSeen
<1>8. NextSeen(u)' = [NextSeen(u) EXCEPT ![p] = inv'[p].next]
  BY <1>1, <1>2 DEF NextSeen
<1>9. CacheSeen(u)' = [CacheSeen(u) EXCEPT ![p] = inv'[p].cache[u]]
  BY <1>1, <1>2 DEF CacheSeen
<1>10. /\ inv'[p].op = inv[p].op => UNCHANGED OpSeen(u)
       /\ inv'[p].pid = inv[p].pid => UNCHANGED PidSeen(u)
       /\ inv'[p].next = inv[p].next => UNCHANGED NextSeen(u)
       /\ inv'[p].cache[u] = inv[p].cache[u] => UNCHANGED CacheSeen(u)
  BY <1>1, <1>2 DEF OpSeen, PidSeen, NextSeen, CacheSeen
<1> QED BY <1>1, <1>4, <1>5, <1>6, <1>7, <1>8, <1>9, <1>10

\* The processes look the same while they are and nobody comes or goes.
LEMMA ProcessesSame ==
    ASSUME NEW u \in Units, UNCHANGED proc, TypeInv, \A q \in Procs : On(q, u)' <=> On(q, u)
    PROVE  UNCHANGED ProcSeen(u)
<1>1. \A i \in Pids : proc[i].parent \in Procs \cup {None}
  BY DEF TypeInv, TypeOK, Process
<1> QED BY <1>1 DEF ProcSeen, ProcessSeen, Exists

\* A step of an invocation at its unit is seen by no other.
LEMMA OthersSeeNothing ==
    ASSUME AloneInv, NEW p \in Procs, NEW u \in Units \ {Unit(p)}, NEW r, Remember(p, r),
           At(p) # "idle", r.list = inv[p].list
    PROVE  /\ UNCHANGED Memory(u)
           /\ UNCHANGED proc => UNCHANGED ProcSeen(u)
<1>1. inv'[p] = r /\ \A q \in Procs \ {p} : inv'[q] = inv[q]
  BY Remembers DEF AloneInv
<1>2. ~ On(p, u) /\ ~ On(p, u)'
  BY <1>1 DEF On, Unit
<1> QED BY <1>1, <1>2, SeenElsewhere, ProcessesSame DEF AloneInv

USE DEF Each

\* The states of a process, of a unit, and of the service, as the unit sees them.
LEMMA SeenExists ==
    ASSUME TypeInv, NEW u \in Units, NEW i \in Pids \cup {None}
    PROVE  Alone(u)!Exists(i) <=> Exists(i)
BY BatchAssumption DEF Alone!Exists, Exists, ProcSeen, ProcessSeen

LEMMA SeenActive ==
    ASSUME TypeInv, NEW u \in Units
    PROVE  /\ Alone(u)!MainPid = status[u].main
           /\ Alone(u)!IsActive <=> Active(u)
<1>1. status[u] \in Status
  BY DEF TypeInv, TypeOK
<1>2. Alone(u)!MainPid = status[u].main
  BY DEF Alone!MainPid
<1>3. Alone(u)!Exists(status[u].main) <=> Exists(status[u].main)
  BY <1>1, SeenExists DEF Status
<1> QED BY <1>2, <1>3 DEF Alone!IsActive, Alone!ActiveState, Active

\* A step of an invocation at its unit, as that unit sees it.
LEMMA StepSeen ==
    ASSUME OwnFiles, AloneInv, NEW p \in Procs, NEW u \in Units, u = Unit(p), At(p) # "idle",
           NEW r, Remember(p, r), r.list = inv[p].list, r.at # "idle"
    PROVE  /\ AtSeen(u)[p] = At(p) /\ OpSeen(u)[p] = inv[p].op /\ PidSeen(u)[p] = inv[p].pid
           /\ NextSeen(u)[p] = inv[p].next /\ CacheSeen(u)[p] = inv[p].cache[u]
           /\ AtSeen(u)'    = [AtSeen(u) EXCEPT ![p] = r.at]
           /\ PidSeen(u)'   = [PidSeen(u) EXCEPT ![p] = r.pid]
           /\ NextSeen(u)'  = [NextSeen(u) EXCEPT ![p] = r.next]
           /\ CacheSeen(u)' = [CacheSeen(u) EXCEPT ![p] = r.cache[u]]
           /\ r.op = inv[p].op => UNCHANGED OpSeen(u)
           /\ r.pid = inv[p].pid => UNCHANGED PidSeen(u)
           /\ r.next = inv[p].next => UNCHANGED NextSeen(u)
           /\ r.cache[u] = inv[p].cache[u] => UNCHANGED CacheSeen(u)
           /\ On(p, u) /\ ConfOf(u) = u /\ \A q \in Procs : On(q, u)' <=> On(q, u)
           /\ UNCHANGED proc => UNCHANGED ProcSeen(u)
           /\ \A v \in Units \ {u} : /\ UNCHANGED Memory(v)
                                     /\ UNCHANGED proc => UNCHANGED ProcSeen(v)
<1>1. inv'[p] = r /\ \A q \in Procs \ {p} : inv'[q] = inv[q]
  BY Remembers DEF AloneInv
<1>2. On(p, u) /\ On(p, u)' /\ ConfOf(u) = u
  BY <1>1 DEF On, At, Unit, OwnFiles, ConfOf
<1>3. \A v \in Units \ {u} : /\ UNCHANGED Memory(v)
                             /\ UNCHANGED proc => UNCHANGED ProcSeen(v)
  BY OthersSeeNothing
<1>4. UNCHANGED proc => UNCHANGED ProcSeen(u)
  BY <1>1, <1>2, SeenHere, ProcessesSame DEF AloneInv
<1> QED BY <1>1, <1>2, <1>3, <1>4, SeenHere

\* The units that nothing happens to.
LEMMA OthersUnchanged ==
    ASSUME NEW v \in Units, UNCHANGED Memory(v), UNCHANGED ProcSeen(v),
           UNCHANGED <<lock[v], status[v], rundir[v], orphans[v]>>
    PROVE  UNCHANGED Alone(v)!vars
BY DEF Memory, Alone!vars

\* Only one unit's lock, file or directory changes.
OnlyAt(u) == \A v \in Units \ {u} : UNCHANGED <<lock[v], status[v], rundir[v], orphans[v]>>

\* A step to another label, of an invocation that keeps all it remembers.
LEMMA GotoSeen ==
    ASSUME OwnFiles, AloneInv, NEW p \in Procs, NEW u \in Units, u = Unit(p), At(p) # "idle",
           NEW l \in Labels, l # "idle", Goto(p, l), OnlyAt(u)
    PROVE  /\ AtSeen(u)[p] = At(p) /\ OpSeen(u)[p] = inv[p].op /\ PidSeen(u)[p] = inv[p].pid
           /\ NextSeen(u)[p] = inv[p].next /\ CacheSeen(u)[p] = inv[p].cache[u]
           /\ AtSeen(u)' = [AtSeen(u) EXCEPT ![p] = l]
           /\ UNCHANGED <<OpSeen(u), PidSeen(u), NextSeen(u), CacheSeen(u)>>
           /\ UNCHANGED proc => /\ UNCHANGED ProcSeen(u)
                                /\ \A v \in Units \ {u} : UNCHANGED Alone(v)!vars
<1> DEFINE r == MovedTo(inv[p], l)
<1>1. /\ r.at = l /\ r.list = inv[p].list /\ r.op = inv[p].op /\ r.cache = inv[p].cache
      /\ r.pid = inv[p].pid /\ r.next = inv[p].next /\ Remember(p, r)
  BY DEF MovedTo, Goto, Invocation, AloneInv, TypeInv, TypeOK
<1> HIDE DEF r
<1>2. \A v \in Units \ {u} : /\ UNCHANGED Memory(v)
                             /\ UNCHANGED proc => UNCHANGED ProcSeen(v)
  BY <1>1, StepSeen
<1>3. UNCHANGED proc => \A v \in Units \ {u} : UNCHANGED Alone(v)!vars
  BY <1>2, OthersUnchanged DEF OnlyAt
<1> QED BY <1>1, <1>3, StepSeen

\* The steps of the lock, ...
LEMMA LockAlone ==
    ASSUME OwnFiles, AloneInv, NEW p \in Procs, NEW u \in Units, u = Unit(p), Lock(p)
    PROVE  /\ Alone(u)!Lock(p)
           /\ \A v \in Units \ {u} : UNCHANGED Alone(v)!vars
<1> USE DEF files, Alone!files, Alone!Goto
<1>1. /\ At(p) = "lock" /\ lock[u] = None /\ lock' = [lock EXCEPT ![u] = p]
      /\ UNCHANGED <<status, rundir, proc, orphans>>
  BY DEF Lock
<1>2. lock'[u] = p /\ OnlyAt(u)
  BY <1>1 DEF OnlyAt, AloneInv, TypeInv, TypeOK
<1> DEFINE l == CASE inv[p].op = "start" -> "check"
                  [] inv[p].op = "stop"  -> "read"
                  [] OTHER               -> "isactive"
<1>3. Goto(p, l) /\ l \in Labels /\ l # "idle"
  BY DEF Lock, Labels
<1>4. /\ AtSeen(u)[p] = "lock" /\ OpSeen(u)[p] = inv[p].op
      /\ AtSeen(u)' = [AtSeen(u) EXCEPT ![p] = l]
      /\ UNCHANGED <<OpSeen(u), PidSeen(u), NextSeen(u), CacheSeen(u), ProcSeen(u)>>
      /\ \A v \in Units \ {u} : UNCHANGED Alone(v)!vars
  <2> HIDE DEF l
  <2> QED BY <1>1, <1>2, <1>3, GotoSeen
<1> QED BY <1>1, <1>2, <1>4 DEF Alone!Lock

LEMMA UnlockAlone ==
    ASSUME OwnFiles, AloneInv, NEW p \in Procs, NEW u \in Units, u = Unit(p),
           LockFails(p) \/ Unlock(p)
    PROVE  /\ Alone(u)!LockFails(p) \/ Alone(u)!Unlock(p)
           /\ \A v \in Units \ {u} : UNCHANGED Alone(v)!vars
<1> USE DEF files, Alone!files, Alone!Goto
<1>1. /\ At(p) \in {"lock", "unlock"} /\ At(p) # "idle" /\ Goto(p, "done") /\ "done" \in Labels
      /\ UNCHANGED <<status, rundir, proc, orphans>>
      /\ IF At(p) = "lock" THEN UNCHANGED lock ELSE lock' = [lock EXCEPT ![u] = None]
  BY DEF LockFails, Unlock, Labels
<1>2. /\ IF At(p) = "lock" THEN UNCHANGED lock[u] ELSE lock'[u] = None
      /\ OnlyAt(u)
  BY <1>1 DEF OnlyAt, AloneInv, TypeInv, TypeOK
<1>3. /\ AtSeen(u)[p] = At(p)
      /\ AtSeen(u)' = [AtSeen(u) EXCEPT ![p] = "done"]
      /\ UNCHANGED <<OpSeen(u), PidSeen(u), NextSeen(u), CacheSeen(u), ProcSeen(u)>>
      /\ \A v \in Units \ {u} : UNCHANGED Alone(v)!vars
  BY <1>1, <1>2, GotoSeen
<1> QED BY <1>1, <1>2, <1>3 DEF Alone!LockFails, Alone!Unlock

\* ... the steps that look and go on, ...
LEMMA LookAlone ==
    ASSUME OwnFiles, AloneInv, NEW p \in Procs, NEW u \in Units, u = Unit(p),
           ActiveUnderLock(p) \/ Check(p) \/ Pre(p) \/ Term(p) \/ Vanish(p)
    PROVE  /\ \/ Alone(u)!ActiveUnderLock(p) \/ Alone(u)!Check(p) \/ Alone(u)!Pre(p)
              \/ Alone(u)!Term(p) \/ Alone(u)!Vanish(p)
           /\ \A v \in Units \ {u} : UNCHANGED Alone(v)!vars
<1> USE DEF files, Alone!files, Alone!Goto
<1>1. /\ At(p) # "idle" /\ UNCHANGED <<lock, status, rundir, proc, orphans>> /\ OnlyAt(u)
  BY DEF ActiveUnderLock, Check, Pre, Term, Vanish, OnlyAt
<1>2. PICK l \in Labels \ {"idle"} : Goto(p, l) /\
         CASE At(p) = "isactive" -> l = IF Active(u) THEN "read" ELSE "check"
           [] At(p) = "check" -> l = IF Exists(status[u].main) THEN "unlock" ELSE "dirs"
           [] At(p) = "pre" -> l \in {"spawn", "unlock"}
           [] At(p) = "term" -> l = IF Exists(inv[p].pid) THEN "vanish" ELSE "clean"
           [] At(p) = "vanish" -> l = IF Exists(inv[p].pid) THEN "kill" ELSE "clean"
  BY DEF ActiveUnderLock, Check, Pre, Term, Vanish, Labels
<1>3. At(p) \in {"isactive", "check", "pre", "term", "vanish"}
  BY DEF ActiveUnderLock, Check, Pre, Term, Vanish
<1>4. /\ AtSeen(u)[p] = At(p) /\ OpSeen(u)[p] = inv[p].op /\ PidSeen(u)[p] = inv[p].pid
      /\ AtSeen(u)' = [AtSeen(u) EXCEPT ![p] = l]
      /\ UNCHANGED <<OpSeen(u), PidSeen(u), NextSeen(u), CacheSeen(u), ProcSeen(u)>>
      /\ \A v \in Units \ {u} : UNCHANGED Alone(v)!vars
  BY <1>1, <1>2, GotoSeen
<1>5. inv[p].op \in {"start", "stop", "restart"} /\ (At(p) = "isactive" => inv[p].op = "restart")
  BY <1>1, BatchAssumption DEF AloneInv, AheadInv
<1>6. /\ Alone(u)!Exists(inv[p].pid) <=> Exists(inv[p].pid)
      /\ Alone(u)!Exists(status[u].main) <=> Exists(status[u].main)
      /\ Alone(u)!IsActive <=> Active(u)
      /\ Alone(u)!MainPid = status[u].main
  BY SeenExists, SeenActive DEF AloneInv, TypeInv, TypeOK, Invocation, Status
<1>7. UNCHANGED <<lock[u], status[u], rundir[u], orphans[u]>>
  BY <1>1
<1>8. CASE At(p) = "isactive"
  <2>1. l = IF Active(u) THEN "read" ELSE "check"
    BY <1>2, <1>8
  <2> QED BY <1>4, <1>5, <1>6, <1>7, <1>8, <2>1 DEF Alone!ActiveUnderLock, Alone!Restarting
<1>9. CASE At(p) = "check"
  <2>1. l = IF Exists(status[u].main) THEN "unlock" ELSE "dirs"
    BY <1>2, <1>9
  <2>2. Exists(status[u].main) => Active(u)
    BY DEF Active
  <2> QED BY <1>4, <1>6, <1>7, <1>9, <2>1, <2>2 DEF Alone!Check
<1>10. CASE At(p) = "pre"
  <2>1. l \in {"spawn", "unlock"}
    BY <1>2, <1>10
  <2> QED BY <1>4, <1>7, <1>10, <2>1 DEF Alone!Pre
<1>11. CASE At(p) = "term"
  <2>1. l = IF Exists(inv[p].pid) THEN "vanish" ELSE "clean"
    BY <1>2, <1>11
  <2> QED BY <1>4, <1>5, <1>6, <1>7, <1>11, <2>1 DEF Alone!Term
<1>12. CASE At(p) = "vanish"
  <2>1. l = IF Exists(inv[p].pid) THEN "kill" ELSE "clean"
    BY <1>2, <1>12
  <2> QED BY <1>4, <1>6, <1>7, <1>12, <2>1 DEF Alone!Vanish
<1> QED BY <1>3, <1>4, <1>8, <1>9, <1>10, <1>11, <1>12

\* ... those on the directory, ...
LEMMA DirsAlone ==
    ASSUME OwnFiles, AloneInv, NEW p \in Procs, NEW u \in Units, u = Unit(p),
           Dirs(p) \/ RmDirs(p)
    PROVE  /\ Alone(u)!Dirs(p) \/ Alone(u)!RmDirs(p)
           /\ \A v \in Units \ {u} : UNCHANGED Alone(v)!vars
<1> USE DEF files, Alone!files, Alone!Goto
<1>1. /\ At(p) \in {"dirs", "rmdirs"} /\ At(p) # "idle"
      /\ UNCHANGED <<lock, status, proc, orphans>>
      /\ rundir' = [rundir EXCEPT ![u] = (At(p) = "dirs")]
  BY DEF Dirs, RmDirs
<1>2. rundir'[u] = (At(p) = "dirs") /\ OnlyAt(u)
  BY <1>1 DEF OnlyAt, AloneInv, TypeInv, TypeOK
<1> DEFINE l == IF At(p) = "dirs" THEN "pre" ELSE IF inv[p].op = "restart" THEN "check" ELSE "unlock"
<1>3. Goto(p, l) /\ l \in Labels /\ l # "idle"
  BY DEF Dirs, RmDirs, Labels
<1>4. /\ AtSeen(u)[p] = At(p) /\ OpSeen(u)[p] = inv[p].op
      /\ AtSeen(u)' = [AtSeen(u) EXCEPT ![p] = l]
      /\ UNCHANGED <<OpSeen(u), PidSeen(u), NextSeen(u), CacheSeen(u), ProcSeen(u)>>
      /\ \A v \in Units \ {u} : UNCHANGED Alone(v)!vars
  <2> HIDE DEF l
  <2> QED BY <1>1, <1>2, <1>3, GotoSeen
<1>5. inv[p].op \in {"start", "stop", "restart"}
  BY <1>1, BatchAssumption DEF AloneInv, AheadInv
<1>6. UNCHANGED <<lock[u], status[u], orphans[u]>>
  BY <1>1
<1>7. CASE At(p) = "dirs"
  BY <1>2, <1>4, <1>6, <1>7 DEF Alone!Dirs
<1>8. CASE At(p) = "rmdirs"
  BY <1>2, <1>4, <1>5, <1>6, <1>8 DEF Alone!RmDirs, Alone!Restarting
<1> QED BY <1>1, <1>4, <1>7, <1>8

\* ... the end of a write, ...
LEMMA FlushAlone ==
    ASSUME OwnFiles, AloneInv, NEW p \in Procs, NEW u \in Units, u = Unit(p), Flush(p)
    PROVE  /\ Alone(u)!Flush(p)
           /\ \A v \in Units \ {u} : UNCHANGED Alone(v)!vars
<1> USE DEF files, Alone!files, Alone!Goto
<1>0. ConfOf(u) = u
  BY DEF OwnFiles, ConfOf
<1>1. /\ At(p) = "flush" /\ UNCHANGED <<lock, rundir, proc, orphans>>
      /\ status' = [status EXCEPT ![u] = inv[p].cache[u]]
      /\ Goto(p, inv[p].next)
  BY <1>0 DEF Flush
<1>2. status'[u] = inv[p].cache[u] /\ OnlyAt(u)
  BY <1>1 DEF OnlyAt, AloneInv, TypeInv, TypeOK
<1>3. inv[p].next \in Labels /\ inv[p].next # "idle"
  BY <1>1 DEF AloneInv, HeldInv, Labels
<1>4. /\ AtSeen(u)[p] = "flush" /\ NextSeen(u)[p] = inv[p].next /\ CacheSeen(u)[p] = inv[p].cache[u]
      /\ AtSeen(u)' = [AtSeen(u) EXCEPT ![p] = inv[p].next]
      /\ UNCHANGED <<OpSeen(u), PidSeen(u), NextSeen(u), CacheSeen(u), ProcSeen(u)>>
      /\ \A v \in Units \ {u} : UNCHANGED Alone(v)!vars
  BY <1>1, <1>2, <1>3, GotoSeen
<1> QED BY <1>1, <1>2, <1>4 DEF Alone!Flush

\* ... and its beginning, ...
LEMMA WriteAlone ==
    ASSUME OwnFiles, AloneInv, NEW p \in Procs, NEW u \in Units, u = Unit(p),
           SpawnFails(p) \/ Record(p) \/ Clean(p) \/ Inactive(p)
    PROVE  /\ \/ Alone(u)!SpawnFails(p) \/ Alone(u)!Record(p)
              \/ Alone(u)!Clean(p) \/ Alone(u)!Inactive(p)
           /\ \A v \in Units \ {u} : UNCHANGED Alone(v)!vars
<1> USE DEF files, Alone!files, Alone!Goto
<1>0. ConfOf(u) = u /\ u \in Loaded
  BY DEF OwnFiles, ConfOf, Loaded
<1>1. /\ At(p) \in {"spawn", "record", "clean", "inactive"} /\ At(p) # "idle"
      /\ UNCHANGED <<lock, rundir, proc, orphans>>
  BY DEF SpawnFails, Record, Clean, Inactive
<1> DEFINE new == CASE At(p) = "spawn"  -> [Known(p) EXCEPT !.state = "failed"]
                    [] At(p) = "record" -> [state |-> "active", main |-> inv[p].pid]
                    [] At(p) = "clean"  -> [Known(p) EXCEPT !.main = None]
                    [] OTHER            -> [Known(p) EXCEPT !.state = "inactive"]
           l == CASE At(p) = "clean" -> "inactive" [] At(p) = "inactive" -> "rmdirs" [] OTHER -> "unlock"
<1>2. WriteStatus(p, new, l)
  BY DEF SpawnFails, Record, Clean, Inactive
<1>3. /\ Alone(u)!Known(p) = Known(p)
      /\ At(p) = "record" => PidSeen(u)[p] = inv[p].pid
  <2>1. CacheSeen(u)[p] = inv[p].cache[u] /\ PidSeen(u)[p] = inv[p].pid
    BY <1>0, <1>1 DEF CacheSeen, PidSeen, On
  <2> QED BY <1>0, <2>1 DEF Alone!Known, Alone!NoCache, Known, NoCache
<1> DEFINE r == WithStatus(inv[p], u, new, l)
<1>4. /\ r.at = "flush" /\ r.list = inv[p].list /\ r.op = inv[p].op /\ r.pid = inv[p].pid
      /\ r.next = l /\ r.cache[u] = new /\ Remember(p, r)
  <2> HIDE DEF new, l
  <2>1. inv[p] \in Invocation
    BY DEF AloneInv, TypeInv, TypeOK
  <2> QED BY <1>0, <1>2, <2>1 DEF WriteStatus, WithStatus, Invocation
<1>5. status'[u] = Empty /\ OnlyAt(u)
  <2> HIDE DEF new, l
  <2> QED BY <1>1, <1>2 DEF WriteStatus, OnlyAt, AloneInv, TypeInv, TypeOK
<1>6. /\ AtSeen(u)[p] = At(p)
      /\ AtSeen(u)' = [AtSeen(u) EXCEPT ![p] = "flush"]
      /\ NextSeen(u)' = [NextSeen(u) EXCEPT ![p] = l]
      /\ CacheSeen(u)' = [CacheSeen(u) EXCEPT ![p] = new]
      /\ UNCHANGED <<OpSeen(u), PidSeen(u), ProcSeen(u)>>
      /\ \A v \in Units \ {u} : UNCHANGED Memory(v) /\ UNCHANGED ProcSeen(v)
  <2> HIDE DEF r, new, l
  <2> QED BY <1>1, <1>4, StepSeen
<1>7. inv[p].op \in {"start", "stop", "restart"} /\ OpSeen(u)[p] = inv[p].op
  BY <1>1, BatchAssumption DEF AloneInv, AheadInv, OpSeen, On
<1>8. UNCHANGED <<lock[u], rundir[u], orphans[u]>>
  BY <1>1
<1>9. \A v \in Units \ {u} : UNCHANGED Alone(v)!vars
  BY <1>5, <1>6, OthersUnchanged DEF OnlyAt
<1>10. CASE At(p) = "spawn"
  <2>1. new = [Alone(u)!Known(p) EXCEPT !.state = "failed"] /\ l = "unlock"
    BY <1>3, <1>10
  <2> HIDE DEF new, l
  <2> QED BY <1>5, <1>6, <1>8, <1>9, <1>10, <2>1
         DEF Alone!SpawnFails, Alone!WriteStatus, Alone!WriteBegins, Alone!Empty, Empty
<1>11. CASE At(p) = "record"
  <2>1. new = [state |-> "active", main |-> PidSeen(u)[p]] /\ l = "unlock"
    BY <1>3, <1>11
  <2> HIDE DEF new, l
  <2> QED BY <1>5, <1>6, <1>8, <1>9, <1>11, <2>1
         DEF Alone!Record, Alone!WriteStatus, Alone!WriteBegins, Alone!Empty, Empty
<1>12. CASE At(p) = "clean"
  <2>1. new = [Alone(u)!Known(p) EXCEPT !.main = None] /\ l = "inactive"
    BY <1>3, <1>12
  <2> HIDE DEF new, l
  <2> QED BY <1>5, <1>6, <1>8, <1>9, <1>12, <2>1
         DEF Alone!Clean, Alone!WriteStatus, Alone!WriteBegins, Alone!Empty, Empty
<1>13. CASE At(p) = "inactive"
  <2>1. new = [Alone(u)!Known(p) EXCEPT !.state = "inactive"] /\ l = "rmdirs"
    BY <1>3, <1>13
  <2> HIDE DEF new, l
  <2> QED BY <1>5, <1>6, <1>7, <1>8, <1>9, <1>13, <2>1
         DEF Alone!Inactive, Alone!WriteStatus, Alone!WriteBegins, Alone!Empty, Empty
<1> QED BY <1>1, <1>10, <1>11, <1>12, <1>13

\* ... the reading of the process id, ...
LEMMA ReadAlone ==
    ASSUME OwnFiles, AloneInv, NEW p \in Procs, NEW u \in Units, u = Unit(p), Read(p)
    PROVE  /\ Alone(u)!Read(p)
           /\ \A v \in Units \ {u} : UNCHANGED Alone(v)!vars
<1> USE DEF files, Alone!files, Alone!Goto
<1> DEFINE r == WithPid(inv[p], status[u].main, "term")
<1>1. /\ At(p) = "read" /\ UNCHANGED <<lock, status, rundir, proc, orphans>> /\ Remember(p, r)
      /\ OnlyAt(u)
  BY DEF Read, OnlyAt
<1>2. /\ r.at = "term" /\ r.list = inv[p].list /\ r.op = inv[p].op /\ r.cache = inv[p].cache
      /\ r.pid = status[u].main /\ r.next = inv[p].next
  BY DEF WithPid, Invocation, AloneInv, TypeInv, TypeOK
<1>3. /\ AtSeen(u)[p] = "read" /\ OpSeen(u)[p] = inv[p].op
      /\ AtSeen(u)' = [AtSeen(u) EXCEPT ![p] = "term"]
      /\ PidSeen(u)' = [PidSeen(u) EXCEPT ![p] = status[u].main]
      /\ UNCHANGED <<OpSeen(u), NextSeen(u), CacheSeen(u), ProcSeen(u)>>
      /\ \A v \in Units \ {u} : UNCHANGED Memory(v) /\ UNCHANGED ProcSeen(v)
  <2> HIDE DEF r
  <2> QED BY <1>1, <1>2, StepSeen
<1>4. inv[p].op \in {"start", "stop", "restart"}
  BY <1>1, BatchAssumption DEF AloneInv, AheadInv
<1>5. Alone(u)!MainPid = status[u].main
  BY SeenActive DEF AloneInv
<1>6. Alone(u)!Read(p)
  BY <1>1, <1>3, <1>4, <1>5 DEF Alone!Read
<1> QED BY <1>1, <1>3, <1>6, OthersUnchanged DEF OnlyAt

\* ... the start of a process, a stranger's for every other unit, ...
LEMMA SpawnAlone ==
    ASSUME OwnFiles, AloneInv, NEW p \in Procs, NEW u \in Units, u = Unit(p), Spawn(p)
    PROVE  /\ Alone(u)!Spawn(p)
           /\ \A v \in Units \ {u} : \E i \in Pids : Alone(v)!StrangerStarts(i)
<1> USE DEF files, Alone!files, Alone!Goto
<1>1. PICK i \in Pids :
          /\ proc[i] = NoProcess
          /\ proc' = [proc EXCEPT ![i] = [st |-> "run", unit |-> Unit(p), parent |-> p]]
          /\ Remember(p, WithPid(inv[p], i, "record"))
  BY DEF Spawn
<1>2. At(p) = "spawn" /\ UNCHANGED <<lock, status, rundir, orphans>> /\ OnlyAt(u)
  BY DEF Spawn, OnlyAt
<1> DEFINE r == WithPid(inv[p], i, "record")
<1>3. /\ r.at = "record" /\ r.list = inv[p].list /\ r.op = inv[p].op /\ r.cache = inv[p].cache
      /\ r.pid = i /\ r.next = inv[p].next /\ Remember(p, r)
  BY <1>1 DEF WithPid, Invocation, AloneInv, TypeInv, TypeOK
<1>4. /\ AtSeen(u)[p] = "spawn"
      /\ AtSeen(u)' = [AtSeen(u) EXCEPT ![p] = "record"]
      /\ PidSeen(u)' = [PidSeen(u) EXCEPT ![p] = i]
      /\ UNCHANGED <<OpSeen(u), NextSeen(u), CacheSeen(u)>>
      /\ On(p, u)
      /\ \A q \in Procs : On(q, u)' <=> On(q, u)
      /\ \A v \in Units \ {u} : UNCHANGED Memory(v)
  <2> HIDE DEF r
  <2> QED BY <1>2, <1>3, StepSeen
<1>5. /\ proc'[i] = [st |-> "run", unit |-> u, parent |-> p]
      /\ \A k \in Pids \ {i} : proc'[k] = proc[k]
      /\ \A k \in Pids : proc[k].parent \in Procs \cup {None}
      /\ i # None /\ None \notin Procs /\ None \notin Units
  BY <1>1, BatchAssumption DEF AloneInv, TypeInv, TypeOK, Process
<1>6. ASSUME NEW v \in Units, \A q \in Procs : On(q, v)' <=> On(q, v)
      PROVE  /\ ProcSeen(v)[i] = Alone(v)!NoProcess
             /\ ProcSeen(v)' = [ProcSeen(v) EXCEPT ![i] = ProcessSeen(v, i)']
  <2>1. ProcSeen(v)[i] = Alone(v)!NoProcess
    BY <1>1 DEF ProcSeen, ProcessSeen, Exists, NoProcess, Alone!NoProcess
  <2>2. \A k \in Pids \ {i} : ProcessSeen(v, k)' = ProcessSeen(v, k)
    BY <1>5, <1>6 DEF ProcessSeen, Exists
  <2> QED BY <2>1, <2>2 DEF ProcSeen
<1>7. ProcessSeen(u, i)' = [st |-> "run", role |-> "main", parent |-> p]
  BY <1>4, <1>5 DEF ProcessSeen, Exists
<1>8. Alone(u)!Spawn(p)
  <2>1. /\ ProcSeen(u)[i] = Alone(u)!NoProcess
        /\ ProcSeen(u)' = [ProcSeen(u) EXCEPT ![i] = [st |-> "run", role |-> "main", parent |-> p]]
    BY <1>4, <1>6, <1>7
  <2> QED BY <1>2, <1>4, <2>1 DEF Alone!Spawn, Alone!RoleOf, Alone!AfterSpawn
<1>9. ASSUME NEW v \in Units \ {u} PROVE Alone(v)!StrangerStarts(i)
  <2>1. \A q \in Procs : On(q, v)' <=> On(q, v)
    <3>1. inv'[p] = r /\ \A q \in Procs \ {p} : inv'[q] = inv[q]
      BY <1>3, Remembers DEF AloneInv
    <3> HIDE DEF r
    <3>2. At(p) # "idle" /\ At(p)' # "idle" /\ Unit(p)' = Unit(p)
      BY <1>2, <1>3, <3>1 DEF At, Unit
    <3> QED BY <3>1, <3>2 DEF On, At, Unit
  <2>2. ProcessSeen(v, i)' = [st |-> "run", role |-> "stranger", parent |-> None]
    BY <1>5 DEF ProcessSeen, Exists
  <2>3. /\ ProcSeen(v)[i] = Alone(v)!NoProcess
        /\ ProcSeen(v)' = [ProcSeen(v) EXCEPT ![i] =
                              [st |-> "run", role |-> "stranger", parent |-> None]]
    BY <1>6, <2>1, <2>2
  <2>4. UNCHANGED Memory(v) /\ UNCHANGED <<lock[v], status[v], rundir[v], orphans[v]>>
    BY <1>2, <1>4
  <2> QED BY <2>3, <2>4 DEF Alone!StrangerStarts, Memory
<1> QED BY <1>8, <1>9

\* The end of a process, as a unit sees it.
LEMMA EndedSeen ==
    ASSUME AloneInv, NEW v \in Units, NEW i \in Pids, Exists(i), Ended(i),
           \A q \in Procs : On(q, v)' <=> On(q, v)
    PROVE  /\ ProcSeen(v)[i].st = proc[i].st
           /\ ProcSeen(v)' = [ProcSeen(v) EXCEPT ![i].st = "zombie"]
           /\ orphans'[v] = orphans[v] \ {i}
           /\ proc[i].st = "zombie" => UNCHANGED ProcSeen(v) /\ UNCHANGED orphans[v]
<1>1. /\ proc \in [Pids -> Process] /\ proc[i].st \in {"run", "zombie"}
      /\ proc[i].parent \in Procs \cup {None}
      /\ i \in orphans[v] => proc[i].st = "run"
      /\ i # None /\ None \notin Procs
  BY BatchAssumption DEF AloneInv, TypeInv, TypeOK, AheadInv, Exists, Process
<1>2. orphans'[v] = orphans[v] \ {i}
  BY DEF Ended
<1>3. /\ proc'[i].st = "zombie" /\ proc'[i].unit = proc[i].unit /\ proc'[i].parent = proc[i].parent
      /\ \A k \in Pids \ {i} : proc'[k] = proc[k]
  BY <1>1 DEF Ended, Process
<1>4. ASSUME NEW k \in Pids \ {i} PROVE ProcessSeen(v, k)' = ProcessSeen(v, k)
  <2>1. proc[k].parent \in Procs \cup {None}
    BY <1>1 DEF Process
  <2> QED BY <1>3, <2>1 DEF ProcessSeen, Exists
<1>5. /\ ProcessSeen(v, i).st = proc[i].st
      /\ ProcessSeen(v, i)' = [ProcessSeen(v, i) EXCEPT !.st = "zombie"]
  BY <1>1, <1>3 DEF ProcessSeen, Exists
<1>6. ProcSeen(v)' = [ProcSeen(v) EXCEPT ![i].st = "zombie"]
  BY <1>4, <1>5 DEF ProcSeen
<1>7. proc[i].st = "zombie" => UNCHANGED ProcSeen(v)
  <2>1. proc[i].st = "zombie" => ProcessSeen(v, i)' = ProcessSeen(v, i)
    BY <1>1, <1>3 DEF ProcessSeen, Exists
  <2> QED BY <1>4, <2>1 DEF ProcSeen
<1>8. ProcSeen(v)[i].st = proc[i].st
  BY <1>5 DEF ProcSeen
<1> QED BY <1>1, <1>2, <1>6, <1>7, <1>8

\* ... SIGKILL, for the other units the end of some process, ...
LEMMA KillAlone ==
    ASSUME OwnFiles, AloneInv, NEW p \in Procs, NEW u \in Units, u = Unit(p), Kill(p)
    PROVE  /\ Alone(u)!Kill(p)
           /\ \A v \in Units \ {u} :
                 UNCHANGED Alone(v)!vars \/ \E i \in Pids : Alone(v)!ProcessEnds(i)
<1> USE DEF files, Alone!files, Alone!Goto
<1> DEFINE i == inv[p].pid
           r == MovedTo(inv[p], "clean")
<1>1. /\ At(p) = "kill" /\ At(p) # "idle" /\ UNCHANGED <<lock, status, rundir>> /\ Remember(p, r)
      /\ i \in Pids \cup {None}
  BY DEF Kill, Goto, AloneInv, TypeInv, TypeOK, Invocation
<1>2. /\ r.at = "clean" /\ r.list = inv[p].list /\ r.op = inv[p].op /\ r.cache = inv[p].cache
      /\ r.pid = inv[p].pid /\ r.next = inv[p].next
  BY DEF MovedTo, Invocation, AloneInv, TypeInv, TypeOK
<1>3. /\ AtSeen(u)[p] = "kill" /\ PidSeen(u)[p] = i
      /\ AtSeen(u)' = [AtSeen(u) EXCEPT ![p] = "clean"]
      /\ UNCHANGED <<OpSeen(u), PidSeen(u), NextSeen(u), CacheSeen(u)>>
      /\ \A q \in Procs : On(q, u)' <=> On(q, u)
      /\ UNCHANGED proc => UNCHANGED ProcSeen(u)
      /\ \A v \in Units \ {u} : /\ UNCHANGED Memory(v)
                                /\ UNCHANGED proc => UNCHANGED ProcSeen(v)
  <2> HIDE DEF r
  <2> QED BY <1>1, <1>2, StepSeen
<1>4. Alone(u)!Exists(i) <=> Exists(i)
  BY <1>1, SeenExists DEF AloneInv
<1>5. CASE ~ Exists(i)
  <2>1. UNCHANGED <<proc, orphans>>
    BY <1>5 DEF Kill
  <2>2. Alone(u)!Kill(p)
    BY <1>1, <1>3, <1>4, <1>5, <2>1 DEF Alone!Kill
  <2>3. \A v \in Units \ {u} : UNCHANGED Alone(v)!vars
    BY <1>1, <1>3, <2>1, OthersUnchanged
  <2> QED BY <2>2, <2>3
<1>6. CASE Exists(i)
  <2>1. Ended(i) /\ i \in Pids /\ proc[i].st \in {"run", "zombie"}
    BY <1>1, <1>6 DEF Kill, Exists
  <2>2. /\ ProcSeen(u)' = [ProcSeen(u) EXCEPT ![i].st = "zombie"]
        /\ orphans'[u] = orphans[u] \ {i}
    BY <1>3, <1>6, <2>1, EndedSeen
  <2>3. Alone(u)!Kill(p)
    BY <1>1, <1>3, <1>4, <1>6, <2>2 DEF Alone!Kill
  <2>4. ASSUME NEW v \in Units \ {u}
        PROVE  UNCHANGED Alone(v)!vars \/ Alone(v)!ProcessEnds(i)
    <3>1. inv'[p] = r /\ \A q \in Procs \ {p} : inv'[q] = inv[q]
      BY <1>1, Remembers DEF AloneInv
    <3> HIDE DEF r, i
    <3>2. \A q \in Procs : On(q, v)' <=> On(q, v)
      BY <1>1, <1>2, <3>1 DEF On, At, Unit
    <3>3. /\ ProcSeen(v)[i].st = proc[i].st
          /\ ProcSeen(v)' = [ProcSeen(v) EXCEPT ![i].st = "zombie"]
          /\ orphans'[v] = orphans[v] \ {i}
          /\ proc[i].st = "zombie" => UNCHANGED ProcSeen(v) /\ UNCHANGED orphans[v]
      BY <1>6, <2>1, <3>2, EndedSeen
    <3>4. UNCHANGED Memory(v) /\ UNCHANGED <<lock[v], status[v], rundir[v]>>
      BY <1>1, <1>3
    <3>5. CASE proc[i].st = "zombie"
      BY <3>3, <3>4, <3>5, OthersUnchanged
    <3>6. CASE proc[i].st = "run"
      BY <3>3, <3>4, <3>6 DEF Alone!ProcessEnds, Memory
    <3> QED BY <2>1, <3>5, <3>6
  <2> QED BY <2>1, <2>3, <2>4
<1> QED BY <1>5, <1>6

\* ... and what the processes do by themselves.
LEMMA ProcessAlone ==
    ASSUME AloneInv, NEW i \in Pids, NEW v \in Units
    PROVE  /\ ProcessEnds(i) => Alone(v)!ProcessEnds(i)
           /\ Reap(i) => Alone(v)!Reap(i)
<1> USE DEF files, Alone!files
<1>1. ASSUME UNCHANGED inv
      PROVE  UNCHANGED Memory(v) /\ \A q \in Procs : On(q, v)' <=> On(q, v)
  BY <1>1 DEF Memory, AtSeen, OpSeen, PidSeen, NextSeen, CacheSeen, On, At, Unit
<1>2. ASSUME ProcessEnds(i) PROVE Alone(v)!ProcessEnds(i)
  <2>1. /\ proc[i].st = "run" /\ Ended(i) /\ UNCHANGED <<inv, lock, status, rundir>> /\ Exists(i)
    BY <1>2, BatchAssumption DEF ProcessEnds, Exists
  <2>2. UNCHANGED Memory(v) /\ \A q \in Procs : On(q, v)' <=> On(q, v)
    BY <1>1, <2>1
  <2>3. /\ ProcSeen(v)[i].st = "run"
        /\ ProcSeen(v)' = [ProcSeen(v) EXCEPT ![i].st = "zombie"]
        /\ orphans'[v] = orphans[v] \ {i}
    BY <2>1, <2>2, EndedSeen
  <2> QED BY <2>1, <2>2, <2>3 DEF Alone!ProcessEnds, Memory
<1>3. ASSUME Reap(i) PROVE Alone(v)!Reap(i)
  <2>1. /\ proc[i].st = "zombie" /\ proc[i].parent = None /\ proc' = [proc EXCEPT ![i] = Reaped]
        /\ UNCHANGED <<inv, lock, status, rundir, orphans>> /\ i # None
    BY <1>3, BatchAssumption DEF Reap
  <2>2. UNCHANGED Memory(v) /\ \A q \in Procs : On(q, v)' <=> On(q, v)
    BY <1>1, <2>1
  <2>3. /\ proc'[i] = Reaped /\ \A k \in Pids \ {i} : proc'[k] = proc[k]
        /\ \A k \in Pids : proc[k].parent \in Procs \cup {None}
    BY <2>1 DEF AloneInv, TypeInv, TypeOK, Process
  <2>4. \A k \in Pids \ {i} : ProcessSeen(v, k)' = ProcessSeen(v, k)
    BY <2>2, <2>3 DEF ProcessSeen, Exists
  <2>5. ProcessSeen(v, i)' = Alone(v)!Reaped
    BY <2>3, BatchAssumption
       DEF ProcessSeen, Exists, Reaped, NoProcess, Alone!Reaped, Alone!Used, Alone!NoProcess
  <2>6. ProcessSeen(v, i).st = "zombie" /\ ProcessSeen(v, i).parent = None
    BY <2>1 DEF ProcessSeen, Exists
  <2>7. /\ ProcSeen(v)[i].st = "zombie" /\ ProcSeen(v)[i].parent = None
        /\ ProcSeen(v)' = [ProcSeen(v) EXCEPT ![i] = Alone(v)!Reaped]
    BY <2>4, <2>5, <2>6 DEF ProcSeen
  <2> QED BY <2>1, <2>2, <2>7 DEF Alone!Reap, Memory
<1> QED BY <1>2, <1>3

\* What a unit sees when an invocation comes to it, of which it has seen nothing ...
LEMMA ComesTo ==
    ASSUME AloneInv, NEW p \in Procs, NEW u \in Units, UNCHANGED proc,
           \A q \in Procs \ {p} : inv'[q] = inv[q],
           ~ On(p, u), On(p, u)', ConfOf(u) = u,
           inv'[p].pid = None, inv'[p].next = "idle", inv'[p].cache[u] = NoCache,
           \A i \in Pids : proc[i].parent = p => proc[i].unit # u
    PROVE  /\ AtSeen(u)[p] = "idle"
           /\ AtSeen(u)' = [AtSeen(u) EXCEPT ![p] = inv'[p].at]
           /\ OpSeen(u)' = [OpSeen(u) EXCEPT ![p] = inv'[p].op]
           /\ UNCHANGED <<PidSeen(u), NextSeen(u), CacheSeen(u), ProcSeen(u)>>
<1>1. \A q \in Procs \ {p} : (On(q, u)' <=> On(q, u)) /\ At(q)' = At(q) /\ inv'[q] = inv[q]
  BY DEF On, At, Unit
<1>2. At(p)' = inv'[p].at
  BY DEF At
<1>3. AtSeen(u)[p] = "idle" /\ AtSeen(u)' = [AtSeen(u) EXCEPT ![p] = inv'[p].at]
  BY <1>1, <1>2 DEF AtSeen
<1>4. OpSeen(u)' = [OpSeen(u) EXCEPT ![p] = inv'[p].op]
  BY <1>1 DEF OpSeen
<1>5. UNCHANGED PidSeen(u)
  BY <1>1 DEF PidSeen
<1>6. UNCHANGED NextSeen(u)
  BY <1>1 DEF NextSeen
<1>7. UNCHANGED CacheSeen(u)
  BY <1>1 DEF CacheSeen
<1>8. UNCHANGED ProcSeen(u)
  <2>1. \A i \in Pids : proc[i].parent \in Procs \cup {None}
    BY DEF AloneInv, TypeInv, TypeOK, Process
  <2>2. \A i \in Pids : ProcessSeen(u, i)' = ProcessSeen(u, i)
    BY <1>1, <2>1 DEF ProcessSeen, Exists
  <2> QED BY <2>2 DEF ProcSeen
<1> QED BY <1>3, <1>4, <1>5, <1>6, <1>7, <1>8

\* ... and when it leaves, with the unit or without: it is gone for the unit it was at.
LEMMA Leaves ==
    ASSUME AloneInv, NEW p \in Procs, NEW u \in Units, UNCHANGED proc \/ proc' = Orphaned(p),
           \A q \in Procs \ {p} : inv'[q] = inv[q], ~ On(p, u)'
    PROVE  /\ On(p, u) => Alone(u)!Gone(p)
           /\ ~ On(p, u) => UNCHANGED Memory(u) /\ UNCHANGED ProcSeen(u)
<1>1. \A q \in Procs \ {p} : (On(q, u)' <=> On(q, u)) /\ At(q)' = At(q) /\ inv'[q] = inv[q]
  BY DEF On, At, Unit
<1>2. /\ \A i \in Pids : proc[i].parent \in Procs \cup {None}
      /\ None \notin Procs /\ proc \in [Pids -> Process]
  BY BatchAssumption DEF AloneInv, TypeInv, TypeOK, Process
<1>3. \A i \in Pids : /\ proc'[i].st = proc[i].st /\ proc'[i].unit = proc[i].unit
                      /\ \/ proc'[i].parent = proc[i].parent
                         \/ proc[i].parent = p /\ proc'[i].parent = None
  BY <1>2 DEF Orphaned, Process
<1>4. ASSUME On(p, u) PROVE Alone(u)!Gone(p)
  <2>1. /\ AtSeen(u)' = [AtSeen(u) EXCEPT ![p] = "idle"]
        /\ OpSeen(u)' = [OpSeen(u) EXCEPT ![p] = "none"]
    BY <1>1 DEF AtSeen, OpSeen
  <2>2. /\ PidSeen(u)' = [PidSeen(u) EXCEPT ![p] = None]
        /\ NextSeen(u)' = [NextSeen(u) EXCEPT ![p] = "idle"]
    BY <1>1 DEF PidSeen, NextSeen
  <2>3. CacheSeen(u)' = [CacheSeen(u) EXCEPT ![p] = NoCache]
    BY <1>1 DEF CacheSeen
  <2>4. ASSUME NEW i \in Pids
        PROVE  ProcessSeen(u, i)' = IF ProcessSeen(u, i).parent = p
                                      THEN [ProcessSeen(u, i) EXCEPT !.parent = None]
                                      ELSE ProcessSeen(u, i)
    <3>1. Exists(i)' <=> Exists(i)
      BY <1>3 DEF Exists
    <3>2. CASE ~ Exists(i)
      BY <1>2, <1>3, <3>1, <3>2 DEF ProcessSeen
    <3>3. CASE Exists(i) /\ proc[i].parent = p
      <4>1. ProcessSeen(u, i)'.parent = None
        BY <1>2, <1>3, <3>1, <3>3 DEF ProcessSeen
      <4> QED BY <1>2, <1>3, <1>4, <3>1, <3>3, <4>1 DEF ProcessSeen
    <3>4. CASE Exists(i) /\ proc[i].parent # p
      BY <1>1, <1>2, <1>3, <3>1, <3>4 DEF ProcessSeen
    <3> QED BY <3>2, <3>3, <3>4
  <2>5. ProcSeen(u)' = [i \in Pids |-> IF ProcSeen(u)[i].parent = p
                                         THEN [ProcSeen(u)[i] EXCEPT !.parent = None]
                                         ELSE ProcSeen(u)[i]]
    BY <2>4 DEF ProcSeen
  <2> QED BY <2>1, <2>2, <2>3, <2>5 DEF Alone!Gone, Alone!Goto, Alone!NoCache, NoCache
<1>5. ASSUME ~ On(p, u) PROVE UNCHANGED Memory(u) /\ UNCHANGED ProcSeen(u)
  <2>1. UNCHANGED Memory(u)
    BY <1>5, SeenElsewhere
  <2>2. \A i \in Pids : ProcessSeen(u, i)' = ProcessSeen(u, i)
    BY <1>1, <1>2, <1>3, <1>5 DEF ProcessSeen, Exists
  <2> QED BY <2>1, <2>2 DEF ProcSeen
<1> QED BY <1>4, <1>5

LEMMA FirstIsLock ==
    ASSUME NEW v \in Units, NEW o \in {"start", "stop", "restart"}
    PROVE  Alone(v)!FirstLabel(o) = "lock"
BY DEF Alone!FirstLabel, Alone!Locking, Alone!Prechecks

\* An invocation begins, at the first unit of its list, ...
LEMMA BeginAlone ==
    ASSUME OwnFiles, AloneInv, NEW p \in Procs, NEW v \in Units, Begin(p)
    PROVE  Alone(v)!Begin(p) \/ UNCHANGED Alone(v)!vars
<1> USE DEF files, Alone!files, Alone!Goto
<1>1. PICK o \in Ops, l \in Lists :
          Remember(p, [Idle EXCEPT !.at = "lock", !.op = o, !.list = l])
  BY DEF Begin
<1> DEFINE r == [Idle EXCEPT !.at = "lock", !.op = o, !.list = l]
<1>2. /\ At(p) = "idle" /\ UNCHANGED <<lock, status, rundir, proc, orphans>>
      /\ \A i \in Pids : proc[i].parent # p
  BY DEF Begin, AloneInv, AheadInv
<1>3. /\ r.at = "lock" /\ r.op = o /\ r.list = l /\ r.pid = None /\ r.next = "idle"
      /\ r.cache[v] = NoCache
  BY DEF Idle, Loaded
<1>4. inv'[p] = r /\ \A q \in Procs \ {p} : inv'[q] = inv[q]
  BY <1>1, Remembers DEF AloneInv
<1> HIDE DEF r
<1>5. ~ On(p, v) /\ ConfOf(v) = v
  BY <1>2 DEF On, OwnFiles, ConfOf
<1>6. UNCHANGED <<lock[v], status[v], rundir[v], orphans[v]>>
  BY <1>2
<1>7. CASE On(p, v)'
  <2>1. /\ AtSeen(v)[p] = "idle"
        /\ AtSeen(v)' = [AtSeen(v) EXCEPT ![p] = "lock"]
        /\ OpSeen(v)' = [OpSeen(v) EXCEPT ![p] = o]
        /\ UNCHANGED <<PidSeen(v), NextSeen(v), CacheSeen(v), ProcSeen(v)>>
    BY <1>2, <1>3, <1>4, <1>5, <1>7, ComesTo
  <2>2. Alone(v)!FirstLabel(o) = "lock"
    BY BatchAssumption, FirstIsLock
  <2> QED BY <1>6, <2>1, <2>2 DEF Alone!Begin
<1>8. CASE ~ On(p, v)'
  <2>1. UNCHANGED Memory(v) /\ UNCHANGED ProcSeen(v)
    BY <1>2, <1>4, <1>5, <1>8, Leaves
  <2> QED BY <1>6, <2>1, OthersUnchanged
<1> QED BY <1>7, <1>8

\* ... is done with a unit, which is the end of it there, and comes to the next, where
\* it looks as if it began, ...
LEMMA AdvanceAlone ==
    ASSUME OwnFiles, AloneInv, NEW p \in Procs, NEW v \in Units, Advance(p)
    PROVE  Alone(v)!Begin(p) \/ Alone(v)!End(p) \/ UNCHANGED Alone(v)!vars
<1> USE DEF files, Alone!files, Alone!Goto
<1>1. At(p) = "done" /\ At(p) # "idle" /\ UNCHANGED <<lock, status, rundir, orphans>>
  BY DEF Advance
<1>2. /\ UNCHANGED proc \/ proc' = Orphaned(p)
      /\ \A q \in Procs \ {p} : inv'[q] = inv[q]
  <2>1. \E r : Remember(p, r)
    BY DEF Advance
  <2> QED BY <2>1, Remembers DEF Advance, AloneInv
<1>3. UNCHANGED <<lock[v], status[v], rundir[v], orphans[v]>>
  BY <1>1
<1>4. CASE ~ On(p, v)'
  <2>1. CASE On(p, v)
    <3>1. AtSeen(v)[p] = "done"
      BY <1>1, <2>1 DEF AtSeen
    <3>2. Alone(v)!Gone(p)
      BY <1>2, <1>4, <2>1, Leaves
    <3> QED BY <1>3, <3>1, <3>2 DEF Alone!End
  <2>2. CASE ~ On(p, v)
    <3>1. UNCHANGED Memory(v) /\ UNCHANGED ProcSeen(v)
      BY <1>2, <1>4, <2>2, Leaves
    <3> QED BY <1>3, <3>1, OthersUnchanged
  <2> QED BY <2>1, <2>2
<1>5. CASE On(p, v)'
  <2> DEFINE r == AtNextUnit(inv[p])
  <2>1. Len(inv[p].list) > 1 /\ Remember(p, r) /\ UNCHANGED proc
    <3>1. Len(inv[p].list) > 1
      <4>1. SUFFICES ASSUME ~ Len(inv[p].list) > 1 PROVE FALSE
        OBVIOUS
      <4>2. Remember(p, Idle)
        BY <4>1 DEF Advance
      <4>3. inv'[p] = Idle
        BY <4>2, Remembers DEF AloneInv
      <4> QED BY <1>5, <4>3 DEF On, At, Idle
    <3> QED BY <3>1 DEF Advance
  <2>2. /\ r.at = "lock" /\ r.op = inv[p].op /\ r.list = Tail(inv[p].list) /\ r.pid = None
        /\ r.next = "idle" /\ r.cache = inv[p].cache
    BY DEF AtNextUnit, Invocation, AloneInv, TypeInv, TypeOK
  <2>3. inv'[p] = r
    BY <2>1, Remembers DEF AloneInv
  <2> HIDE DEF r
  <2>4. v = inv[p].list[2] /\ 2 \in 2..Len(inv[p].list)
    <3>1. inv[p].list \in Seq(Units)
      BY <1>1, UnitType, MatchedList DEF AloneInv
    <3>2. Head(Tail(inv[p].list)) = inv[p].list[2] /\ Len(inv[p].list) \in Nat
      BY <2>1, <3>1
    <3>3. v = Head(r.list)
      BY <1>5, <2>3 DEF On, Unit
    <3> QED BY <2>1, <2>2, <3>2, <3>3
  <2>5. v # Unit(p)
    BY <1>1, <2>4, ListFacts DEF AloneInv
  <2>6. Ahead(p, v)
    BY <1>1, <2>4 DEF AloneInv, AheadInv
  <2>7. ~ On(p, v) /\ ConfOf(v) = v
    BY <2>5 DEF On, OwnFiles, ConfOf
  <2>8. /\ AtSeen(v)[p] = "idle"
        /\ AtSeen(v)' = [AtSeen(v) EXCEPT ![p] = "lock"]
        /\ OpSeen(v)' = [OpSeen(v) EXCEPT ![p] = inv[p].op]
        /\ UNCHANGED <<PidSeen(v), NextSeen(v), CacheSeen(v), ProcSeen(v)>>
    <3>1. inv'[p].cache[v] = NoCache /\ \A i \in Pids : proc[i].parent = p => proc[i].unit # v
      BY <2>2, <2>3, <2>6 DEF Ahead
    <3> QED BY <1>2, <1>5, <2>1, <2>2, <2>3, <2>7, <3>1, ComesTo
  <2>9. inv[p].op \in Ops /\ Alone(v)!FirstLabel(inv[p].op) = "lock"
    BY <1>1, BatchAssumption, FirstIsLock DEF AloneInv, AheadInv
  <2> QED BY <1>3, <2>8, <2>9 DEF Alone!Begin
<1> QED BY <1>4, <1>5

\* ... or is killed, which only the unit notices that it is at.
LEMMA CrashAlone ==
    ASSUME OwnFiles, AloneInv, NEW p \in Procs, NEW v \in Units, Crash(p)
    PROVE  Alone(v)!Crash(p) \/ UNCHANGED Alone(v)!vars
<1> USE DEF files, Alone!files, Alone!Goto
<1>1. /\ At(p) # "idle" /\ UNCHANGED <<status, rundir>> /\ proc' = Orphaned(p)
      /\ inv'[p] = Idle /\ \A q \in Procs \ {p} : inv'[q] = inv[q]
  <2>1. Remember(p, Idle)
    BY DEF Crash
  <2> QED BY <2>1, CrashAssumption, Remembers DEF Crash, AloneInv
<1>2. ~ On(p, v)'
  BY <1>1 DEF On, At, Idle
<1>3. lock'[v] = IF lock[v] = p THEN None ELSE lock[v]
  BY DEF Crash
<1>4. orphans'[v] = IF v = Unit(p) THEN orphans[v] \cup InFlight(p) ELSE orphans[v]
  BY DEF Crash, AloneInv, TypeInv, TypeOK
<1>5. UNCHANGED <<status[v], rundir[v]>>
  BY <1>1
<1>6. CASE On(p, v)
  <2>1. v = Unit(p) /\ AtSeen(v)[p] = At(p) /\ PidSeen(v)[p] = inv[p].pid
        /\ NextSeen(v)[p] = inv[p].next /\ CacheSeen(v)[p] = inv[p].cache[ConfOf(v)]
    BY <1>6 DEF On, AtSeen, PidSeen, NextSeen, CacheSeen
  <2>2. \A i \in Pids : ProcSeen(v)[i].st = "run" <=> proc[i].st = "run"
    BY BatchAssumption DEF ProcSeen, ProcessSeen, Exists
  <2>3. At(p) # "daemonize"
    BY DEF At, AloneInv, TypeInv, TypeOK, Invocation, Labels
  <2>4. Alone(v)!InFlight(p) = InFlight(p)
    BY <2>1, <2>2, <2>3 DEF Alone!InFlight, InFlight
  <2>5. Alone(v)!Gone(p)
    BY <1>1, <1>2, <1>6, Leaves
  <2> QED BY <1>1, <1>3, <1>4, <1>5, <2>1, <2>4, <2>5 DEF Alone!Crash
<1>7. CASE ~ On(p, v)
  <2>1. UNCHANGED Memory(v) /\ UNCHANGED ProcSeen(v)
    BY <1>1, <1>2, <1>7, Leaves
  <2>2. v # Unit(p) /\ lock[v] # p
    BY <1>1, <1>7 DEF On, AloneInv, HeldInv
  <2> QED BY <1>3, <1>4, <1>5, <2>1, <2>2, OthersUnchanged
<1> QED BY <1>6, <1>7

\* Every step, for every unit: one of its own or none.
LEMMA StepsAlone ==
    ASSUME OwnFiles, AloneInv, Next, NEW v \in Units
    PROVE  UNCHANGED Alone(v)!vars \/ Alone(v)!Next
<1> USE DEF Alone!Next, Alone!Step
<1>1. ASSUME NEW p \in Procs, Begin(p) PROVE UNCHANGED Alone(v)!vars \/ Alone(v)!Next
  BY <1>1, BeginAlone
<1>2. ASSUME NEW p \in Procs, Advance(p) PROVE UNCHANGED Alone(v)!vars \/ Alone(v)!Next
  BY <1>2, AdvanceAlone
<1>3. ASSUME NEW p \in Procs, Crash(p) PROVE UNCHANGED Alone(v)!vars \/ Alone(v)!Next
  BY <1>3, CrashAlone
<1>4. ASSUME NEW i \in Pids, ProcessEnds(i) \/ Reap(i)
      PROVE  UNCHANGED Alone(v)!vars \/ Alone(v)!Next
  BY <1>4, ProcessAlone DEF Alone!ProcessStep
<1>5. ASSUME NEW p \in Procs, UnitStep(p) PROVE UNCHANGED Alone(v)!vars \/ Alone(v)!Next
  <2>1. PICK u \in Units : u = Unit(p)
    <3>1. At(p) # "idle"
      BY <1>5 DEF UnitStep, Lock, LockFails, ActiveUnderLock, Flush, Check, Dirs, Pre, Spawn,
                  SpawnFails, Record, Read, Term, Vanish, Kill, Clean, Inactive, RmDirs, Unlock
    <3> QED BY <3>1, UnitType DEF AloneInv
  <2>2. CASE Lock(p)
    BY <2>1, <2>2, LockAlone
  <2>3. CASE LockFails(p) \/ Unlock(p)
    BY <2>1, <2>3, UnlockAlone
  <2>4. CASE ActiveUnderLock(p) \/ Check(p) \/ Pre(p) \/ Term(p) \/ Vanish(p)
    BY <2>1, <2>4, LookAlone DEF Alone!StartStep, Alone!StopStep
  <2>5. CASE Dirs(p) \/ RmDirs(p)
    BY <2>1, <2>5, DirsAlone DEF Alone!StartStep, Alone!StopStep
  <2>6. CASE Flush(p)
    BY <2>1, <2>6, FlushAlone
  <2>7. CASE SpawnFails(p) \/ Record(p) \/ Clean(p) \/ Inactive(p)
    BY <2>1, <2>7, WriteAlone DEF Alone!StartStep, Alone!StopStep
  <2>8. CASE Read(p)
    BY <2>1, <2>8, ReadAlone DEF Alone!StopStep
  <2>9. CASE Spawn(p)
    BY <2>1, <2>9, SpawnAlone DEF Alone!StartStep, Alone!ProcessStep
  <2>10. CASE Kill(p)
    BY <2>1, <2>10, KillAlone DEF Alone!StopStep, Alone!ProcessStep
  <2> QED BY <1>5, <2>2, <2>3, <2>4, <2>5, <2>6, <2>7, <2>8, <2>9, <2>10 DEF UnitStep
<1> QED BY <1>1, <1>2, <1>3, <1>4, <1>5 DEF Next

LEMMA InitAlone == ASSUME Init, NEW u \in Units PROVE Alone(u)!Init
<1>1. \A p \in Procs : ~ On(p, u)
  BY DEF Init, On, At, Idle
<1>2. /\ AtSeen(u) = [p \in Procs |-> "idle"] /\ OpSeen(u) = [p \in Procs |-> "none"]
      /\ PidSeen(u) = [p \in Procs |-> None] /\ NextSeen(u) = [p \in Procs |-> "idle"]
      /\ CacheSeen(u) = [p \in Procs |-> Alone(u)!NoCache]
  BY <1>1 DEF AtSeen, OpSeen, PidSeen, NextSeen, CacheSeen, NoCache, Alone!NoCache
<1>3. ProcSeen(u) = [i \in Pids |-> Alone(u)!NoProcess]
  BY DEF Init, ProcSeen, ProcessSeen, Exists, NoProcess, Alone!NoProcess
<1>4. lock[u] = None /\ status[u] = Alone(u)!Empty /\ rundir[u] = FALSE /\ orphans[u] = {}
  BY DEF Init, Empty, Alone!Empty
<1>5. \E S \in SUBSET Pids :
         /\ Alone(u)!Cardinality(S) = Each.Ids
         /\ ProcSeen(u) = [i \in Pids |-> IF i \in S THEN Alone(u)!NoProcess ELSE Alone(u)!Used]
  <2>1. Alone(u)!Cardinality(Pids) = Cardinality(Pids)
    BY DEF Cardinality, Alone!Cardinality
  <2> WITNESS Pids \in SUBSET Pids
  <2> QED BY <1>3, <2>1
<1> QED BY <1>2, <1>4, <1>5 DEF Alone!Init

\* A command line over several units does to each of them what a command line for that
\* unit alone does, with crashes at any point, however many units are on the list and
\* however the lists of the invocations overlap: whatever ServiceControlProofs proves of one
\* unit of Type=simple holds of every unit of a list (with a file of its own).
THEOREM UnitsAreAlone == ASSUME OwnFiles PROVE Spec => EachUnitAlone
<1> DEFINE Steps  == \A u \in Units : UNCHANGED Alone(u)!vars \/ Alone(u)!Next
           Begins == \A u \in Units : Alone(u)!Init
<1>1. Init => Begins
  BY InitAlone
<1>2. AloneInv /\ [Next]_vars => [Steps]_vars
  BY StepsAlone
<1>3. Spec => []AloneInv
  BY AloneInvAlways
<1>4. Spec => Begins /\ [][Steps]_vars
  <2> HIDE DEF Steps, Begins
  <2> QED BY <1>1, <1>2, <1>3, PTL DEF Spec
<1> QED BY <1>4 DEF EachUnitAlone

\* What ServiceControl assumes of its constants holds of each unit, and so does what its
\* theorems on Type=simple assume of the unit (SimpleUnit of ServiceControlProofs), ...
LEMMA ServiceConstants ==
    ASSUME NEW u \in Units
    PROVE  /\ Alone(u)!ServiceAssumption
           /\ Each.Type = "simple" /\ Each.HasPidFile = FALSE /\ Each.Ops \subseteq Alone(u)!Locking
<1>1. Cardinality(Pids) \in Nat
  BY BatchAssumption, FS_CardinalityType
<1>2. Ops \subseteq Alone(u)!Locking
  BY BatchAssumption DEF Alone!Locking
<1>3. Each \in Alone(u)!Unit
  BY <1>1, <1>2, BatchAssumption DEF Alone!Unit
<1> QED BY <1>2, <1>3, BatchAssumption DEF Alone!ServiceAssumption

\* ... and its specification, too: a unit of a list is one service unit under start, stop
\* and restart, with invocations that crash and other processes that come and go.
THEOREM UnitIsService == ASSUME OwnFiles, NEW u \in Units PROVE Spec => Alone(u)!Spec
<1>1. Init => Alone(u)!Init
  BY InitAlone
<1>2. ASSUME UNCHANGED vars PROVE UNCHANGED Alone(u)!vars
  BY <1>2 DEF vars, Alone!vars, AtSeen, OpSeen, PidSeen, NextSeen, CacheSeen, ProcSeen,
              On, At, Unit, ProcessSeen, Exists
<1>3. AloneInv /\ [Next]_vars => [Alone(u)!Next]_(Alone(u)!vars)
  BY <1>2, StepsAlone
<1>4. Spec => []AloneInv
  BY AloneInvAlways
<1> QED BY <1>1, <1>3, <1>4, PTL DEF Spec, Alone!Spec

=============================================================================
