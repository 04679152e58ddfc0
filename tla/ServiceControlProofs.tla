------------------------- MODULE ServiceControlProofs -------------------------
(***************************************************************************)
(* Proofs about ServiceControl for any number of invocations and process   *)
(* ids: the types; that a unit of Type=simple runs at most once under the  *)
(* operations that take the lock (and kill, which only signals); that the  *)
(* command of a oneshot unit does, and settles, under all operations; and  *)
(* that a daemon is on record, runs once and is stopped, under all but     *)
(* halt.                                                                   *)
(***************************************************************************)
EXTENDS ServiceControl, TLAPS, FiniteSetTheorems

\* An invocation that is writing has read the status map before.
FlushHasMap == \A p \in Procs : at[p] = "flush" => cache[p] \in Status

TypeInv == TypeOK /\ FlushHasMap

LEMMA UnitStays == [Next]_vars => unit' = unit
BY DEF Next, vars

LEMMA UnitType ==
    ASSUME TypeOK
    PROVE  /\ unit.Type \in {"simple", "oneshot", "forking"}
           /\ unit.Ops \subseteq Locking \cup Prechecks \cup Unlocked
BY ServiceAssumption DEF TypeOK, Unit

LEMMA KnownType == ASSUME TypeInv, NEW p \in Procs PROVE Known(p) \in Status
BY DEF TypeInv, TypeOK, Known

LEMMA TypeInvInit == Init => TypeInv
<1> SUFFICES ASSUME Init PROVE TypeInv
  OBVIOUS
<1>1. status \in Status
  BY DEF Init, Status, States, Empty
<1>2. proc \in [Pids -> Process]
  BY DEF Init, Process, NoProcess, Used, Roles
<1>3. cache \in [Procs -> Status \cup {NoCache}]
  BY DEF Init
<1>4. at \in [Procs -> Labels] /\ next \in [Procs -> Labels] /\ FlushHasMap
  BY DEF Init, Labels, FlushHasMap
<1> QED BY <1>1, <1>2, <1>3, <1>4 DEF Init, TypeInv, TypeOK

\* What a write of a status map leaves well typed, whether it succeeds or not.
WriteTypes == /\ at' \in [Procs -> Labels]
              /\ next' \in [Procs -> Labels]
              /\ cache' \in [Procs -> Status \cup {NoCache}]
              /\ status' \in Status
              /\ orphans' \subseteq Pids
              /\ FlushHasMap'

LEMMA LostType == ASSUME TypeInv, NEW p \in Procs, Lost(p) PROVE orphans' \subseteq Pids
BY DEF TypeInv, TypeOK, Lost, InFlight

LEMMA WriteType ==
    ASSUME TypeInv, NEW p \in Procs, NEW new \in Status, NEW l \in Labels \ {"flush"},
           WriteStatus(p, new, l)
    PROVE  WriteTypes
<1> USE DEF TypeInv, TypeOK, FlushHasMap, Goto
<1>1. CASE WriteBegins(p, new, l)
  BY <1>1 DEF WriteBegins, WriteTypes, Labels, Status, States, Empty
<1>2. CASE WriteFails(p, new, l)
  <2>1. cache' = cache \/ cache' = [cache EXCEPT ![p] = new]
    BY <1>2 DEF WriteFails
  <2>2. orphans' \subseteq Pids
    BY <1>2, LostType DEF WriteFails
  <2> QED BY <1>2, <2>1, <2>2 DEF WriteFails, WriteTypes
<1> QED BY <1>1, <1>2 DEF WriteStatus

\* A jump of an invocation that writes nothing keeps them, too.
LEMMA GotoType ==
    ASSUME TypeInv, NEW p \in Procs, NEW l \in Labels \ {"flush"}, Goto(p, l), UNCHANGED cache
    PROVE  at' \in [Procs -> Labels] /\ FlushHasMap'
BY DEF TypeInv, TypeOK, FlushHasMap, Goto, Labels

LEMMA TypeInvStep == TypeInv /\ [Next]_vars => TypeInv'
<1> SUFFICES ASSUME TypeInv, [Next]_vars PROVE TypeInv'
  OBVIOUS
<1>u. unit' = unit
  BY UnitStays
<1> USE <1>u
<1> USE DEF TypeInv, TypeOK, files
<1>1. ASSUME NEW p \in Procs, Begin(p) PROVE TypeInv'
  <2>1. PICK o \in unit.Ops : op' = [op EXCEPT ![p] = o] /\ Goto(p, FirstLabel(o))
    BY <1>1 DEF Begin
  <2>2. FirstLabel(o) \in Labels \ {"flush"}
    BY DEF FirstLabel, Labels
  <2> QED BY <1>1, <2>1, <2>2, GotoType, UnitType DEF Begin
<1>2. ASSUME NEW p \in Procs, Precheck(p) PROVE TypeInv'
  <2>1. PICK o \in Locking \cup Prechecks, l \in {"lock", "done", "precheck"} : Become(p, o, l)
    BY <1>2 DEF Precheck, Locking, Prechecks
  <2> QED BY <1>2, <2>1, GotoType DEF Precheck, Become, Labels
<1>3. ASSUME NEW p \in Procs, Lock(p) \/ LockFails(p) \/ Unlock(p) \/ ActiveUnderLock(p)
      PROVE  TypeInv'
  <2>1. PICK l \in {"check", "read", "isactive", "done", "unlock"} : Goto(p, l)
    BY <1>3 DEF Lock, LockFails, Unlock, ActiveUnderLock
  <2> QED BY <1>3, <2>1, GotoType DEF Lock, LockFails, Unlock, ActiveUnderLock, Labels
<1>4. ASSUME NEW p \in Procs, Check(p) \/ Dirs(p) \/ Pre(p) \/ DaemonizeTimeout(p) PROVE TypeInv'
  <2>1. PICK l \in {"unlock", "dirs", "pre", "exec", "spawn", "record"} : Goto(p, l)
    BY <1>4 DEF Check, Dirs, Pre, DaemonizeTimeout
  <2>2. CASE Check(p)
    BY <2>1, <2>2, GotoType DEF Check, Labels
  <2>4. CASE Dirs(p)
    BY <2>1, <2>4, GotoType DEF Dirs, Labels
  <2>3. CASE Pre(p) \/ DaemonizeTimeout(p)
    BY <2>1, <2>3, GotoType DEF Pre, DaemonizeTimeout, Labels
  <2> QED BY <1>4, <2>2, <2>3, <2>4
<1>5. ASSUME NEW p \in Procs, Spawn(p) PROVE TypeInv'
  <2>1. AfterSpawn \in Labels \ {"flush"}
    BY DEF AfterSpawn, Labels
  <2>2. RoleOf \in Roles
    BY DEF RoleOf, Roles
  <2> QED BY <1>5, <2>1, <2>2, GotoType DEF Spawn, Process
<1>6. ASSUME NEW p \in Procs,
             NEW s \in States, NEW m \in Pids \cup {None}, NEW l \in Labels \ {"flush"},
             WriteStatus(p, [Known(p) EXCEPT !.state = s], l)
                \/ WriteStatus(p, [Known(p) EXCEPT !.main = m], l)
                \/ WriteStatus(p, [state |-> s, main |-> m], l)
      PROVE  WriteTypes
  <2>1. /\ [Known(p) EXCEPT !.state = s] \in Status
        /\ [Known(p) EXCEPT !.main = m] \in Status
        /\ [state |-> s, main |-> m] \in Status
    BY KnownType DEF Status
  <2> QED BY <1>6, <2>1, WriteType
<1>7. ASSUME NEW p \in Procs, Activating(p) \/ SpawnFails(p) \/ Inactive(p) \/ Reset(p)
      PROVE  TypeInv'
  <2>1. PICK s \in States, l \in Labels \ {"flush"} :
            WriteStatus(p, [Known(p) EXCEPT !.state = s], l)
    BY <1>7 DEF Activating, SpawnFails, Inactive, Reset, States, Labels
  <2>2. WriteTypes
    BY <1>6, <2>1
  <2> QED BY <1>7, <2>2 DEF Activating, SpawnFails, Inactive, Reset, WriteTypes
<1>8. ASSUME NEW p \in Procs, Await(p) PROVE TypeInv'
  <2>1. proc' \in [Pids -> Process]
    <3>1. Reaped \in Process
      BY DEF Reaped, Used, NoProcess, Process, Roles
    <3> QED BY <1>8, <3>1 DEF Await
  <2>2. ASSUME NEW s \in States, WriteStatus(p, [Known(p) EXCEPT !.state = s], "unlock")
        PROVE  TypeInv'
    <3>1. WriteTypes
      BY <1>6, <2>2 DEF Labels
    <3> QED BY <1>8, <2>1, <3>1 DEF Await, WriteTypes
  <2>3. ASSUME Goto(p, "spawn"), UNCHANGED <<next, cache, status, orphans>> PROVE TypeInv'
    BY <1>8, <2>1, <2>3, GotoType DEF Await, Labels
  <2> QED BY <1>8, <2>2, <2>3 DEF Await, States
<1>9. ASSUME NEW p \in Procs, PidFileAppears(p) \/ LauncherEnds(p) PROVE TypeInv'
  <2>1. Goto(p, "record")
    BY <1>9 DEF PidFileAppears, LauncherEnds
  <2>2. Reaped \in Process
    BY DEF Reaped, Used, NoProcess, Process, Roles
  <2> QED BY <1>9, <2>1, <2>2, GotoType DEF PidFileAppears, LauncherEnds, Labels
<1>10. ASSUME NEW p \in Procs, Record(p) PROVE TypeInv'
  <2>1. WriteTypes
    BY <1>6, <1>10 DEF Record, States, Labels
  <2> QED BY <1>10, <2>1 DEF Record, WriteTypes
<1>11. ASSUME NEW p \in Procs, Read(p) \/ Term(p) \/ Vanish(p) \/ RmDirs(p) \/ IsFailed(p)
       PROVE  TypeInv'
  <2>1. PICK l \in {"done", "term", "vanish", "clean", "kill", "check", "unlock", "reset"} :
            Goto(p, l)
    BY <1>11 DEF Read, Term, Vanish, RmDirs, IsFailed
  <2>2. MainPid \in Pids \cup {None}
    BY DEF MainPid, Status
  <2>3. CASE Read(p) \/ Term(p)
    BY <2>1, <2>2, <2>3, GotoType DEF Read, Term, Labels
  <2>4. CASE Vanish(p) \/ RmDirs(p) \/ IsFailed(p)
    BY <2>1, <2>2, <2>4, GotoType DEF Vanish, RmDirs, IsFailed, Labels
  <2> QED BY <1>11, <2>3, <2>4
<1>12. ASSUME NEW p \in Procs, Kill(p) PROVE TypeInv'
  <2>1. proc' \in [Pids -> Process]
    BY <1>12 DEF Kill, Exists, Process
  <2>2. orphans' \subseteq Pids
    BY <1>12 DEF Kill
  <2> QED BY <1>12, <2>1, <2>2, GotoType DEF Kill, Labels
<1>13. ASSUME NEW p \in Procs, Clean(p) PROVE TypeInv'
  <2>1. WriteTypes
    BY <1>6, <1>13 DEF Clean, States, Labels
  <2>2. pidfile' \in Pids \cup {None}
    BY <1>13 DEF Clean
  <2> QED BY <1>13, <2>1, <2>2 DEF Clean, WriteTypes
<1>14. ASSUME NEW p \in Procs, Flush(p) PROVE TypeInv'
  <2>1. next[p] \in Labels
    OBVIOUS
  <2>2. status' \in Status
    BY <1>14 DEF Flush, FlushHasMap, Status, States, Empty
  <2>3. orphans' \subseteq Pids
    BY <1>14, LostType DEF Flush
  <2> QED BY <1>14, <2>1, <2>2, <2>3 DEF Flush, Goto, FlushHasMap
<1>15. ASSUME NEW p \in Procs, Gone(p), UNCHANGED <<status, pidfile, rundir>>,
              lock' \in Procs \cup {None}, orphans' \subseteq Pids
       PROVE  TypeInv'
  <2>1. proc' \in [Pids -> Process]
    BY <1>15 DEF Gone, Process
  <2> QED BY <1>15, <2>1 DEF Gone, Goto, FlushHasMap, Labels
<1>16. ASSUME NEW p \in Procs, End(p) \/ Crash(p) PROVE TypeInv'
  BY <1>15, <1>16 DEF End, Crash, InFlight
<1>17. ASSUME NEW i \in Pids, ProcessStep(i) PROVE TypeInv'
  <2>1. proc' \in [Pids -> Process]
    BY <1>17 DEF ProcessStep, ProcessEnds, Reap, DaemonForks, WritePidFile, StrangerStarts,
                 Process, Roles, Reaped, Used, NoProcess
  <2>2. pidfile' \in Pids \cup {None} /\ orphans' \subseteq Pids
    BY <1>17 DEF ProcessStep, ProcessEnds, Reap, DaemonForks, WritePidFile, StrangerStarts
  <2> QED BY <1>17, <2>1, <2>2
      DEF ProcessStep, ProcessEnds, Reap, DaemonForks, WritePidFile, StrangerStarts, FlushHasMap
<1>18. ASSUME UNCHANGED vars PROVE TypeInv'
  BY <1>18 DEF vars, FlushHasMap
<1> QED
  BY <1>1, <1>2, <1>3, <1>4, <1>5, <1>7, <1>8, <1>9, <1>10, <1>11, <1>12, <1>13, <1>14,
     <1>16, <1>17, <1>18
  DEF Next, Step, StartStep, StopStep

\* All variables keep their types; in particular what a write of the status file
\* leaves behind is always a status map, never one that was not read before.
THEOREM TypeCorrectness == Spec => []TypeOK
<1>1. TypeInv => TypeOK
  BY DEF TypeInv
<1> QED BY <1>1, TypeInvInit, TypeInvStep, PTL DEF Spec

-----------------------------------------------------------------------------
(* What the README says of the lock, of the operations that take it.       *)

\* No invocation is asked to halt, kill or reset the unit.
LockingUnit == unit.Ops \subseteq Locking \cup Prechecks

Outside == {"idle", "precheck", "lock", "done"}

\* Whoever is past the lock holds it, and so it is after the write it is in.
OperatorHolds == \A p \in Procs :
    /\ op[p] \in Locking \cup Prechecks \cup {"none"}
    /\ at[p] \notin Outside => lock = p
    /\ at[p] = "flush" => next[p] \in {"spawn", "unlock", "inactive", "rmdirs"}
    /\ at[p] \notin {"isfailed", "reset"}

LEMMA OperatorHoldsStep == LockingUnit /\ TypeInv /\ OperatorHolds /\ [Next]_vars => OperatorHolds'
<1> SUFFICES ASSUME LockingUnit, TypeInv, OperatorHolds, [Next]_vars PROVE OperatorHolds'
  OBVIOUS
<1>u. unit' = unit
  BY UnitStays
<1> USE <1>u
<1> USE ServiceAssumption, UnitType
    DEF LockingUnit, TypeInv, TypeOK, OperatorHolds, Goto, Outside, Locking, Prechecks
<1>1. ASSUME NEW p \in Procs, Begin(p) PROVE OperatorHolds'
  BY <1>1 DEF Begin, FirstLabel
<1>2. ASSUME NEW p \in Procs, Precheck(p) PROVE OperatorHolds'
  BY <1>2 DEF Precheck, Become
<1>3. ASSUME NEW p \in Procs, Lock(p) \/ LockFails(p) \/ Unlock(p) PROVE OperatorHolds'
  BY <1>3 DEF Lock, LockFails, Unlock
<1>4. ASSUME NEW p \in Procs,
             ActiveUnderLock(p) \/ Check(p) \/ Dirs(p) \/ Pre(p) \/ PidFileAppears(p)
               \/ LauncherEnds(p) \/ DaemonizeTimeout(p)
      PROVE  OperatorHolds'
  BY <1>4 DEF ActiveUnderLock, Check, Dirs, Pre, PidFileAppears, LauncherEnds, DaemonizeTimeout
<1>5. ASSUME NEW p \in Procs, Spawn(p) PROVE OperatorHolds'
  BY <1>5 DEF Spawn, AfterSpawn
<1>6. ASSUME NEW p \in Procs, Activating(p) \/ SpawnFails(p) \/ Record(p) PROVE OperatorHolds'
  BY <1>6 DEF Activating, SpawnFails, Record, WriteStatus, WriteBegins, WriteFails
<1>7. ASSUME NEW p \in Procs, Await(p) PROVE OperatorHolds'
  BY <1>7 DEF Await, WriteStatus, WriteBegins, WriteFails
<1>8. ASSUME NEW p \in Procs, Read(p) \/ Term(p) \/ Vanish(p) \/ Kill(p) \/ RmDirs(p)
      PROVE  OperatorHolds'
  BY <1>8 DEF Read, Term, Vanish, Kill, RmDirs
<1>9. ASSUME NEW p \in Procs, Clean(p) \/ Inactive(p) \/ IsFailed(p) \/ Reset(p)
      PROVE  OperatorHolds'
  BY <1>9 DEF Clean, Inactive, IsFailed, Reset, WriteStatus, WriteBegins, WriteFails
<1>10. ASSUME NEW p \in Procs, Flush(p) PROVE OperatorHolds'
  BY <1>10 DEF Flush
<1>11. ASSUME NEW p \in Procs, End(p) \/ Crash(p) PROVE OperatorHolds'
  BY <1>11 DEF End, Crash, Gone
<1>12. ASSUME NEW i \in Pids, ProcessStep(i) PROVE OperatorHolds'
  BY <1>12 DEF ProcessStep, ProcessEnds, Reap, DaemonForks, WritePidFile, StrangerStarts
<1>13. ASSUME UNCHANGED vars PROVE OperatorHolds'
  BY <1>13 DEF vars
<1> QED BY <1>1, <1>2, <1>3, <1>4, <1>5, <1>6, <1>7, <1>8, <1>9, <1>10, <1>11, <1>12, <1>13
        DEF Next, Step, StartStep, StopStep

\* "fcntl waitlock prevents parallel operations on the same unit" (README): so it does,
\* for units of every type and invocations that may die anywhere, among the operations
\* that take the lock.
THEOREM LockedNeverParallel == Spec /\ LockingUnit => []NoParallelOperations
<1>1. Init => OperatorHolds
  BY DEF Init, OperatorHolds, Outside
<1>2. OperatorHolds => NoParallelOperations
  BY DEF OperatorHolds, NoParallelOperations, Operating, Outside
<1>3. LockingUnit /\ TypeInv /\ OperatorHolds /\ [Next]_vars
        => (LockingUnit /\ TypeInv /\ OperatorHolds)'
  BY UnitStays, TypeInvStep, OperatorHoldsStep DEF LockingUnit
<1> QED BY <1>1, <1>2, <1>3, TypeInvInit, PTL DEF Spec

-----------------------------------------------------------------------------
(* A unit of Type=simple under the operations that lock, and kill.         *)

LockedOps == Locking \cup Prechecks \cup {"kill"}

SimpleUnit == /\ unit.Type = "simple"
              /\ unit.HasPidFile = FALSE
              /\ unit.Ops \subseteq LockedOps

\* The service processes that count: all that run but those whose starter was
\* killed before it could record them, or failed to.
Tracked == Mains \ orphans

\* What runs of the unit, at most, by what an invocation is about to do.
AboutToStart == {"dirs", "pre", "spawn"}
HasStopped   == {"clean", "inactive", "rmdirs"}

\* Whoever is past the lock holds it; kill never takes it and reads and signals only.
LockInv == \A p \in Procs :
              /\ op[p] \in LockedOps \cup {"none"}
              /\ op[p] = "kill" => at[p] \in {"idle", "read", "term", "done"}
              /\ op[p] # "kill" /\ at[p] \notin Outside => lock = p
              /\ at[p] \notin {"exec", "await", "daemonize", "isfailed", "reset"}
              /\ at[p] = "flush" => next[p] \in {"unlock", "inactive", "rmdirs"}

\* A simple unit has no launchers, daemons or tasks.
RoleInv == \A i \in Pids : proc[i].role \notin {"launcher", "daemon", "task"}

\* Between two operations what runs is what the status file names, ...
RecordInv ==
    /\ (\A p \in Procs : at[p] \notin {"record", "flush"}) => Tracked \subseteq {status.main}
\* ... and inside one it is known from the place the operation has reached.
    /\ \A p \in Procs :
          /\ at[p] \in AboutToStart \cup HasStopped => Tracked = {}
          /\ at[p] = "record" => Tracked \subseteq {pid[p]}
          /\ at[p] = "flush" => Tracked \subseteq {cache[p].main}
          /\ at[p] = "flush" /\ next[p] # "unlock" => Tracked = {}
          /\ at[p] \in {"term", "vanish", "kill"} /\ op[p] # "kill" => Tracked \subseteq {pid[p]}
          /\ at[p] = "unlock" /\ op[p] = "stop" => Tracked = {}
          /\ at[p] = "flush" /\ next[p] = "unlock" => op[p] # "stop"
          /\ at[p] \in AboutToStart \cup {"record", "check", "isactive"} => op[p] # "stop"

SimpleInv == TypeInv /\ LockInv /\ RoleInv /\ RecordInv

LEMMA SimpleInvInit == SimpleUnit /\ Init => SimpleInv
<1> SUFFICES ASSUME SimpleUnit, Init PROVE SimpleInv
  OBVIOUS
<1>1. TypeInv
  BY TypeInvInit
<1>2. LockInv
  BY DEF Init, LockInv, Outside
<1>3. RoleInv
  BY DEF Init, RoleInv, NoProcess, Used
<1>4. Tracked = {}
  BY DEF Init, Tracked, Mains, NoProcess, Used
<1>5. RecordInv
  BY <1>4 DEF Init, RecordInv, AboutToStart, HasStopped
<1> QED BY <1>1, <1>2, <1>3, <1>5 DEF SimpleInv

\* The control part: who is where with which lock.
LEMMA LockInvStep == SimpleUnit /\ SimpleInv /\ [Next]_vars => LockInv'
<1> SUFFICES ASSUME SimpleUnit, SimpleInv, [Next]_vars PROVE LockInv'
  OBVIOUS
<1>u. unit' = unit
  BY UnitStays
<1> USE <1>u
<1> USE ServiceAssumption DEF SimpleUnit, SimpleInv, TypeInv, TypeOK, LockInv, Goto, Outside
<1>1. ASSUME NEW p \in Procs, Begin(p) PROVE LockInv'
  BY <1>1 DEF Begin, FirstLabel, LockedOps, Locking, Prechecks
<1>2. ASSUME NEW p \in Procs, Precheck(p) PROVE LockInv'
  BY <1>2 DEF Precheck, Become, LockedOps, Locking, Prechecks
<1>3. ASSUME NEW p \in Procs, Lock(p) \/ LockFails(p) PROVE LockInv'
  BY <1>3 DEF Lock, LockFails
<1>4. ASSUME NEW p \in Procs, Unlock(p) \/ ActiveUnderLock(p) \/ Check(p) \/ Dirs(p) \/ Pre(p)
                                 \/ RmDirs(p)
      PROVE LockInv'
  BY <1>4 DEF Unlock, ActiveUnderLock, Check, Dirs, Pre, RmDirs
<1>5. ASSUME NEW p \in Procs, Spawn(p) PROVE LockInv'
  BY <1>5 DEF Spawn, AfterSpawn
<1>6. ASSUME NEW p \in Procs, Activating(p) \/ Await(p) \/ PidFileAppears(p) \/ LauncherEnds(p)
                                 \/ DaemonizeTimeout(p) \/ IsFailed(p) \/ Reset(p)
      PROVE FALSE
  BY <1>6 DEF Activating, Await, PidFileAppears, LauncherEnds, DaemonizeTimeout, IsFailed, Reset
<1>7. ASSUME NEW p \in Procs, SpawnFails(p) \/ Record(p) \/ Clean(p) \/ Inactive(p)
      PROVE LockInv'
  BY <1>7 DEF SpawnFails, Record, Clean, Inactive, WriteStatus, WriteBegins, WriteFails, LockedOps, Locking, Prechecks
<1>8. ASSUME NEW p \in Procs, Read(p) \/ Term(p) \/ Vanish(p) \/ Kill(p) PROVE LockInv'
  BY <1>8 DEF Read, Term, Vanish, Kill
<1>9. ASSUME NEW p \in Procs, Flush(p) PROVE LockInv'
  BY <1>9 DEF Flush
<1>10. ASSUME NEW p \in Procs, End(p) \/ Crash(p) PROVE LockInv'
  BY <1>10 DEF End, Crash, Gone
<1>11. ASSUME NEW i \in Pids, ProcessStep(i) PROVE LockInv'
  BY <1>11 DEF ProcessStep, ProcessEnds, Reap, DaemonForks, WritePidFile, StrangerStarts
<1>12. ASSUME UNCHANGED vars PROVE LockInv'
  BY <1>12 DEF vars
<1> QED
  BY <1>1, <1>2, <1>3, <1>4, <1>5, <1>6, <1>7, <1>8, <1>9, <1>10, <1>11, <1>12
  DEF Next, Step, StartStep, StopStep

LEMMA RoleInvStep == SimpleUnit /\ SimpleInv /\ [Next]_vars => RoleInv'
<1> SUFFICES ASSUME SimpleUnit, SimpleInv, [Next]_vars PROVE RoleInv'
  OBVIOUS
<1>u. unit' = unit
  BY UnitStays
<1> USE <1>u
<1> USE DEF SimpleUnit, SimpleInv, TypeInv, TypeOK, RoleInv
<1>1. ASSUME NEW p \in Procs, Spawn(p) PROVE RoleInv'
  BY <1>1 DEF Spawn, RoleOf
<1>2. ASSUME NEW p \in Procs, Await(p) \/ LauncherEnds(p) PROVE FALSE
  BY <1>2 DEF Await, LauncherEnds, LockInv
<1>3. ASSUME NEW p \in Procs, Kill(p) PROVE RoleInv'
  BY <1>3 DEF Kill, Process
<1>4. ASSUME NEW p \in Procs, Gone(p) PROVE RoleInv'
  BY <1>4 DEF Gone, Process
<1>5. ASSUME NEW i \in Pids, ProcessStep(i) PROVE RoleInv'
  BY <1>5 DEF ProcessStep, ProcessEnds, Reap, DaemonForks, WritePidFile, StrangerStarts,
              Process, Reaped, Used, NoProcess
<1>6. ASSUME UNCHANGED proc PROVE RoleInv'
  BY <1>6
<1>7. ASSUME NEW p \in Procs, Begin(p) \/ Step(p) \/ Crash(p)
      PROVE  Spawn(p) \/ Await(p) \/ LauncherEnds(p) \/ Kill(p) \/ Gone(p) \/ UNCHANGED proc
  BY <1>7 DEF Step, StartStep, StopStep, Begin, Crash, Precheck, Lock, LockFails, Unlock,
              ActiveUnderLock, Check, Dirs, Pre, Activating, SpawnFails, PidFileAppears,
              DaemonizeTimeout, Record, Read, Term, Vanish, Clean, Inactive, RmDirs, IsFailed,
              Reset, Flush, End
<1>8. CASE UNCHANGED vars
  BY <1>6, <1>8 DEF vars
<1> QED BY <1>1, <1>2, <1>3, <1>4, <1>5, <1>6, <1>7, <1>8 DEF Next

\* Tracked processes only become fewer when processes end, strangers come, or
\* the running ones an invocation has in flight are orphaned.
LEMMA TrackedShrinks ==
    ASSUME proc \in [Pids -> Process], proc' \in [Pids -> Process],
           \A i \in Pids : /\ proc'[i].st = "run" /\ proc'[i].role \in {"main", "daemon"}
                                => proc[i].st = "run" /\ proc[i].role \in {"main", "daemon"}
                           /\ i \in orphans /\ proc'[i].st = "run" => i \in orphans'
    PROVE  Tracked' \subseteq Tracked
BY DEF Tracked, Mains

\* What RecordInv says of one invocation.
RecordInvOf(p) ==
    /\ at[p] \in AboutToStart \cup HasStopped => Tracked = {}
    /\ at[p] = "record" => Tracked \subseteq {pid[p]}
    /\ at[p] = "flush" => Tracked \subseteq {cache[p].main}
    /\ at[p] = "flush" /\ next[p] # "unlock" => Tracked = {}
    /\ at[p] \in {"term", "vanish", "kill"} /\ op[p] # "kill" => Tracked \subseteq {pid[p]}
    /\ at[p] = "unlock" /\ op[p] = "stop" => Tracked = {}
    /\ at[p] = "flush" /\ next[p] = "unlock" => op[p] # "stop"
    /\ at[p] \in AboutToStart \cup {"record", "check", "isactive"} => op[p] # "stop"

\* If the step of p leaves status as it is, or p is not writing any more, it is
\* enough to look at p: the others are outside, or only signal.
LEMMA RecordInvFrame ==
    ASSUME SimpleInv, NEW p \in Procs, TypeOK', LockInv', Tracked' \subseteq Tracked,
           \A q \in Procs \ {p} : /\ at'[q] = at[q] /\ op'[q] = op[q] /\ pid'[q] = pid[q]
                                  /\ next'[q] = next[q] /\ cache'[q] = cache[q],
           RecordInvOf(p)',
           at'[p] \notin {"record", "flush"} /\ (\A q \in Procs \ {p} : at[q] \notin {"record", "flush"})
              => Tracked' \subseteq {status'.main}
    PROVE  RecordInv'
<1>1. ASSUME NEW q \in Procs PROVE RecordInvOf(q)'
  BY <1>1 DEF SimpleInv, RecordInv, RecordInvOf
<1>2. (\A q \in Procs : at[q] \notin {"record", "flush"})' => Tracked' \subseteq {status'.main}
  OBVIOUS
<1> QED BY <1>1, <1>2 DEF RecordInv, RecordInvOf

\* What a step of p leaves alone.
OthersStay(p) == \A q \in Procs \ {p} : /\ at'[q] = at[q] /\ op'[q] = op[q] /\ pid'[q] = pid[q]
                                        /\ next'[q] = next[q] /\ cache'[q] = cache[q]

\* Who works on the unit with the lock is alone with the status file.
LEMMA AloneInside ==
    ASSUME SimpleInv, NEW p \in Procs, at[p] \notin Outside, op[p] # "kill", at[p] \notin {"record", "flush"}
    PROVE  Tracked \subseteq {status.main}
<1>1. \A q \in Procs : at[q] \notin {"record", "flush"}
  BY DEF SimpleInv, LockInv, Outside
<1> QED BY <1>1 DEF SimpleInv, RecordInv

\* A tracked process is one that exists.
LEMMA TrackedExists == ASSUME SimpleInv, NEW i \in Tracked PROVE i \in Pids /\ Exists(i)
BY ServiceAssumption DEF SimpleInv, TypeInv, TypeOK, Tracked, Mains, Exists

LEMMA RecordInvStep == SimpleUnit /\ SimpleInv /\ [Next]_vars => RecordInv'
<1> SUFFICES ASSUME SimpleUnit, SimpleInv, [Next]_vars PROVE RecordInv'
  OBVIOUS
<1>u. unit' = unit
  BY UnitStays
<1> USE <1>u
<1>a. TypeInv /\ TypeOK /\ LockInv /\ RoleInv /\ RecordInv
  BY DEF SimpleInv, TypeInv
<1>b. TypeOK' /\ LockInv'
  BY LockInvStep, TypeInvStep, <1>a DEF TypeInv
<1>1. ASSUME NEW p \in Procs,
             Begin(p) \/ Precheck(p) \/ Lock(p) \/ LockFails(p) \/ Unlock(p) \/ End(p)
      PROVE  RecordInv'
  <2>1. OthersStay(p) /\ status' = status
    BY <1>1, <1>a DEF Begin, Precheck, Become, Lock, LockFails, Unlock, End, Gone, Goto, TypeOK,
                      OthersStay
  <2>2. Tracked' \subseteq Tracked
    <3>1. proc' = proc \/ Gone(p)
      BY <1>1 DEF Begin, Precheck, Lock, LockFails, Unlock, End
    <3>2. orphans' = orphans
      BY <1>1 DEF Begin, Precheck, Lock, LockFails, Unlock, End
    <3>3. \A i \in Pids : proc'[i].st = proc[i].st /\ proc'[i].role = proc[i].role
      BY <1>a, <3>1 DEF Gone, TypeOK, Process
    <3> QED BY <1>a, <1>b, <3>2, <3>3, TrackedShrinks DEF TypeOK
  <2>3. at'[p] \in Outside \cup {"check", "read", "isactive"}
        /\ (at'[p] \in {"check", "isactive"} => op'[p] # "stop")
    BY <1>1, <1>a DEF Begin, Precheck, Become, Lock, LockFails, Unlock, End, Gone, Goto, TypeOK,
                      FirstLabel, SimpleUnit, LockedOps, Locking, Prechecks, Outside
  <2>4. RecordInvOf(p)'
    BY <2>3 DEF RecordInvOf, AboutToStart, HasStopped, Outside
  <2>5. at[p] \notin {"record", "flush"}
    BY <1>1 DEF Begin, Precheck, Lock, LockFails, Unlock, End
  <2>6. (\A q \in Procs \ {p} : at[q] \notin {"record", "flush"}) => Tracked' \subseteq {status'.main}
    BY <1>a, <2>1, <2>2, <2>5 DEF RecordInv
  <2> QED BY <1>b, <2>1, <2>2, <2>4, <2>6, RecordInvFrame DEF OthersStay
<1>2. ASSUME NEW p \in Procs,
             ActiveUnderLock(p) \/ Check(p) \/ Dirs(p) \/ Pre(p) \/ Read(p) \/ Term(p)
                \/ Vanish(p) \/ RmDirs(p)
      PROVE  RecordInv'
  <2>1. OthersStay(p) /\ status' = status /\ op' = op
    BY <1>2, <1>a DEF ActiveUnderLock, Check, Dirs, Pre, Read, Term, Vanish, RmDirs, Goto, TypeOK,
                      OthersStay
  <2>2. Tracked' = Tracked
    BY <1>2 DEF ActiveUnderLock, Check, Dirs, Pre, Read, Term, Vanish, RmDirs, Tracked, Mains
  <2>3. at[p] \notin Outside \cup {"record", "flush"}
    BY <1>2 DEF ActiveUnderLock, Check, Dirs, Pre, Read, Term, Vanish, RmDirs, Outside
  <2>4. op[p] # "kill" => Tracked \subseteq {status.main}
    BY <2>3, AloneInside
  <2>5. RecordInvOf(p)
    BY <1>a DEF RecordInv, RecordInvOf
  <2>6. RecordInvOf(p)'
    <3> USE DEF Goto, TypeOK, RecordInvOf, AboutToStart, HasStopped
    <3>1. CASE ActiveUnderLock(p) \/ Dirs(p) \/ RmDirs(p)
      BY <1>a, <2>1, <2>2, <2>5, <3>1 DEF ActiveUnderLock, Dirs, RmDirs, Restarting
    <3>2. CASE Check(p)
      <4>1. op[p] # "kill"
        BY <1>a, <3>2 DEF Check, LockInv
      <4>2. ~ (IsActive /\ Exists(MainPid)) => Tracked = {}
        <5>1. MainPid = status.main
          BY DEF MainPid, SimpleUnit
        <5>2. Exists(MainPid) => IsActive
          BY DEF IsActive, ActiveState
        <5> QED BY <2>4, <4>1, <5>1, <5>2, TrackedExists
      <4> QED BY <1>a, <2>1, <2>2, <2>5, <3>2, <4>2 DEF Check
    <3>3. CASE Pre(p)
      BY <1>a, <2>1, <2>2, <2>5, <3>3 DEF Pre, SimpleUnit
    <3>4. CASE Read(p)
      <4>1. pid'[p] = status.main
        BY <1>a, <3>4 DEF Read, MainPid, SimpleUnit
      <4> QED BY <1>a, <2>1, <2>2, <2>4, <3>4, <4>1 DEF Read
    <3>5. CASE Term(p) \/ Vanish(p)
      <4>1. ~ Exists(pid[p]) /\ op[p] # "kill" => Tracked = {}
        BY <2>5, <3>5, TrackedExists DEF Term, Vanish
      <4>2. op[p] = "kill" => at'[p] = "done"
        BY <1>a, <3>5 DEF Term, Vanish, LockInv
      <4> QED BY <1>a, <2>1, <2>2, <2>5, <3>5, <4>1, <4>2 DEF Term, Vanish
    <3> QED BY <1>2, <3>1, <3>2, <3>3, <3>4, <3>5
  <2>7. (\A q \in Procs \ {p} : at[q] \notin {"record", "flush"}) => Tracked' \subseteq {status'.main}
    BY <1>a, <2>1, <2>2, <2>3 DEF RecordInv
  <2> QED BY <1>b, <2>1, <2>2, <2>6, <2>7, RecordInvFrame DEF OthersStay
<1>3. ASSUME NEW p \in Procs, SpawnFails(p) \/ Record(p) \/ Clean(p) \/ Inactive(p)
      PROVE  RecordInv'
  <2> USE DEF WriteStatus, WriteBegins, WriteFails
  <2>1. OthersStay(p) /\ op' = op /\ pid' = pid /\ proc' = proc
    BY <1>3, <1>a DEF SpawnFails, Record, Clean, Inactive, Goto, TypeOK, OthersStay
  <2>2. Tracked' \subseteq Tracked
    BY <1>3, <2>1 DEF SpawnFails, Record, Clean, Inactive, Lost, Tracked, Mains
  <2>4. CASE SpawnFails(p)
    <3>1. Tracked = {} /\ op[p] # "stop"
      BY <1>a, <2>4 DEF SpawnFails, RecordInv, AboutToStart
    <3>2. at'[p] \in {"flush", "unlock"}
      BY <1>a, <2>4 DEF SpawnFails, Goto, TypeOK
    <3>3. RecordInvOf(p)'
      BY <2>1, <2>2, <3>1, <3>2 DEF RecordInvOf, AboutToStart, HasStopped
    <3> QED BY <1>b, <2>1, <2>2, <3>1, <3>3, RecordInvFrame DEF OthersStay
  <2>5. CASE Record(p)
    <3>1. Tracked \subseteq {pid[p]} /\ op[p] # "stop"
      BY <1>a, <2>5 DEF Record, RecordInv
    <3>2. CASE WriteBegins(p, [state |-> "active", main |-> pid[p]], "unlock")
      <4>1. cache'[p].main = pid[p] /\ next'[p] = "unlock" /\ at'[p] = "flush"
        BY <1>a, <3>2 DEF Goto, TypeOK
      <4>2. RecordInvOf(p)'
        BY <2>1, <2>2, <3>1, <4>1 DEF RecordInvOf, AboutToStart, HasStopped
      <4> QED BY <1>b, <2>1, <2>2, <4>1, <4>2, RecordInvFrame DEF OthersStay
    <3>3. CASE WriteFails(p, [state |-> "active", main |-> pid[p]], "unlock")
      <4>1. at'[p] = "unlock" /\ status' = status /\ Lost(p)
        BY <1>a, <3>3 DEF Goto, TypeOK
      <4>2. Tracked' \subseteq {status'.main}
        <5>1. Tracked \subseteq InFlight(p)
          BY <2>5, <3>1 DEF Record, InFlight, Tracked, Mains
        <5> QED BY <2>1, <4>1, <5>1 DEF Lost, Tracked, Mains
      <4>3. RecordInvOf(p)'
        BY <2>1, <3>1, <4>1 DEF RecordInvOf, AboutToStart, HasStopped
      <4> QED BY <1>b, <2>1, <2>2, <4>2, <4>3, RecordInvFrame DEF OthersStay
    <3> QED BY <2>5, <3>2, <3>3 DEF Record
  <2>6. CASE Clean(p) \/ Inactive(p)
    <3>1. Tracked = {} /\ op[p] # "kill"
      BY <1>a, <2>6 DEF Clean, Inactive, RecordInv, HasStopped, LockInv
    <3>2. at'[p] \in {"inactive", "rmdirs"} \/ (at'[p] = "flush" /\ next'[p] # "unlock")
      BY <1>a, <2>6, <3>1 DEF Clean, Inactive, Goto, TypeOK, LockInv, LockedOps, Locking, Prechecks
    <3>3. RecordInvOf(p)'
      BY <2>1, <2>2, <3>1, <3>2 DEF RecordInvOf, AboutToStart, HasStopped
    <3> QED BY <1>b, <2>1, <2>2, <3>1, <3>3, RecordInvFrame DEF OthersStay
  <2> QED BY <1>3, <2>4, <2>5, <2>6
<1>4. ASSUME NEW p \in Procs, Flush(p) PROVE RecordInv'
  <2>1. OthersStay(p) /\ op' = op /\ pid' = pid /\ proc' = proc /\ at'[p] = next[p]
    BY <1>4, <1>a DEF Flush, Goto, TypeOK, OthersStay
  <2>2. Tracked' \subseteq Tracked
    BY <1>4, <2>1 DEF Flush, Lost, Tracked, Mains
  <2>3. /\ Tracked \subseteq {cache[p].main}
        /\ next[p] \in {"unlock", "inactive", "rmdirs"}
        /\ next[p] # "unlock" => Tracked = {}
        /\ next[p] = "unlock" => op[p] # "stop"
    BY <1>4, <1>a DEF Flush, RecordInv, LockInv
  <2>4. RecordInvOf(p)'
    BY <2>1, <2>2, <2>3 DEF RecordInvOf, AboutToStart, HasStopped
  <2>5. Tracked' \subseteq {status'.main}
    <3>1. CASE status' = cache[p]
      BY <2>2, <2>3, <3>1
    <3>2. CASE status' # cache[p]
      <4>1. Tracked \subseteq InFlight(p)
        BY <1>4, <2>3 DEF Flush, InFlight, Tracked, Mains
      <4>2. Lost(p)
        BY <1>4, <3>2 DEF Flush
      <4> QED BY <2>1, <4>1, <4>2 DEF Lost, Tracked, Mains
    <3> QED BY <3>1, <3>2
  <2> QED BY <1>b, <2>1, <2>2, <2>4, <2>5, RecordInvFrame DEF OthersStay
<1>5. ASSUME NEW p \in Procs, Spawn(p) PROVE RecordInv'
  <2>1. /\ Tracked = {}
        /\ op[p] \notin {"stop", "kill"}
        /\ \A q \in Procs \ {p} : at[q] \in Outside \/ op[q] = "kill"
    BY <1>5, <1>a DEF Spawn, RecordInv, LockInv, AboutToStart, Outside
  <2>2. /\ OthersStay(p) /\ op' = op
        /\ at'[p] = "record"
    BY <1>5, <1>a DEF Spawn, AfterSpawn, SimpleUnit, Goto, TypeOK, OthersStay
  <2>3. PICK i \in Pids : /\ proc' = [proc EXCEPT ![i] = [st |-> "run", role |-> RoleOf, parent |-> p]]
                          /\ pid' = [pid EXCEPT ![p] = i]
    BY <1>5 DEF Spawn
  <2>4. \A k \in Pids \ {i} : proc'[k] = proc[k]
    BY <1>a, <2>3 DEF TypeOK
  <2>5. Tracked' \subseteq {i}
    <3>1. orphans' = orphans
      BY <1>5 DEF Spawn
    <3> QED BY <2>1, <2>4, <3>1 DEF Tracked, Mains
  <2>6. pid'[p] = i
    BY <1>a, <2>3 DEF TypeOK
  <2>7. RecordInvOf(p)'
    BY <2>1, <2>2, <2>5, <2>6 DEF RecordInvOf, AboutToStart, HasStopped
  <2>8. ASSUME NEW q \in Procs \ {p} PROVE RecordInvOf(q)'
    <3>1. at'[q] \in Outside \/ op'[q] = "kill"
      BY <2>1, <2>2 DEF OthersStay
    <3> QED BY <1>b, <3>1 DEF RecordInvOf, AboutToStart, HasStopped, Outside, LockInv
  <2>9. ~ (\A q \in Procs : at[q] \notin {"record", "flush"})'
    BY <2>2
  <2> QED BY <2>7, <2>8, <2>9 DEF RecordInv, RecordInvOf
<1>6. ASSUME NEW p \in Procs, Kill(p) PROVE RecordInv'
  <2>1. op[p] # "kill" /\ Tracked \subseteq {pid[p]}
    BY <1>6, <1>a DEF Kill, RecordInv, LockInv
  <2>2. OthersStay(p) /\ op' = op /\ at'[p] = "clean"
    BY <1>6, <1>a DEF Kill, Goto, TypeOK, OthersStay
  <2>3. Tracked' = {}
    <3>1. CASE Exists(pid[p])
      <4>1. pid[p] \in Pids
        BY <1>a, <3>1 DEF Exists, TypeOK
      <4>2. proc' = [proc EXCEPT ![pid[p]].st = "zombie"] /\ orphans' = orphans \ {pid[p]}
        BY <1>6, <3>1 DEF Kill
      <4>3. proc'[pid[p]].st = "zombie" /\ \A k \in Pids \ {pid[p]} : proc'[k] = proc[k]
        BY <1>a, <4>1, <4>2 DEF TypeOK, Process
      <4> QED BY <2>1, <4>2, <4>3 DEF Tracked, Mains
    <3>2. CASE ~ Exists(pid[p])
      <4>1. Tracked = {}
        BY <2>1, <3>2, TrackedExists
      <4>2. proc' = proc /\ orphans' = orphans
        BY <1>6, <3>2 DEF Kill
      <4> QED BY <4>1, <4>2 DEF Tracked, Mains
    <3> QED BY <3>1, <3>2
  <2>4. RecordInvOf(p)'
    BY <2>2, <2>3 DEF RecordInvOf, AboutToStart, HasStopped
  <2> QED BY <1>b, <2>2, <2>3, <2>4, RecordInvFrame DEF OthersStay
<1>7. ASSUME NEW p \in Procs, Crash(p) PROVE RecordInv'
  <2>1. /\ OthersStay(p) /\ at'[p] = "idle" /\ status' = status
        /\ orphans' = orphans \cup InFlight(p)
    BY <1>7, <1>a DEF Crash, Gone, Goto, TypeOK, OthersStay
  <2>2. \A i \in Pids : proc'[i].st = proc[i].st /\ proc'[i].role = proc[i].role
    BY <1>7, <1>a DEF Crash, Gone, TypeOK, Process
  <2>3. Tracked' = Tracked \ InFlight(p)
    BY <2>1, <2>2 DEF Tracked, Mains
  <2>4. at[p] \in {"record", "flush"} => Tracked \subseteq InFlight(p)
    <3>1. ASSUME at[p] \in {"record", "flush"}, NEW i \in Tracked PROVE i \in InFlight(p)
      <4>1. i \in Pids /\ proc[i].st = "run"
        BY DEF Tracked, Mains
      <4>2. \/ at[p] = "record" /\ i = pid[p]
            \/ at[p] = "flush" /\ next[p] = "unlock" /\ cache[p].main = i
        BY <1>a, <3>1 DEF RecordInv
      <4> QED BY <4>1, <4>2 DEF InFlight
    <3> QED BY <3>1
  <2>5. RecordInvOf(p)'
    BY <2>1 DEF RecordInvOf, AboutToStart, HasStopped
  <2>6. (\A q \in Procs \ {p} : at[q] \notin {"record", "flush"}) => Tracked' \subseteq {status'.main}
    BY <1>a, <2>1, <2>3, <2>4 DEF RecordInv
  <2>7. Tracked' \subseteq Tracked
    BY <2>3
  <2> QED BY <1>b, <2>1, <2>5, <2>6, <2>7, RecordInvFrame DEF OthersStay
<1>8. ASSUME NEW i \in Pids, ProcessStep(i) PROVE RecordInv'
  <2>1. at' = at /\ op' = op /\ pid' = pid /\ next' = next /\ cache' = cache /\ status' = status
    BY <1>8, <1>a DEF ProcessStep, ProcessEnds, Reap, DaemonForks, WritePidFile, StrangerStarts,
                      RoleInv
  <2>2. Tracked' \subseteq Tracked
    <3>1. \A k \in Pids \ {i} : proc'[k] = proc[k]
      BY <1>8, <1>a DEF ProcessStep, ProcessEnds, Reap, DaemonForks, WritePidFile, StrangerStarts,
                        RoleInv, TypeOK
    <3>2. proc'[i].st # "run" \/ proc'[i].role = "stranger"
      BY <1>8, <1>a DEF ProcessStep, ProcessEnds, Reap, DaemonForks, WritePidFile, StrangerStarts,
                        RoleInv, TypeOK, Process, Reaped, Used, NoProcess
    <3>3. \A k \in Pids : k \in orphans /\ proc'[k].st = "run" => k \in orphans'
      BY <1>8, <1>a, <3>1, <3>2 DEF ProcessStep, ProcessEnds, Reap, DaemonForks, WritePidFile,
                        StrangerStarts, RoleInv, TypeOK, Process
    <3> QED BY <1>a, <1>b, <3>1, <3>2, <3>3, TrackedShrinks DEF TypeOK
  <2> QED BY <1>a, <2>1, <2>2 DEF RecordInv
<1>9. ASSUME UNCHANGED vars PROVE RecordInv'
  BY <1>9, <1>a DEF vars, RecordInv, Tracked, Mains
<1>10. ASSUME NEW p \in Procs, Activating(p) \/ Await(p) \/ PidFileAppears(p) \/ LauncherEnds(p)
                                 \/ DaemonizeTimeout(p) \/ IsFailed(p) \/ Reset(p)
      PROVE FALSE
  BY <1>10, <1>a DEF Activating, Await, PidFileAppears, LauncherEnds, DaemonizeTimeout, IsFailed,
                     Reset, LockInv
<1> QED
  BY <1>1, <1>2, <1>3, <1>4, <1>5, <1>6, <1>7, <1>8, <1>9, <1>10
  DEF Next, Step, StartStep, StopStep

LEMMA SimpleInvAlways == Spec /\ SimpleUnit => [](SimpleUnit /\ SimpleInv)
<1>1. Init /\ SimpleUnit => SimpleInv
  BY SimpleInvInit
<1>2. SimpleUnit /\ SimpleInv /\ [Next]_vars => SimpleUnit' /\ SimpleInv'
  BY UnitStays, TypeInvStep, LockInvStep, RoleInvStep, RecordInvStep DEF SimpleUnit, SimpleInv
<1> QED BY <1>1, <1>2, PTL DEF Spec

LEMMA AtMostOne == ASSUME NEW S, NEW x, S \subseteq {x} PROVE Cardinality(S) <= 1
<1>1. S = {} \/ S = {x}
  OBVIOUS
<1>2. Cardinality({}) = 0 /\ Cardinality({x}) = 1
  BY FS_EmptySet, FS_Singleton
<1> QED BY <1>1, <1>2

\* A simple unit never runs twice, whatever number of invocations start, stop,
\* restart, try-restart, reload or kill it, are killed themselves between any two
\* of their steps or fail to write a file, and whatever process ids are given out
\* again: but for a process that was never recorded.
THEOREM SimpleRunsOnce == Spec /\ SimpleUnit => []SingleInstance
<1>1. SimpleInv => SingleInstance
  <2> SUFFICES ASSUME SimpleInv PROVE \E x : Tracked \subseteq {x}
    BY AtMostOne DEF SingleInstance, Tracked
  <2>1. CASE \A p \in Procs : at[p] \notin {"record", "flush"}
    BY <2>1 DEF SimpleInv, RecordInv
  <2>2. ASSUME NEW p \in Procs, at[p] = "record" PROVE Tracked \subseteq {pid[p]}
    BY <2>2 DEF SimpleInv, RecordInv
  <2>3. ASSUME NEW p \in Procs, at[p] = "flush" PROVE Tracked \subseteq {cache[p].main}
    BY <2>3 DEF SimpleInv, RecordInv
  <2> QED BY <2>1, <2>2, <2>3
<1> QED BY <1>1, SimpleInvAlways, PTL

\* Every running process of a simple unit is the one the status file names, or
\* the one an invocation is about to record, or its starter was killed before it recorded it, or
\* failed to write the record.
THEOREM SimpleIsRecorded == Spec /\ SimpleUnit => []RunningIsRecorded
<1>1. SimpleUnit /\ SimpleInv => RunningIsRecorded
  <2> SUFFICES ASSUME SimpleUnit, SimpleInv, NEW i \in Tracked
               PROVE  i = MainPid \/ \E p \in Procs : i \in InFlight(p)
    BY DEF RunningIsRecorded, Tracked
  <2>1. i \in Pids /\ proc[i].st = "run"
    BY DEF Tracked, Mains
  <2>2. CASE \A p \in Procs : at[p] \notin {"record", "flush"}
    BY <2>2 DEF SimpleInv, RecordInv, MainPid, SimpleUnit
  <2>3. ASSUME NEW p \in Procs, at[p] \in {"record", "flush"} PROVE i \in InFlight(p)
    <3>1. \/ at[p] = "record" /\ i = pid[p]
          \/ at[p] = "flush" /\ next[p] = "unlock" /\ cache[p].main = i
      BY <2>3 DEF SimpleInv, RecordInv
    <3> QED BY <2>1, <3>1 DEF InFlight
  <2> QED BY <2>2, <2>3
<1> QED BY <1>1, SimpleInvAlways, PTL

\* A stop of a simple unit that comes to its end leaves nothing running that was
\* ever recorded, although the service may ignore the stop signal.
THEOREM SimpleStops == Spec /\ SimpleUnit => []StopLeavesNothing
<1>1. SimpleInv => StopLeavesNothing
  BY DEF SimpleInv, RecordInv, HasStopped, StopLeavesNothing, Tracked
<1> QED BY <1>1, SimpleInvAlways, PTL

-----------------------------------------------------------------------------
(* The runtime directory.                                                  *)

\* No stop, and no stop half of a restart, takes the runtime directory from a service
\* that another invocation has started, or from a start that has made it.
THEOREM SimpleKeepsDirectory == Spec /\ SimpleUnit => RuntimeDirStays
<1>1. ASSUME SimpleUnit, SimpleInv, [Next]_vars, rundir, ~ rundir'
      PROVE  /\ Mains \subseteq orphans
             /\ \A p \in Procs : at[p] \notin {"pre", "exec", "spawn", "await", "daemonize",
                                             "record"}
  <2>1. PICK p \in Procs : RmDirs(p)
    <3>1. ASSUME NEW p \in Procs, Begin(p) \/ Step(p) \/ Crash(p), ~ RmDirs(p) PROVE FALSE
      BY <1>1, <3>1
      DEF Step, StartStep, StopStep, Begin, Crash, Precheck, Lock, LockFails, Unlock,
          ActiveUnderLock, Check, Dirs, Pre, Activating, Spawn, SpawnFails, Await, PidFileAppears,
          LauncherEnds, DaemonizeTimeout, Record, Read, Term, Vanish, Kill, Clean, Inactive,
          IsFailed, Reset, Flush, End, files
    <3>2. ASSUME NEW i \in Pids, ProcessStep(i) PROVE FALSE
      BY <1>1, <3>2
      DEF ProcessStep, ProcessEnds, Reap, DaemonForks, WritePidFile, StrangerStarts, files
    <3>3. ~ UNCHANGED vars
      BY <1>1 DEF vars
    <3> QED BY <1>1, <3>1, <3>2, <3>3 DEF Next
  <2>2. at[p] = "rmdirs" /\ op[p] # "kill" /\ lock = p
    BY <1>1, <2>1 DEF RmDirs, SimpleInv, LockInv, Outside
  <2>3. Tracked = {}
    BY <1>1, <2>2 DEF SimpleInv, RecordInv, HasStopped
  <2>4. ASSUME NEW q \in Procs, at[q] \in {"pre", "exec", "spawn", "await", "daemonize", "record"}
        PROVE  FALSE
    <3>1. op[q] # "kill" /\ lock = q
      BY <1>1, <2>4 DEF SimpleInv, LockInv, Outside
    <3> QED BY <2>2, <2>4, <3>1
  <2> QED BY <2>3, <2>4 DEF Tracked
<1>2. SimpleUnit /\ SimpleInv /\ [Next]_vars =>
         [rundir /\ ~ rundir' =>
             /\ Mains \subseteq orphans
             /\ \A p \in Procs : at[p] \notin {"pre", "exec", "spawn", "await", "daemonize",
                                             "record"}]_vars
  BY <1>1
<1> QED BY <1>2, SimpleInvAlways, PTL DEF Spec, RuntimeDirStays

-----------------------------------------------------------------------------
(* A unit of Type=oneshot, when nobody is killed and files can be written. *)

\* A oneshot unit whose invocations come to their ends and can write its files.
OneshotUnit == unit.Type = "oneshot" /\ ~ unit.Crashes /\ ~ unit.Faults

\* Whose write of "activating" the status file may hold: it has the lock, and writes
\* another state before it gives it back.
Announced(p) == at[p] \in {"spawn", "await"} \/ (at[p] = "flush" /\ next[p] = "spawn")

\* Who is where with which lock.  No files name a process, so that halt and kill
\* find nothing to do; and nobody is in the paths of other types.
OneshotControl(p) ==
    /\ op[p] \in {"halt", "kill"} => at[p] \in {"idle", "read", "done"}
    /\ op[p] = "reset-failed" => at[p] \in {"isfailed", "reset", "flush", "done"}
    /\ op[p] \notin Unlocked => at[p] \notin {"isfailed", "reset"}
    /\ op[p] \notin Unlocked /\ at[p] \notin Outside => lock = p
    /\ at[p] \notin {"daemonize", "record", "vanish", "kill"}
    /\ at[p] = "flush" => IF op[p] = "reset-failed" THEN next[p] = "done"
                          ELSE next[p] \in {"unlock", "inactive", "rmdirs", "spawn"}
    /\ pid[p] = None \/ at[p] # "term"
    /\ cache[p].main = None

OneshotFiles == /\ status.main = None /\ pidfile = None
                /\ \A i \in Pids : proc[i].role \notin {"launcher", "daemon", "main"}

\* A command that runs is the one its invocation waits for.
TaskInv == \A i \in Pids : proc[i].st = "run" /\ proc[i].role = "task" =>
              \E p \in Procs : lock = p /\ at[p] = "await" /\ pid[p] = i

\* Who may say "activating".
ActivatingInv == /\ status.state = "activating" => \E p \in Procs : lock = p /\ Announced(p)
                 /\ \A p \in Procs : cache[p].state = "activating" => Announced(p)

OneshotInv == /\ TypeInv /\ OneshotFiles
              /\ \A p \in Procs : OneshotControl(p)
              /\ TaskInv /\ ActivatingInv

LEMMA OneshotInvInit == OneshotUnit /\ Init => OneshotInv
<1> SUFFICES ASSUME OneshotUnit, Init PROVE OneshotInv
  OBVIOUS
<1>1. TypeInv
  BY TypeInvInit
<1>2. OneshotFiles /\ TaskInv
  BY DEF Init, Empty, NoProcess, Used, OneshotFiles, TaskInv
<1>3. \A p \in Procs : OneshotControl(p)
  BY DEF Init, OneshotControl, Unlocked, Outside, NoCache
<1>4. ActivatingInv
  BY DEF Init, ActivatingInv, NoCache, Empty
<1> QED BY <1>1, <1>2, <1>3, <1>4 DEF OneshotInv

\* No file names a process.
LEMMA OneshotHasNoMain == ASSUME OneshotInv PROVE MainPid = None /\ ~ Exists(MainPid)
BY DEF OneshotInv, OneshotFiles, MainPid, Exists

\* What is written names none, either.
LEMMA OneshotWrites ==
    ASSUME OneshotUnit, OneshotInv, NEW p \in Procs, NEW s, NEW l,
           WriteStatus(p, [Known(p) EXCEPT !.state = s], l)
    PROVE  /\ cache'[p].main = None /\ cache'[p].state = s
           /\ next'[p] = l /\ at'[p] = "flush" /\ status' = Empty
<1>1. Known(p) \in Status /\ Known(p).main = None
  BY KnownType DEF OneshotInv, OneshotControl, OneshotFiles, Known
<1> QED BY <1>1 DEF WriteStatus, WriteBegins, WriteFails, OneshotUnit, Goto, OneshotInv, TypeInv, TypeOK, Status

\* Where a step of p leaves p.
LEMMA OneshotControlStep ==
    OneshotUnit /\ OneshotInv /\ [Next]_vars => \A p \in Procs : OneshotControl(p)'
<1> SUFFICES ASSUME OneshotUnit, OneshotInv, [Next]_vars, NEW q \in Procs
             PROVE  OneshotControl(q)'
  OBVIOUS
<1>u. unit' = unit
  BY UnitStays
<1> USE <1>u
<1> USE ServiceAssumption
<1>a. TypeOK /\ \A p \in Procs : OneshotControl(p)
  BY DEF OneshotInv, TypeInv
<1>1. ASSUME NEW p \in Procs, Begin(p) \/ Precheck(p) PROVE OneshotControl(q)'
  BY <1>1, <1>a, UnitType DEF OneshotControl, TypeOK, Goto, Outside, Begin, FirstLabel, Precheck, Become,
                    Locking, Prechecks, Unlocked
<1>2. ASSUME NEW p \in Procs,
             Lock(p) \/ LockFails(p) \/ Unlock(p) \/ ActiveUnderLock(p) \/ Check(p)
                \/ Dirs(p) \/ Pre(p) \/ RmDirs(p)
      PROVE  OneshotControl(q)'
  BY <1>2, <1>a DEF OneshotControl, TypeOK, Goto, Outside, Unlocked, Lock, LockFails, Unlock,
                    ActiveUnderLock, Check, Dirs, Pre, RmDirs
<1>3. ASSUME NEW p \in Procs, Activating(p) \/ SpawnFails(p) \/ Inactive(p) \/ Reset(p)
      PROVE  OneshotControl(q)'
  <2>1. PICK s \in States, l \in {"spawn", "unlock", "rmdirs", "done"} :
            /\ WriteStatus(p, [Known(p) EXCEPT !.state = s], l)
            /\ l = "done" <=> op[p] \in Unlocked
    BY <1>3, <1>a DEF Activating, SpawnFails, Inactive, Reset, States, OneshotControl, Unlocked
  <2>2. op' = op /\ pid' = pid /\ lock' = lock
    BY <1>3 DEF Activating, SpawnFails, Inactive, Reset
  <2>3. op[p] \in Unlocked => op[p] = "reset-failed"
    BY <1>3, <1>a DEF Activating, SpawnFails, Inactive, Reset, OneshotControl, Unlocked
  <2>4. at[p] \notin Outside
    BY <1>3 DEF Activating, SpawnFails, Inactive, Reset, Outside
  <2>5. CASE q = p
    <3>1. /\ cache'[q].main = None
          /\ next'[q] = l /\ at'[q] = "flush"
      BY <2>1, <2>5, OneshotWrites
    <3> QED BY <1>a, <2>1, <2>2, <2>3, <2>4, <2>5, <3>1 DEF OneshotControl, Outside, Unlocked
  <2>6. CASE q # p
    BY <1>a, <2>1, <2>2, <2>6 DEF OneshotControl, WriteStatus, WriteBegins, WriteFails, OneshotUnit, TypeOK, Goto
  <2> QED BY <2>5, <2>6
<1>4. ASSUME NEW p \in Procs, Clean(p) PROVE OneshotControl(q)'
  <2>1. [Known(p) EXCEPT !.main = None].main = None
    <3>1. Known(p) \in Status
      BY KnownType DEF OneshotInv
    <3> QED BY <3>1 DEF Status
  <2> QED BY <1>4, <1>a, <2>1 DEF Clean, OneshotControl, WriteStatus, WriteBegins, WriteFails, OneshotUnit, TypeOK, Goto, Outside, Unlocked
<1>5. ASSUME NEW p \in Procs, Spawn(p) PROVE OneshotControl(q)'
  BY <1>5, <1>a DEF Spawn, AfterSpawn, OneshotUnit, OneshotControl, TypeOK, Goto, Outside
<1>6. ASSUME NEW p \in Procs, Await(p) PROVE OneshotControl(q)'
  <2>1. op' = op /\ pid' = pid /\ lock' = lock /\ at[p] = "await"
    BY <1>6 DEF Await
  <2>2. ASSUME NEW s, WriteStatus(p, [Known(p) EXCEPT !.state = s], "unlock")
        PROVE  OneshotControl(q)'
    <3>1. CASE q = p
      <4>1. cache'[q].main = None /\ next'[q] = "unlock" /\ at'[q] = "flush"
        BY <2>2, <3>1, OneshotWrites
      <4> QED BY <1>a, <2>1, <3>1, <4>1 DEF OneshotControl, Outside, Unlocked
    <3>2. CASE q # p
      BY <1>a, <2>1, <2>2, <3>2 DEF OneshotControl, WriteStatus, WriteBegins, WriteFails, OneshotUnit, TypeOK, Goto
    <3> QED BY <3>1, <3>2
  <2>3. ASSUME Goto(p, "spawn"), UNCHANGED <<next, cache, status>> PROVE OneshotControl(q)'
    BY <1>a, <2>1, <2>3 DEF OneshotControl, Goto, TypeOK, Outside
  <2> QED BY <1>6, <2>2, <2>3 DEF Await
<1>7. ASSUME NEW p \in Procs, Read(p) \/ Term(p) \/ IsFailed(p) PROVE OneshotControl(q)'
  <2>1. MainPid = None /\ ~ Exists(MainPid)
    BY OneshotHasNoMain
  <2>2. at[p] = "term" => ~ Exists(pid[p])
    BY <1>a DEF OneshotControl, Exists
  <2>3. CASE Read(p)
    BY <2>3, <1>a, <2>1 DEF Read, OneshotControl, TypeOK, Goto, Outside, Unlocked
  <2>4. CASE Term(p)
    BY <2>4, <1>a, <2>2 DEF Term, OneshotControl, TypeOK, Goto, Outside, Unlocked
  <2>5. CASE IsFailed(p)
    BY <2>5, <1>a DEF IsFailed, OneshotControl, TypeOK, Goto, Outside, Unlocked
  <2> QED BY <1>7, <2>3, <2>4, <2>5
<1>8. ASSUME NEW p \in Procs, Flush(p) PROVE OneshotControl(q)'
  BY <1>8, <1>a DEF Flush, OneshotControl, TypeOK, Goto, Outside, Unlocked
<1>9. ASSUME NEW p \in Procs, End(p) PROVE OneshotControl(q)'
  BY <1>9, <1>a DEF End, Gone, OneshotControl, TypeOK, Goto, Outside, Unlocked, NoCache
<1>10. ASSUME NEW p \in Procs, PidFileAppears(p) \/ LauncherEnds(p) \/ DaemonizeTimeout(p)
                                 \/ Record(p) \/ Vanish(p) \/ Kill(p) \/ Crash(p)
       PROVE FALSE
  BY <1>10, <1>a DEF PidFileAppears, LauncherEnds, DaemonizeTimeout, Record, Vanish, Kill, Crash,
                     OneshotControl, OneshotUnit
<1>11. ASSUME NEW i \in Pids, ProcessStep(i) PROVE OneshotControl(q)'
  BY <1>11, <1>a DEF ProcessStep, ProcessEnds, Reap, DaemonForks, WritePidFile, StrangerStarts,
                     OneshotControl
<1>12. ASSUME UNCHANGED vars PROVE OneshotControl(q)'
  BY <1>12, <1>a DEF vars, OneshotControl
<1> QED
  BY <1>1, <1>2, <1>3, <1>4, <1>5, <1>6, <1>7, <1>8, <1>9, <1>10, <1>11, <1>12
  DEF Next, Step, StartStep, StopStep

\* No path of another type is taken.
LEMMA OneshotPaths ==
    ASSUME OneshotUnit, OneshotInv, NEW p \in Procs
    PROVE  ~ (PidFileAppears(p) \/ LauncherEnds(p) \/ DaemonizeTimeout(p) \/ Record(p)
                 \/ Vanish(p) \/ Kill(p) \/ Crash(p))
BY DEF PidFileAppears, LauncherEnds, DaemonizeTimeout, Record, Vanish, Kill, Crash, OneshotInv,
       OneshotControl, OneshotUnit

\* What a step does to the processes: only the spawn adds one, as the task of its
\* invocation; and nobody of the unit's own is a daemon.
LEMMA OneshotFilesStep == OneshotUnit /\ OneshotInv /\ [Next]_vars => OneshotFiles'
<1> SUFFICES ASSUME OneshotUnit, OneshotInv, [Next]_vars PROVE OneshotFiles'
  OBVIOUS
<1>u. unit' = unit
  BY UnitStays
<1> USE <1>u
<1>a. TypeInv /\ TypeOK /\ OneshotFiles /\ \A p \in Procs : OneshotControl(p)
  BY DEF OneshotInv, TypeInv
<1>1. ASSUME NEW p \in Procs, Await(p) PROVE OneshotFiles'
  <2>1. status'.main = None /\ pidfile' = pidfile
    BY <1>1, <1>a DEF Await, WriteStatus, WriteBegins, WriteFails, OneshotUnit, Empty, OneshotFiles, files
  <2>2. \A i \in Pids : proc'[i] = proc[i] \/ proc'[i] = Reaped
    BY <1>1, <1>a DEF Await, TypeOK
  <2> QED BY <1>a, <2>1, <2>2 DEF OneshotFiles, Reaped, Used, NoProcess
<1>2. ASSUME NEW p \in Procs, Spawn(p) PROVE OneshotFiles'
  BY <1>2, <1>a DEF Spawn, RoleOf, OneshotUnit, OneshotFiles, files, TypeOK
<1>3. ASSUME NEW p \in Procs, Activating(p) \/ SpawnFails(p) \/ Inactive(p) \/ Reset(p) \/ Clean(p)
      PROVE  OneshotFiles'
  BY <1>3, <1>a DEF Activating, SpawnFails, Inactive, Reset, Clean, WriteStatus, WriteBegins, WriteFails, OneshotUnit, Empty, OneshotFiles,
                    files
<1>4. ASSUME NEW p \in Procs, Flush(p) PROVE OneshotFiles'
  BY <1>4, <1>a DEF Flush, OneshotControl, OneshotFiles, OneshotUnit, files
<1>5. ASSUME NEW p \in Procs, End(p) PROVE OneshotFiles'
  BY <1>5, <1>a DEF End, Gone, OneshotFiles, files, TypeOK, Process
<1>6. ASSUME UNCHANGED <<status, pidfile, proc>> PROVE OneshotFiles'
  BY <1>6, <1>a DEF OneshotFiles
<1>7. ASSUME NEW p \in Procs,
             Begin(p) \/ Precheck(p) \/ Lock(p) \/ LockFails(p) \/ Unlock(p) \/ ActiveUnderLock(p)
                \/ Check(p) \/ Dirs(p) \/ Pre(p) \/ Read(p) \/ Term(p) \/ RmDirs(p) \/ IsFailed(p)
      PROVE  OneshotFiles'
  <2>1. UNCHANGED <<status, pidfile, proc>>
    BY <1>7 DEF Begin, Precheck, Lock, LockFails, Unlock, ActiveUnderLock, Check, Dirs, Pre, Read,
                Term, RmDirs, IsFailed, files
  <2> QED BY <1>6, <2>1
<1>8. ASSUME NEW i \in Pids, ProcessStep(i) PROVE OneshotFiles'
  <2>1. status' = status /\ pidfile' = pidfile
    BY <1>8, <1>a DEF ProcessStep, ProcessEnds, Reap, DaemonForks, WritePidFile, StrangerStarts,
                      OneshotFiles, files
  <2>2. \A k \in Pids : \/ proc'[k].role = proc[k].role
                        \/ proc'[k].role \in {"nobody", "past", "stranger"}
    BY <1>8, <1>a DEF ProcessStep, ProcessEnds, Reap, DaemonForks, WritePidFile, StrangerStarts,
                      OneshotFiles, TypeOK, Process, Reaped, Used, NoProcess
  <2> QED BY <1>a, <2>1, <2>2 DEF OneshotFiles
<1>9. CASE UNCHANGED vars
  BY <1>6, <1>9 DEF vars
<1> QED
  BY <1>1, <1>2, <1>3, <1>4, <1>5, <1>7, <1>8, <1>9, OneshotPaths
  DEF Next, Step, StartStep, StopStep

\* The commands that run.
Tasks == {i \in Pids : proc[i].st = "run" /\ proc[i].role = "task"}

\* Who has the lock and does not wait for a command has none.
LEMMA NoTasks ==
    ASSUME OneshotInv, NEW p \in Procs, lock = p, at[p] # "await"
    PROVE  Tasks = {}
BY DEF OneshotInv, TaskInv, Tasks

\* Who is where the lock is needed has it.
LEMMA OneshotHasLock ==
    ASSUME OneshotInv, NEW p \in Procs,
           at[p] \in {"isactive", "check", "dirs", "pre", "exec", "spawn", "await", "term", "clean",
                      "inactive", "rmdirs", "unlock"}
    PROVE  lock = p
BY DEF OneshotInv, OneshotControl, Unlocked, Outside

LEMMA TaskInvStep == OneshotUnit /\ OneshotInv /\ [Next]_vars => TaskInv'
<1> SUFFICES ASSUME OneshotUnit, OneshotInv, [Next]_vars PROVE TaskInv'
  OBVIOUS
<1>u. unit' = unit
  BY UnitStays
<1> USE <1>u
<1>a. TypeInv /\ TypeOK /\ OneshotFiles /\ TaskInv
  BY DEF OneshotInv, TypeInv
<1>1. ASSUME NEW p \in Procs, Spawn(p) PROVE TaskInv'
  <2>1. lock = p /\ Tasks = {}
    BY <1>1, OneshotHasLock, NoTasks DEF Spawn
  <2>2. PICK i \in Pids : proc' = [proc EXCEPT ![i] = [st |-> "run", role |-> RoleOf, parent |-> p]]
                          /\ pid' = [pid EXCEPT ![p] = i]
    BY <1>1 DEF Spawn
  <2>3. lock' = p /\ at'[p] = "await" /\ pid'[p] = i
    BY <1>1, <1>a, <2>1, <2>2 DEF Spawn, AfterSpawn, OneshotUnit, Goto, TypeOK
  <2>4. \A k \in Pids : proc'[k].st = "run" /\ proc'[k].role = "task" => k = i
    BY <1>a, <2>1, <2>2 DEF Tasks, TypeOK
  <2> QED BY <2>3, <2>4 DEF TaskInv
<1>2. ASSUME NEW p \in Procs, Await(p) PROVE TaskInv'
  <2>1. lock = p
    BY <1>2, OneshotHasLock DEF Await
  <2>2. \A k \in Pids : proc[k].st = "run" /\ proc[k].role = "task" => k = pid[p]
    BY <1>2, <1>a, <2>1 DEF TaskInv, Await
  <2>3. Tasks = {}
    BY <1>2, <2>2 DEF Tasks, Await
  <2>4. \A k \in Pids : proc'[k] = proc[k] \/ proc'[k].st = "free"
    BY <1>2, <1>a DEF Await, TypeOK, Reaped, Used, NoProcess
  <2> QED BY <2>3, <2>4 DEF TaskInv, Tasks
<1>3. ASSUME NEW p \in Procs, Unlock(p) PROVE TaskInv'
  <2>1. Tasks = {}
    BY <1>3, OneshotHasLock, NoTasks DEF Unlock
  <2> QED BY <1>3, <2>1 DEF Unlock, TaskInv, Tasks
<1>4. ASSUME \A k \in Pids : proc'[k].st = "run" /\ proc'[k].role = "task" => k \in Tasks,
             \A p \in Procs : at[p] = "await" /\ lock = p =>
                at'[p] = "await" /\ lock' = p /\ pid'[p] = pid[p]
      PROVE  TaskInv'
  BY <1>4, <1>a DEF TaskInv, Tasks
<1>5. ASSUME NEW p \in Procs,
             Begin(p) \/ Precheck(p) \/ Lock(p) \/ LockFails(p) \/ ActiveUnderLock(p)
                \/ Check(p) \/ Dirs(p) \/ Pre(p) \/ Read(p) \/ Term(p) \/ RmDirs(p) \/ IsFailed(p)
                \/ Flush(p)
      PROVE  TaskInv'
  <2>1. proc' = proc /\ at[p] # "await"
    BY <1>5 DEF Begin, Precheck, Lock, LockFails, ActiveUnderLock, Check, Dirs, Pre, Read,
                Term, RmDirs, IsFailed, Flush
  <2>2. \A q \in Procs \ {p} : at'[q] = at[q] /\ pid'[q] = pid[q]
    BY <1>5, <1>a DEF Begin, Precheck, Become, Lock, LockFails, ActiveUnderLock, Check, Dirs, Pre, Read,
                Term, RmDirs, IsFailed, Flush, Goto, TypeOK
  <2>3. lock' = lock \/ lock = None
    BY <1>5 DEF Begin, Precheck, Lock, LockFails, ActiveUnderLock, Check, Dirs, Pre, Read,
                Term, RmDirs, IsFailed, Flush
  <2> QED BY <1>4, <2>1, <2>2, <2>3, ServiceAssumption DEF Tasks
<1>6. ASSUME NEW p \in Procs, Activating(p) \/ SpawnFails(p) \/ Inactive(p) \/ Reset(p) \/ Clean(p)
      PROVE  TaskInv'
  <2>1. proc' = proc /\ at[p] # "await" /\ lock' = lock /\ pid' = pid
    BY <1>6 DEF Activating, SpawnFails, Inactive, Reset, Clean
  <2>2. \A q \in Procs \ {p} : at'[q] = at[q]
    BY <1>6, <1>a DEF Activating, SpawnFails, Inactive, Reset, Clean, WriteStatus, WriteBegins, WriteFails, OneshotUnit, Goto, TypeOK
  <2> QED BY <1>4, <2>1, <2>2 DEF Tasks
<1>7. ASSUME NEW p \in Procs, End(p) PROVE TaskInv'
  <2>1. \A k \in Pids : proc'[k].st = proc[k].st /\ proc'[k].role = proc[k].role
    BY <1>7, <1>a DEF End, Gone, TypeOK, Process
  <2>2. at[p] # "await" /\ lock' = lock /\ \A q \in Procs \ {p} : at'[q] = at[q] /\ pid'[q] = pid[q]
    BY <1>7, <1>a DEF End, Gone, Goto, TypeOK
  <2> QED BY <1>4, <2>1, <2>2 DEF Tasks
<1>8. ASSUME NEW i \in Pids, ProcessStep(i) PROVE TaskInv'
  <2>1. at' = at /\ pid' = pid /\ lock' = lock
    BY <1>8 DEF ProcessStep, ProcessEnds, Reap, DaemonForks, WritePidFile, StrangerStarts
  <2>2. \A k \in Pids : proc'[k].st = "run" /\ proc'[k].role = "task" => k \in Tasks
    BY <1>8, <1>a DEF ProcessStep, ProcessEnds, Reap, DaemonForks, WritePidFile, StrangerStarts,
                      OneshotFiles, TypeOK, Process, Reaped, Used, NoProcess, Tasks
  <2> QED BY <1>4, <2>1, <2>2
<1>9. CASE UNCHANGED vars
  BY <1>4, <1>9 DEF vars, Tasks
<1> QED
  BY <1>1, <1>2, <1>3, <1>5, <1>6, <1>7, <1>8, <1>9, OneshotPaths
  DEF Next, Step, StartStep, StopStep

LEMMA ActivatingInvStep == OneshotUnit /\ OneshotInv /\ [Next]_vars => ActivatingInv'
<1> SUFFICES ASSUME OneshotUnit, OneshotInv, [Next]_vars PROVE ActivatingInv'
  OBVIOUS
<1>u. unit' = unit
  BY UnitStays
<1> USE <1>u
<1>a. TypeInv /\ TypeOK /\ ActivatingInv /\ \A p \in Procs : OneshotControl(p)
  BY DEF OneshotInv, TypeInv
\* The write of a state that is not that one, by whoever writes.
<1>1. ASSUME NEW p \in Procs, NEW s \in States \ {"activating"}, NEW l,
             WriteStatus(p, [Known(p) EXCEPT !.state = s], l)
      PROVE  ActivatingInv'
  <2>1. cache'[p].state = s /\ status' = Empty
    BY <1>1, OneshotWrites
  <2>2. \A q \in Procs \ {p} : at'[q] = at[q] /\ next'[q] = next[q] /\ cache'[q] = cache[q]
    BY <1>1, <1>a DEF WriteStatus, WriteBegins, WriteFails, OneshotUnit, Goto, TypeOK
  <2> QED BY <1>a, <2>1, <2>2 DEF ActivatingInv, Announced, Empty
<1>2. ASSUME NEW p \in Procs, SpawnFails(p) \/ Inactive(p) \/ Reset(p) PROVE ActivatingInv'
  <2>1. PICK s \in States \ {"activating"}, l \in Labels :
            WriteStatus(p, [Known(p) EXCEPT !.state = s], l)
    BY <1>2 DEF SpawnFails, Inactive, Reset, States, Labels
  <2> QED BY <1>1, <2>1
<1>3. ASSUME NEW p \in Procs, Activating(p) PROVE ActivatingInv'
  <2>1. next'[p] = "spawn" /\ at'[p] = "flush" /\ status' = Empty
    BY <1>3, OneshotWrites DEF Activating
  <2>2. \A q \in Procs \ {p} : at'[q] = at[q] /\ next'[q] = next[q] /\ cache'[q] = cache[q]
    BY <1>3, <1>a DEF Activating, WriteStatus, WriteBegins, WriteFails, OneshotUnit, Goto, TypeOK
  <2> QED BY <1>a, <2>1, <2>2 DEF ActivatingInv, Announced, Empty
<1>4. ASSUME NEW p \in Procs, Clean(p) PROVE ActivatingInv'
  <2>1. ~ Announced(p) /\ lock = p
    BY <1>4, OneshotHasLock DEF Clean, Announced
  <2>2. Known(p).state # "activating"
    BY <1>a, <2>1 DEF Known, ActivatingInv
  <2>3. Known(p) \in Status
    BY KnownType, <1>a
  <2>4. cache'[p].state # "activating" /\ status' = Empty
    BY <1>4, <1>a, <2>2, <2>3 DEF Clean, WriteStatus, WriteBegins, WriteFails, OneshotUnit, TypeOK, Status
  <2>5. \A q \in Procs \ {p} : at'[q] = at[q] /\ next'[q] = next[q] /\ cache'[q] = cache[q]
    BY <1>4, <1>a DEF Clean, WriteStatus, WriteBegins, WriteFails, OneshotUnit, Goto, TypeOK
  <2> QED BY <1>a, <2>4, <2>5 DEF ActivatingInv, Announced, Empty
<1>5. ASSUME NEW p \in Procs, Flush(p) PROVE ActivatingInv'
  <2>1. /\ at[p] = "flush" /\ status' = cache[p] /\ at'[p] = next[p]
        /\ next' = next /\ cache' = cache /\ lock' = lock
    BY <1>5, <1>a DEF Flush, OneshotUnit, Goto, TypeOK
  <2>2. \A q \in Procs \ {p} : at'[q] = at[q]
    BY <1>5, <1>a DEF Flush, OneshotUnit, Goto, TypeOK
  <2>3. cache[p].state = "activating" => next[p] = "spawn" /\ lock = p
    BY <1>a, <2>1 DEF ActivatingInv, Announced, OneshotControl, Unlocked, Outside
  <2>4. next[p] = "spawn" => Announced(p)'
    BY <2>1 DEF Announced
  <2> QED BY <1>a, <2>1, <2>2, <2>3, <2>4 DEF ActivatingInv, Announced
<1>6. ASSUME UNCHANGED <<status, cache>>,
             \A q \in Procs : Announced(q) => Announced(q)' /\ (lock = q => lock' = q)
      PROVE  ActivatingInv'
  BY <1>6, <1>a DEF ActivatingInv
<1>7. ASSUME NEW p \in Procs, Await(p) PROVE ActivatingInv'
  <2>1. ASSUME NEW s \in {"failed", IF unit.RemainAfterExit THEN "active" ELSE "inactive"},
               WriteStatus(p, [Known(p) EXCEPT !.state = s], "unlock")
        PROVE  ActivatingInv'
    BY <1>1, <2>1 DEF States
  <2>2. ASSUME Goto(p, "spawn"), UNCHANGED <<next, cache, status>> PROVE ActivatingInv'
    BY <1>6, <1>7, <1>a, <2>2 DEF Await, Announced, Goto, TypeOK
  <2> QED BY <1>7, <2>1, <2>2 DEF Await
<1>8. ASSUME NEW p \in Procs, Spawn(p) PROVE ActivatingInv'
  BY <1>6, <1>8, <1>a DEF Spawn, AfterSpawn, OneshotUnit, Announced, Goto, TypeOK
<1>9. ASSUME NEW p \in Procs,
             Begin(p) \/ Precheck(p) \/ Lock(p) \/ LockFails(p) \/ Unlock(p) \/ ActiveUnderLock(p)
                \/ Check(p) \/ Dirs(p) \/ Pre(p) \/ Read(p) \/ Term(p) \/ RmDirs(p) \/ IsFailed(p)
      PROVE  ActivatingInv'
  <2>1. UNCHANGED <<status, cache, next>> /\ ~ Announced(p)
    BY <1>9 DEF Begin, Precheck, Lock, LockFails, Unlock, ActiveUnderLock, Check, Dirs, Pre, Read,
                Term, RmDirs, IsFailed, Announced
  <2>2. \A q \in Procs \ {p} : at'[q] = at[q]
    BY <1>9, <1>a DEF Begin, Precheck, Become, Lock, LockFails, Unlock, ActiveUnderLock, Check, Dirs,
                Pre, Read, Term, RmDirs, IsFailed, Goto, TypeOK
  <2>3. lock' = lock \/ lock \in {None, p}
    BY <1>9, OneshotHasLock DEF Begin, Precheck, Lock, LockFails, Unlock, ActiveUnderLock, Check, Dirs,
                Pre, Read, Term, RmDirs, IsFailed
  <2> QED BY <1>6, <2>1, <2>2, <2>3, ServiceAssumption DEF Announced
<1>10. ASSUME NEW p \in Procs, End(p) PROVE ActivatingInv'
  <2>1. /\ cache'[p] = NoCache /\ lock' = lock /\ status' = status /\ ~ Announced(p)
        /\ \A q \in Procs \ {p} : at'[q] = at[q] /\ next'[q] = next[q] /\ cache'[q] = cache[q]
    BY <1>10, <1>a DEF End, Gone, Goto, TypeOK, Announced
  <2> QED BY <1>a, <2>1 DEF ActivatingInv, Announced, NoCache
<1>11. ASSUME NEW i \in Pids, ProcessStep(i) PROVE ActivatingInv'
  BY <1>6, <1>11 DEF ProcessStep, ProcessEnds, Reap, DaemonForks, WritePidFile, StrangerStarts, Announced
<1>12. CASE UNCHANGED vars
  BY <1>6, <1>12 DEF vars, Announced
<1> QED
  BY <1>2, <1>3, <1>4, <1>5, <1>7, <1>8, <1>9, <1>10, <1>11, <1>12, OneshotPaths
  DEF Next, Step, StartStep, StopStep

LEMMA OneshotInvAlways == Spec /\ OneshotUnit => [](OneshotUnit /\ OneshotInv)
<1>1. Init /\ OneshotUnit => OneshotInv
  BY OneshotInvInit
<1>2. OneshotUnit /\ OneshotInv /\ [Next]_vars => OneshotUnit' /\ OneshotInv'
  BY UnitStays, TypeInvStep, OneshotFilesStep, OneshotControlStep, TaskInvStep, ActivatingInvStep
  DEF OneshotUnit, OneshotInv
<1> QED BY <1>1, <1>2, PTL DEF Spec

\* The command of a oneshot unit never runs twice at a time, for any number of
\* invocations and any mix of operations, those that take no lock included: the lock
\* is held from the start of the command until its end has been waited for.
THEOREM OneshotIsOneTask == Spec /\ OneshotUnit => []OneTask
<1>1. OneshotInv => OneTask
  <2> SUFFICES ASSUME OneshotInv PROVE \E x : Tasks \subseteq {x}
    BY AtMostOne DEF OneTask, Tasks
  <2>1. \A i \in Tasks : i = pid[lock]
    BY DEF OneshotInv, TaskInv, Tasks
  <2> QED BY <2>1
<1> QED BY <1>1, OneshotInvAlways, PTL

\* A oneshot unit nobody works on is never left "activating", whichever of its
\* commands cannot be run or fails, and whatever reset-failed writes without the lock.
THEOREM OneshotSettlesAlways == Spec /\ OneshotUnit => []OneshotSettles
<1>1. OneshotInv => OneshotSettles
  BY ServiceAssumption DEF OneshotInv, TypeInv, ActivatingInv, OneshotSettles
<1> QED BY <1>1, OneshotInvAlways, PTL

-----------------------------------------------------------------------------
(* A unit of Type=forking with a PID file that its daemon writes in time.  *)

\* A forking unit whose daemon writes its PID file in time, and whose process ids are
\* not given out again, whose files can be written, under all operations but halt, which
\* takes the PID file away without the lock.
ForkingUnit == /\ unit.Type = "forking" /\ unit.HasPidFile /\ Timely
               /\ ~ unit.Crashes /\ ~ unit.Faults /\ ~ unit.Reuse
               /\ "halt" \notin unit.Ops

\* Whoever is past the lock holds it; kill reads and signals, reset-failed writes the
\* status file only.
ForkingControl(p) ==
    /\ op[p] \in LockedOps \cup {"reset-failed", "none"}
    /\ op[p] = "kill" => at[p] \in {"idle", "read", "term", "done"}
    /\ op[p] = "reset-failed" => at[p] \in {"isfailed", "reset", "flush", "done"}
    /\ op[p] \notin Unlocked => at[p] \notin {"isfailed", "reset"}
    /\ op[p] \notin Unlocked /\ at[p] \notin Outside => lock = p
    /\ at[p] \notin {"exec", "await"}
    /\ at[p] = "flush" => IF op[p] = "reset-failed" THEN next[p] = "done"
                          ELSE next[p] \in {"unlock", "inactive", "rmdirs"}
    /\ at[p] \in {"daemonize", "record"} => pid[p] # None
    /\ at[p] \in {"check", "isactive", "dirs", "pre", "spawn", "daemonize", "record"} => op[p] # "stop"
    /\ at[p] = "flush" /\ next[p] = "unlock" => op[p] # "stop"

\* The daemons that have written their PID file and run.
Serving == {i \in Pids : proc[i].st = "run" /\ proc[i].role = "main"}

\* Where an invocation has stopped the daemon.
Stopped(p) == \/ at[p] \in {"clean", "inactive", "rmdirs"}
              \/ at[p] = "flush" /\ next[p] \in {"inactive", "rmdirs"}
              \/ at[p] = "unlock" /\ op[p] = "stop"

\* At most one process is on its way to the PID file, while its invocation waits and
\* the file names nothing that exists; who serves is the one in the file, ...
DaemonInv ==
    /\ orphans = {}
    /\ pidfile # None => proc[pidfile].role # "nobody"
    /\ \A i, j \in Daemonizing : i = j
    /\ Daemonizing # {} => ~ Exists(pidfile) /\ \E p \in Procs : lock = p /\ at[p] = "daemonize"
    /\ Serving \subseteq {pidfile}
\* ... which is what the invocations go by.
    /\ \A p \in Procs :
          /\ at[p] \in {"dirs", "pre", "spawn"} => ~ Exists(pidfile)
          /\ at[p] \in {"term", "vanish", "kill"} /\ op[p] # "kill" => pid[p] = pidfile
          /\ Stopped(p) => Serving = {}

\* Who has written "active" without a process is a stop that says "inactive" next.
NameInv ==
    /\ status.state = "active" /\ status.main = None => \E p \in Procs : lock = p /\ at[p] = "inactive"
    /\ \A p \in Procs : cache[p].state = "active" /\ cache[p].main = None =>
          at[p] = "inactive" \/ (at[p] = "flush" /\ next[p] = "inactive")

ForkingInv == /\ TypeInv
              /\ \A p \in Procs : ForkingControl(p)
              /\ DaemonInv /\ NameInv

LEMMA ForkingInvInit == ForkingUnit /\ Init => ForkingInv
<1> SUFFICES ASSUME ForkingUnit, Init PROVE ForkingInv
  OBVIOUS
<1>1. TypeInv
  BY TypeInvInit
<1>2. \A p \in Procs : ForkingControl(p)
  BY DEF Init, ForkingControl, Unlocked, Outside
<1>3. Daemonizing = {} /\ Serving = {}
  BY DEF Init, NoProcess, Used, Daemonizing, Serving
<1>4. DaemonInv
  BY <1>3 DEF Init, DaemonInv, Stopped
<1>5. NameInv
  BY DEF Init, NameInv, NoCache, Empty
<1> QED BY <1>1, <1>2, <1>4, <1>5 DEF ForkingInv

\* No path of another type is taken, and nobody dies.
LEMMA ForkingPaths ==
    ASSUME ForkingUnit, ForkingInv, NEW p \in Procs
    PROVE  ~ (Activating(p) \/ Await(p) \/ LauncherEnds(p) \/ Crash(p))
BY DEF Activating, Await, LauncherEnds, Crash, ForkingInv, ForkingControl, ForkingUnit

\* Who is where the lock is needed has it.
LEMMA ForkingHasLock ==
    ASSUME ForkingInv, NEW p \in Procs,
           \/ at[p] \in {"isactive", "check", "dirs", "pre", "spawn", "daemonize", "record", "vanish",
                         "kill", "clean", "inactive", "rmdirs", "unlock"}
           \/ at[p] \in {"read", "term"} /\ op[p] # "kill"
           \/ at[p] = "flush" /\ next[p] # "done"
    PROVE  lock = p /\ op[p] \notin Unlocked
<1>1. ForkingControl(p) /\ at[p] \notin Outside
  BY DEF ForkingInv, Outside, ForkingControl
<1>2. op[p] \notin Unlocked
  BY <1>1 DEF ForkingControl, Unlocked, LockedOps, Locking, Prechecks
<1> QED BY <1>1, <1>2 DEF ForkingControl

LEMMA ForkingControlStep ==
    ForkingUnit /\ ForkingInv /\ [Next]_vars => \A p \in Procs : ForkingControl(p)'
<1> SUFFICES ASSUME ForkingUnit, ForkingInv, [Next]_vars, NEW q \in Procs
             PROVE  ForkingControl(q)'
  OBVIOUS
<1>u. unit' = unit
  BY UnitStays
<1> USE <1>u
<1> USE ServiceAssumption
<1>a. TypeOK /\ \A p \in Procs : ForkingControl(p)
  BY DEF ForkingInv, TypeInv
<1>1. ASSUME NEW p \in Procs, Begin(p) \/ Precheck(p) PROVE ForkingControl(q)'
  BY <1>1, <1>a, UnitType DEF ForkingControl, ForkingUnit, TypeOK, Goto, Outside, Begin, FirstLabel,
                              Precheck, Become, LockedOps, Locking, Prechecks, Unlocked
<1>2. ASSUME NEW p \in Procs,
             Lock(p) \/ LockFails(p) \/ Unlock(p) \/ ActiveUnderLock(p) \/ Check(p)
                \/ Dirs(p) \/ RmDirs(p)
      PROVE  ForkingControl(q)'
  <2>1. CASE Lock(p) \/ LockFails(p)
    BY <2>1, <1>a DEF ForkingControl, TypeOK, Goto, Outside, Unlocked, Lock, LockFails
  <2>4. CASE Unlock(p)
    <3>1. lock = p
      BY <2>4, ForkingHasLock DEF Unlock
    <3> QED BY <2>4, <3>1, <1>a DEF ForkingControl, TypeOK, Goto, Outside, Unlock
  <2>2. CASE ActiveUnderLock(p) \/ Check(p) \/ Dirs(p)
    BY <2>2, <1>a DEF ForkingControl, TypeOK, Goto, Outside, Unlocked, ActiveUnderLock, Check, Dirs
  <2>3. CASE RmDirs(p)
    BY <2>3, <1>a DEF ForkingControl, TypeOK, Goto, Outside, Unlocked, RmDirs, Restarting
  <2> QED BY <1>2, <2>1, <2>2, <2>3, <2>4
<1>3. ASSUME NEW p \in Procs, NEW new, NEW l \in {"unlock", "inactive", "rmdirs", "done"},
             WriteStatus(p, new, l), op' = op, pid' = pid, lock' = lock, at[p] \notin Outside,
             op[p] # "kill", l = "done" <=> op[p] = "reset-failed", l = "unlock" => op[p] # "stop"
      PROVE  ForkingControl(q)'
  BY <1>3, <1>a DEF ForkingControl, WriteStatus, WriteBegins, WriteFails, ForkingUnit, TypeOK, Goto, Outside
<1>4. ASSUME NEW p \in Procs, SpawnFails(p) \/ Record(p) \/ Clean(p) \/ Inactive(p) \/ Reset(p)
      PROVE  ForkingControl(q)'
  <2>1. /\ op' = op /\ pid' = pid /\ lock' = lock /\ at[p] \notin Outside
        /\ op[p] \notin {"kill", "halt"}
        /\ at[p] # "reset" => op[p] # "reset-failed"
        /\ at[p] = "reset" => op[p] = "reset-failed"
        /\ at[p] \in {"spawn", "record"} => op[p] # "stop"
    BY <1>4, <1>a DEF SpawnFails, Record, Clean, Inactive, Reset, ForkingControl, LockedOps, Locking,
                      Prechecks, Unlocked, Outside
  <2>2. CASE SpawnFails(p) \/ Record(p)
    <3>1. at[p] \in {"spawn", "record"}
      BY <2>2 DEF SpawnFails, Record
    <3> QED BY <1>3, <2>1, <2>2, <3>1 DEF SpawnFails, Record
  <2>3. CASE Clean(p)
    BY <1>3, <2>1, <2>3 DEF Clean
  <2>4. CASE Inactive(p)
    BY <1>3, <2>1, <2>4 DEF Inactive
  <2>5. CASE Reset(p)
    BY <1>3, <2>1, <2>5 DEF Reset
  <2> QED BY <1>4, <2>2, <2>3, <2>4, <2>5
<1>5. ASSUME NEW p \in Procs, Pre(p) \/ DaemonizeTimeout(p) PROVE ForkingControl(q)'
  BY <1>5, <1>a DEF Pre, DaemonizeTimeout, ForkingUnit, ForkingControl, TypeOK, Goto, Outside, Unlocked
<1>6. ASSUME NEW p \in Procs, Spawn(p) \/ PidFileAppears(p) PROVE ForkingControl(q)'
  BY <1>6, <1>a DEF Spawn, PidFileAppears, AfterSpawn, Exists, ForkingUnit, ForkingControl, TypeOK, Goto,
                    Outside
<1>7. ASSUME NEW p \in Procs, Read(p) \/ Term(p) \/ Vanish(p) \/ Kill(p) PROVE ForkingControl(q)'
  BY <1>7, <1>a DEF Read, Term, Vanish, Kill, ForkingControl, TypeOK, Goto, Outside, Unlocked, LockedOps,
                    Locking, Prechecks
<1>8. ASSUME NEW p \in Procs, IsFailed(p) \/ Flush(p) PROVE ForkingControl(q)'
  BY <1>8, <1>a DEF IsFailed, Flush, ForkingControl, TypeOK, Goto, Outside, Unlocked
<1>9. ASSUME NEW p \in Procs, End(p) PROVE ForkingControl(q)'
  BY <1>9, <1>a DEF End, Gone, ForkingControl, TypeOK, Goto, Outside, Unlocked
<1>10. ASSUME NEW i \in Pids, ProcessStep(i) PROVE ForkingControl(q)'
  BY <1>10, <1>a DEF ProcessStep, ProcessEnds, Reap, DaemonForks, WritePidFile, StrangerStarts,
                     ForkingControl
<1>11. ASSUME UNCHANGED vars PROVE ForkingControl(q)'
  BY <1>11, <1>a DEF vars, ForkingControl
<1> QED
  BY <1>1, <1>2, <1>4, <1>5, <1>6, <1>7, <1>8, <1>9, <1>10, <1>11, ForkingPaths
  DEF Next, Step, StartStep, StopStep

\* What DaemonInv says of one invocation.
DaemonInvOf(p) ==
    /\ at[p] \in {"dirs", "pre", "spawn"} => ~ Exists(pidfile)
    /\ at[p] \in {"term", "vanish", "kill"} /\ op[p] # "kill" => pid[p] = pidfile
    /\ Stopped(p) => Serving = {}

\* A step of p that does nothing to the processes and the PID file has to be looked
\* at for p alone.
LEMMA DaemonInvFrame ==
    ASSUME ForkingInv, NEW p \in Procs, OthersStay(p), pidfile' = pidfile, orphans' = orphans,
           \A i \in Pids : proc'[i].st = proc[i].st /\ proc'[i].role = proc[i].role,
           lock' = lock \/ (at[p] # "daemonize" /\ lock \in {None, p}),
           at[p] = "daemonize" => at'[p] = "daemonize" \/ Daemonizing = {},
           DaemonInvOf(p)'
    PROVE  DaemonInv'
<1>1. Daemonizing' = Daemonizing /\ Serving' = Serving
  BY DEF Daemonizing, Serving
<1>2. DaemonInv /\ pidfile \in Pids \cup {None}
  BY DEF ForkingInv, TypeInv, TypeOK
<1>3. Exists(pidfile)' <=> Exists(pidfile)
  BY <1>2 DEF Exists
<1>4. \A q \in Procs : DaemonInvOf(q)'
  <2> SUFFICES ASSUME NEW q \in Procs \ {p} PROVE DaemonInvOf(q)'
    OBVIOUS
  <2>1. DaemonInvOf(q)
    BY <1>2 DEF DaemonInv, DaemonInvOf
  <2> QED BY <1>1, <1>3, <2>1 DEF DaemonInvOf, Stopped, OthersStay
<1>5. Daemonizing # {} => \E q \in Procs : lock' = q /\ at'[q] = "daemonize"
  BY <1>2, ServiceAssumption DEF DaemonInv, OthersStay
<1>6. pidfile' # None => proc'[pidfile'].role # "nobody"
  BY <1>2 DEF DaemonInv
<1> QED BY <1>1, <1>2, <1>3, <1>4, <1>5, <1>6 DEF DaemonInv, DaemonInvOf

\* Who has the lock and does not wait for the daemon is alone with what the PID file says.
LEMMA NoneDaemonizing ==
    ASSUME ForkingInv, NEW p \in Procs, lock = p, at[p] # "daemonize"
    PROVE  Daemonizing = {} /\ Serving \subseteq {pidfile}
BY DEF ForkingInv, DaemonInv

LEMMA DaemonInvStep == ForkingUnit /\ ForkingInv /\ [Next]_vars => DaemonInv'
<1> SUFFICES ASSUME ForkingUnit, ForkingInv, [Next]_vars PROVE DaemonInv'
  OBVIOUS
<1>u. unit' = unit
  BY UnitStays
<1> USE <1>u
<1>a. TypeInv /\ TypeOK /\ DaemonInv /\ \A p \in Procs : ForkingControl(p) /\ DaemonInvOf(p)
  BY DEF ForkingInv, TypeInv, DaemonInv, DaemonInvOf
<1>b. MainPid = pidfile /\ (Exists(MainPid) => IsActive)
  BY DEF MainPid, ForkingUnit, IsActive, ActiveState
<1>c. ~ Exists(pidfile) => ~ pidfile \in Serving
  BY ServiceAssumption DEF Exists, Serving
<1>1. ASSUME NEW p \in Procs,
             Begin(p) \/ Precheck(p) \/ Lock(p) \/ LockFails(p) \/ Unlock(p) \/ IsFailed(p)
      PROVE  DaemonInv'
  <2>1. /\ OthersStay(p) /\ pidfile' = pidfile /\ orphans' = orphans /\ proc' = proc
        /\ at[p] # "daemonize"
    BY <1>1, <1>a DEF Begin, Precheck, Become, Lock, LockFails, Unlock, IsFailed, Goto, TypeOK,
                      OthersStay, files
  <2>2. lock' = lock \/ lock \in {None, p}
    BY <1>1, ForkingHasLock DEF Begin, Precheck, Lock, LockFails, Unlock, IsFailed
  <2>3. at'[p] \in Outside \cup {"read", "isfailed", "check", "isactive", "reset"}
    BY <1>1, <1>a, ServiceAssumption
       DEF Begin, FirstLabel, Precheck, Become, Lock, LockFails, Unlock, IsFailed, Goto, TypeOK, Outside
  <2>4. DaemonInvOf(p)'
    BY <2>3 DEF DaemonInvOf, Stopped, Outside
  <2> QED BY <2>1, <2>2, <2>4, DaemonInvFrame
<1>2. ASSUME NEW p \in Procs,
             ActiveUnderLock(p) \/ Check(p) \/ Dirs(p) \/ Pre(p) \/ RmDirs(p)
      PROVE  DaemonInv'
  <2>1. /\ OthersStay(p) /\ pidfile' = pidfile /\ orphans' = orphans /\ proc' = proc
        /\ at[p] # "daemonize" /\ lock' = lock /\ op' = op
    BY <1>2, <1>a DEF ActiveUnderLock, Check, Dirs, Pre, RmDirs, Goto, TypeOK, OthersStay, files
  <2>2. Serving' = Serving /\ (Exists(pidfile)' <=> Exists(pidfile))
    BY <2>1 DEF Serving, Exists
  <2>3. CASE ActiveUnderLock(p)
    <3>1. at'[p] \in {"unlock", "read", "check"} /\ op[p] # "stop"
      BY <1>a, <2>3 DEF ActiveUnderLock, Goto, TypeOK, ForkingControl
    <3>2. DaemonInvOf(p)'
      BY <2>1, <3>1 DEF DaemonInvOf, Stopped
    <3> QED BY <2>1, <3>2, DaemonInvFrame
  <2>4. CASE Check(p)
    <3>1. /\ at'[p] \in {"unlock", "dirs"} /\ op[p] # "stop"
          /\ at'[p] = "dirs" => ~ Exists(pidfile)
      BY <1>a, <1>b, <2>4 DEF Check, Goto, TypeOK, ForkingControl
    <3>2. DaemonInvOf(p)'
      BY <2>1, <2>2, <3>1 DEF DaemonInvOf, Stopped
    <3> QED BY <2>1, <3>2, DaemonInvFrame
  <2>5. CASE Dirs(p) \/ Pre(p)
    <3>1. /\ at'[p] \in {"pre", "spawn", "unlock"} /\ op[p] # "stop" /\ ~ Exists(pidfile)
      BY <1>a, <2>5 DEF Dirs, Pre, Goto, TypeOK, ForkingControl, DaemonInvOf, ForkingUnit
    <3>2. DaemonInvOf(p)'
      BY <2>1, <2>2, <3>1 DEF DaemonInvOf, Stopped
    <3> QED BY <2>1, <3>2, DaemonInvFrame
  <2>6. CASE RmDirs(p)
    <3>1. at'[p] \in {"check", "unlock"} /\ Serving = {}
      BY <1>a, <2>6 DEF RmDirs, Goto, TypeOK, DaemonInvOf, Stopped
    <3>2. DaemonInvOf(p)'
      BY <2>2, <3>1 DEF DaemonInvOf
    <3> QED BY <2>1, <3>2, DaemonInvFrame
  <2> QED BY <1>2, <2>3, <2>4, <2>5, <2>6
<1>3. ASSUME NEW p \in Procs, SpawnFails(p) \/ Record(p) \/ Inactive(p) \/ Reset(p) PROVE DaemonInv'
  <2>1. /\ OthersStay(p) /\ pidfile' = pidfile /\ orphans' = orphans /\ proc' = proc
        /\ at[p] # "daemonize" /\ lock' = lock /\ at'[p] = "flush"
    BY <1>3, <1>a DEF SpawnFails, Record, Inactive, Reset, WriteStatus, WriteBegins, WriteFails, ForkingUnit, Goto, TypeOK, OthersStay, files
  <2>2. next'[p] \in {"inactive", "rmdirs"} => Serving = {}
    BY <1>3, <1>a DEF SpawnFails, Record, Inactive, Reset, WriteStatus, WriteBegins, WriteFails, ForkingUnit, TypeOK, DaemonInvOf, Stopped
  <2>3. Serving' = Serving
    BY <2>1 DEF Serving
  <2>4. DaemonInvOf(p)'
    BY <2>1, <2>2, <2>3 DEF DaemonInvOf, Stopped
  <2> QED BY <2>1, <2>4, DaemonInvFrame
<1>4. ASSUME NEW p \in Procs, Clean(p) PROVE DaemonInv'
  <2>1. lock = p /\ Daemonizing = {} /\ Serving = {}
    BY <1>4, <1>a, ForkingHasLock, NoneDaemonizing DEF Clean, DaemonInvOf, Stopped
  <2>2. /\ OthersStay(p) /\ pidfile' = None /\ orphans' = orphans /\ proc' = proc
        /\ lock' = lock /\ op' = op /\ at'[p] = "flush"
    BY <1>4, <1>a DEF Clean, ForkingUnit, WriteStatus, WriteBegins, WriteFails, ForkingUnit, Goto, TypeOK, OthersStay
  <2>3. Daemonizing' = {} /\ Serving' = {}
    BY <2>1, <2>2 DEF Daemonizing, Serving
  <2>4. \A q \in Procs : ~ (at'[q] \in {"term", "vanish", "kill"} /\ op'[q] # "kill")
    BY <2>1, <2>2, ForkingHasLock DEF OthersStay
  <2>5. ~ Exists(pidfile)'
    BY <2>2 DEF Exists
  <2> QED BY <1>a, <2>2, <2>3, <2>4, <2>5 DEF DaemonInv
<1>5. ASSUME NEW p \in Procs, Flush(p) PROVE DaemonInv'
  <2>1. /\ OthersStay(p) /\ pidfile' = pidfile /\ orphans' = orphans /\ proc' = proc
        /\ at[p] = "flush" /\ lock' = lock /\ op' = op /\ at'[p] = next[p]
    BY <1>5, <1>a DEF Flush, ForkingUnit, Goto, TypeOK, OthersStay, files
  <2>2. /\ next[p] \in {"unlock", "inactive", "rmdirs", "done"}
        /\ next[p] = "unlock" => op[p] # "stop"
        /\ next[p] \in {"inactive", "rmdirs"} => Serving = {}
    BY <1>a, <2>1 DEF ForkingControl, DaemonInvOf, Stopped
  <2>3. Serving' = Serving
    BY <2>1 DEF Serving
  <2>4. DaemonInvOf(p)'
    BY <2>1, <2>2, <2>3 DEF DaemonInvOf, Stopped
  <2> QED BY <2>1, <2>4, DaemonInvFrame
<1>6. ASSUME NEW p \in Procs, PidFileAppears(p) \/ DaemonizeTimeout(p) PROVE DaemonInv'
  <2>1. /\ OthersStay(p) /\ pidfile' = pidfile /\ orphans' = orphans /\ proc' = proc
        /\ lock' = lock /\ at'[p] = "record"
    BY <1>6, <1>a DEF PidFileAppears, DaemonizeTimeout, Goto, TypeOK, OthersStay, files
  <2>2. Daemonizing = {}
    BY <1>6, <1>a DEF PidFileAppears, DaemonizeTimeout, ForkingUnit, DaemonInv
  <2>3. DaemonInvOf(p)'
    BY <2>1 DEF DaemonInvOf, Stopped
  <2> QED BY <2>1, <2>2, <2>3, DaemonInvFrame
<1>7. ASSUME NEW p \in Procs, Read(p) \/ Term(p) \/ Vanish(p) PROVE DaemonInv'
  <2>1. /\ OthersStay(p) /\ pidfile' = pidfile /\ orphans' = orphans /\ proc' = proc
        /\ lock' = lock /\ at[p] # "daemonize" /\ op' = op
    BY <1>7, <1>a DEF Read, Term, Vanish, Goto, TypeOK, OthersStay, files
  <2>2. Serving' = Serving
    BY <2>1 DEF Serving
  <2>3. CASE Read(p)
    <3>1. at'[p] \in {"done", "term"} /\ pid'[p] = pidfile
      BY <1>a, <1>b, <2>3 DEF Read, Goto, TypeOK
    <3>2. DaemonInvOf(p)'
      BY <2>1, <3>1 DEF DaemonInvOf, Stopped
    <3> QED BY <2>1, <3>2, DaemonInvFrame
  <2>4. CASE op[p] = "kill"
    <3>1. at'[p] = "done" \/ Read(p)
      BY <1>7, <1>a, <2>4 DEF Term, Vanish, Goto, TypeOK, ForkingControl
    <3>2. at'[p] = "done" => DaemonInvOf(p)'
      BY DEF DaemonInvOf, Stopped
    <3> QED BY <2>1, <2>3, <3>1, <3>2, DaemonInvFrame
  <2>5. CASE (Term(p) \/ Vanish(p)) /\ op[p] # "kill"
    <3>1. lock = p /\ op[p] \notin Unlocked
      BY <2>5, ForkingHasLock DEF Term, Vanish
    <3>2. pid[p] = pidfile /\ Serving \subseteq {pidfile} /\ pid' = pid
      BY <1>a, <2>5 DEF Term, Vanish, DaemonInvOf, DaemonInv
    <3>3. /\ at'[p] \in {"vanish", "kill", "clean"}
          /\ at'[p] = "clean" => ~ Exists(pidfile)
      BY <1>a, <2>5, <3>1, <3>2 DEF Term, Vanish, Goto, TypeOK, Unlocked
    <3>4. at'[p] = "clean" => Serving = {}
      BY <1>c, <3>2, <3>3
    <3>5. DaemonInvOf(p)'
      BY <2>1, <2>2, <3>2, <3>3, <3>4 DEF DaemonInvOf, Stopped
    <3> QED BY <2>1, <3>5, DaemonInvFrame
  <2> QED BY <1>7, <2>3, <2>4, <2>5
<1>8. ASSUME NEW p \in Procs, Kill(p) PROVE DaemonInv'
  <2>1. lock = p /\ op[p] \notin Unlocked /\ Daemonizing = {} /\ Serving \subseteq {pidfile}
    BY <1>8, ForkingHasLock, NoneDaemonizing DEF Kill
  <2>2. pid[p] = pidfile
    BY <1>8, <1>a, <2>1 DEF Kill, DaemonInvOf, Unlocked
  <2>3. /\ OthersStay(p) /\ pidfile' = pidfile /\ lock' = lock /\ op' = op /\ at'[p] = "clean"
        /\ orphans' = {}
    BY <1>8, <1>a DEF Kill, Goto, TypeOK, OthersStay, files, DaemonInv
  <2>4. /\ \A i \in Pids : proc'[i].role = proc[i].role /\ (i # pidfile => proc'[i] = proc[i])
        /\ Exists(pidfile) => proc'[pidfile].st = "zombie"
    BY <1>8, <1>a, <2>2 DEF Kill, TypeOK, Process, Exists
  <2>5. Serving' = {}
    <3>1. CASE Exists(pidfile)
      BY <2>1, <2>4, <3>1 DEF Serving
    <3>2. CASE ~ Exists(pidfile)
      <4>1. proc' = proc
        BY <1>8, <2>2, <3>2 DEF Kill
      <4> QED BY <1>c, <2>1, <3>2, <4>1 DEF Serving
    <3> QED BY <3>1, <3>2
  <2>6. Daemonizing' = {}
    <3> SUFFICES ASSUME NEW i \in Daemonizing' PROVE i \in Daemonizing
      BY <2>1
    <3>1. proc'[i].st = "run"
      BY DEF Daemonizing
    <3>2. i = pidfile => proc' = proc
      BY <1>8, <2>2, <2>4, <3>1 DEF Kill
    <3>3. proc'[i] = proc[i]
      BY <2>4, <3>2 DEF Daemonizing
    <3> QED BY <3>3 DEF Daemonizing
  <2>7. \A q \in Procs \ {p} : /\ at'[q] \notin {"dirs", "pre", "spawn"}
                               /\ ~ (at'[q] \in {"term", "vanish", "kill"} /\ op'[q] # "kill")
    BY <2>1, <2>3, ForkingHasLock DEF OthersStay
  <2>8. pidfile # None => proc'[pidfile].role # "nobody"
    BY <1>a, <2>4 DEF DaemonInv, TypeOK
  <2>9. \A q \in Procs : DaemonInvOf(q)'
    BY <2>3, <2>5, <2>7 DEF DaemonInvOf
  <2> QED BY <2>3, <2>5, <2>6, <2>8, <2>9 DEF DaemonInv, DaemonInvOf
<1>9. ASSUME NEW p \in Procs, Spawn(p) PROVE DaemonInv'
  <2>1. lock = p /\ Daemonizing = {} /\ Serving \subseteq {pidfile} /\ ~ Exists(pidfile)
    BY <1>9, <1>a, ForkingHasLock, NoneDaemonizing DEF Spawn, DaemonInvOf
  <2>2. Serving = {}
    BY <1>c, <2>1
  <2>3. PICK i \in Pids : /\ proc[i] = NoProcess
                          /\ proc' = [proc EXCEPT ![i] = [st |-> "run", role |-> RoleOf, parent |-> p]]
    BY <1>9 DEF Spawn
  <2>4. proc'[i].st = "run" /\ proc'[i].role = "launcher" /\ \A k \in Pids \ {i} : proc'[k] = proc[k]
    BY <1>a, <2>3 DEF RoleOf, ForkingUnit, TypeOK
  <2>5. i # pidfile
    BY <1>a, <2>3, ServiceAssumption DEF DaemonInv, NoProcess
  <2>6. Daemonizing' = {i} /\ Serving' = {}
    BY <2>1, <2>2, <2>4 DEF Daemonizing, Serving
  <2>7. /\ OthersStay(p) /\ pidfile' = pidfile /\ orphans' = {} /\ lock' = p
        /\ at'[p] = "daemonize"
    BY <1>9, <1>a, <2>1 DEF Spawn, AfterSpawn, ForkingUnit, Goto, TypeOK, OthersStay, files, DaemonInv
  <2>8. /\ ~ Exists(pidfile)'
        /\ pidfile' # None => proc'[pidfile'].role # "nobody"
    BY <1>a, <2>1, <2>4, <2>5, <2>7 DEF Exists, DaemonInv, TypeOK
  <2>9. \A q \in Procs \ {p} : ~ (at'[q] \in {"term", "vanish", "kill"} /\ op'[q] # "kill")
    <3>1. op' = op
      BY <1>9 DEF Spawn
    <3> QED BY <2>1, <2>7, <3>1, ForkingHasLock DEF OthersStay
  <2>10. \A q \in Procs : DaemonInvOf(q)'
    BY <2>6, <2>7, <2>8, <2>9 DEF DaemonInvOf
  <2> QED BY <2>6, <2>7, <2>8, <2>10 DEF DaemonInv, DaemonInvOf
<1>10. ASSUME NEW p \in Procs, End(p) PROVE DaemonInv'
  <2>1. /\ OthersStay(p) /\ pidfile' = pidfile /\ orphans' = orphans /\ lock' = lock
        /\ at[p] # "daemonize" /\ at'[p] = "idle"
    BY <1>10, <1>a DEF End, Gone, Goto, TypeOK, OthersStay, files
  <2>2. \A i \in Pids : proc'[i].st = proc[i].st /\ proc'[i].role = proc[i].role
    BY <1>10, <1>a DEF End, Gone, TypeOK, Process
  <2>3. DaemonInvOf(p)'
    BY <2>1 DEF DaemonInvOf, Stopped
  <2> QED BY <2>1, <2>2, <2>3, DaemonInvFrame
<1>11. ASSUME at' = at, op' = op, pid' = pid, next' = next, lock' = lock, pidfile' = pidfile,
              orphans' = {}, Serving' \subseteq Serving, Exists(pidfile)' => Exists(pidfile),
              pidfile # None => proc'[pidfile].role # "nobody",
              \A i, j \in Daemonizing' : i = j, Daemonizing' # {} => Daemonizing # {}
       PROVE  DaemonInv'
  <2>1. \A p \in Procs : DaemonInvOf(p)'
    <3> SUFFICES ASSUME NEW p \in Procs PROVE DaemonInvOf(p)'
      OBVIOUS
    <3>1. DaemonInvOf(p)
      BY <1>a
    <3> QED BY <1>11, <3>1 DEF DaemonInvOf, Stopped
  <2> QED BY <1>a, <1>11, <2>1 DEF DaemonInv, DaemonInvOf
<1>12. ASSUME NEW i \in Pids, ProcessEnds(i) \/ Reap(i) \/ StrangerStarts(i) PROVE DaemonInv'
  <2>1. /\ at' = at /\ op' = op /\ pid' = pid /\ next' = next /\ lock' = lock
        /\ pidfile' = pidfile /\ orphans' = {}
    BY <1>12, <1>a DEF ProcessEnds, Reap, StrangerStarts, files, DaemonInv
  <2>2. /\ \A k \in Pids \ {i} : proc'[k] = proc[k]
        /\ ~ (proc'[i].st = "run" /\ proc'[i].role \in {"launcher", "daemon", "main"})
    BY <1>12, <1>a DEF ProcessEnds, Reap, StrangerStarts, TypeOK, Process, Reaped, Used, NoProcess
  <2>3. i = pidfile => /\ proc'[i].role # "nobody"
                       /\ proc'[i].st # "free" => proc[i].st # "free"
    BY <1>12, <1>a, ServiceAssumption
       DEF ProcessEnds, Reap, StrangerStarts, TypeOK, Process, Reaped, Used, NoProcess, ForkingUnit, DaemonInv
  <2>4. Serving' \subseteq Serving /\ Daemonizing' \subseteq Daemonizing
    BY <2>2 DEF Serving, Daemonizing
  <2>5. /\ Exists(pidfile)' => Exists(pidfile)
        /\ pidfile # None => proc'[pidfile].role # "nobody"
    BY <1>a, <2>1, <2>2, <2>3 DEF Exists, DaemonInv, TypeOK
  <2>6. \A j, k \in Daemonizing' : j = k
    BY <1>a, <2>4 DEF DaemonInv
  <2> QED BY <1>11, <2>1, <2>4, <2>5, <2>6
<1>13. ASSUME NEW i \in Pids, DaemonForks(i) PROVE DaemonInv'
  <2>1. i \in Daemonizing
    BY <1>13 DEF DaemonForks, Daemonizing
  <2>2. Daemonizing = {i}
    BY <1>a, <2>1 DEF DaemonInv
  <2>3. PICK d \in Pids : /\ proc[d] = NoProcess
                          /\ proc' = [proc EXCEPT
                                        ![i].role = "task",
                                        ![d] = [st |-> "run", parent |-> None, role |-> "daemon"]]
    BY <1>13 DEF DaemonForks, ForkingUnit
  <2>4. d # i
    BY <2>1, <2>3 DEF Daemonizing, NoProcess
  <2>5. /\ proc'[d].role = "daemon" /\ proc'[d].st = "run"
        /\ proc'[i].role = "task" /\ proc'[i].st = proc[i].st
        /\ \A k \in Pids \ {i, d} : proc'[k] = proc[k]
    BY <1>a, <2>3, <2>4 DEF TypeOK, Process
  <2>6. Daemonizing' = {d} /\ Serving' \subseteq Serving
    BY <2>2, <2>5 DEF Daemonizing, Serving
  <2>7. d # pidfile
    BY <1>a, <2>3, ServiceAssumption DEF DaemonInv, NoProcess
  <2>8. /\ at' = at /\ op' = op /\ pid' = pid /\ next' = next /\ lock' = lock
        /\ pidfile' = pidfile /\ orphans' = {}
    BY <1>13, <1>a DEF DaemonForks, files, DaemonInv
  <2>9. /\ Exists(pidfile)' => Exists(pidfile)
        /\ pidfile # None => proc'[pidfile].role # "nobody"
    BY <1>a, <2>5, <2>7, <2>8 DEF Exists, DaemonInv, TypeOK
  <2> QED BY <1>11, <2>2, <2>6, <2>8, <2>9
<1>14. ASSUME NEW d \in Pids, WritePidFile(d) PROVE DaemonInv'
  <2>1. d \in Daemonizing
    BY <1>14 DEF WritePidFile, Daemonizing
  <2>2. PICK p \in Procs : lock = p /\ at[p] = "daemonize"
    BY <1>a, <2>1 DEF DaemonInv
  <2>3. Daemonizing = {d} /\ Serving = {}
    BY <1>a, <1>c, <2>1 DEF DaemonInv
  <2>4. /\ at' = at /\ op' = op /\ pid' = pid /\ next' = next /\ lock' = lock
        /\ pidfile' = d /\ orphans' = {}
    BY <1>14, <1>a DEF WritePidFile, DaemonInv
  <2>5. /\ proc'[d].role = "main"
        /\ \A k \in Pids \ {d} : proc'[k] = proc[k]
    BY <1>14, <1>a DEF WritePidFile, TypeOK, Process
  <2>6. Daemonizing' = {} /\ Serving' \subseteq {d}
    BY <2>3, <2>5 DEF Daemonizing, Serving
  <2>7. ASSUME NEW q \in Procs PROVE DaemonInvOf(q)'
    <3>1. at[q] \notin {"dirs", "pre", "spawn"} /\ ~ Stopped(q)
          /\ ~ (at[q] \in {"term", "vanish", "kill"} /\ op[q] # "kill")
      BY <2>2, ForkingHasLock DEF Stopped
    <3> QED BY <2>4, <3>1 DEF DaemonInvOf, Stopped
  <2> QED BY <2>4, <2>5, <2>6, <2>7 DEF DaemonInv, DaemonInvOf
<1>15. CASE UNCHANGED vars
  BY <1>15, <1>a, <1>11 DEF vars, DaemonInv, Daemonizing, Serving, Exists
<1> QED
  BY <1>1, <1>2, <1>3, <1>4, <1>5, <1>6, <1>7, <1>8, <1>9, <1>10, <1>12, <1>13, <1>14, <1>15,
     ForkingPaths
  DEF Next, Step, StartStep, StopStep, ProcessStep

LEMMA NameInvStep == ForkingUnit /\ ForkingInv /\ [Next]_vars => NameInv'
<1> SUFFICES ASSUME ForkingUnit, ForkingInv, [Next]_vars PROVE NameInv'
  OBVIOUS
<1>u. unit' = unit
  BY UnitStays
<1> USE <1>u
<1>a. TypeInv /\ TypeOK /\ FlushHasMap /\ NameInv /\ \A p \in Procs : ForkingControl(p)
  BY DEF ForkingInv, TypeInv
<1>1. ASSUME NEW p \in Procs, NEW new, NEW l, WriteStatus(p, new, l),
             new.state # "active" \/ new.main # None \/ l = "inactive"
      PROVE  NameInv'
  <2>1. /\ cache'[p] = new /\ next'[p] = l /\ at'[p] = "flush" /\ status' = Empty
        /\ \A q \in Procs \ {p} : at'[q] = at[q] /\ next'[q] = next[q] /\ cache'[q] = cache[q]
    BY <1>1, <1>a DEF WriteStatus, WriteBegins, WriteFails, ForkingUnit, Goto, TypeOK
  <2> QED BY <1>1, <1>a, <2>1 DEF NameInv, Empty
<1>2. ASSUME NEW p \in Procs, SpawnFails(p) \/ Inactive(p) \/ Reset(p) PROVE NameInv'
  <2>1. PICK s \in States \ {"active"}, l \in Labels :
            WriteStatus(p, [Known(p) EXCEPT !.state = s], l)
    BY <1>2 DEF SpawnFails, Inactive, Reset, States, Labels
  <2>2. [Known(p) EXCEPT !.state = s].state = s
    BY <1>a, KnownType DEF Status
  <2> QED BY <1>1, <2>1, <2>2
<1>3. ASSUME NEW p \in Procs, Record(p) \/ Clean(p) PROVE NameInv'
  <2>1. CASE Record(p)
    <3>1. pid[p] # None
      BY <2>1, <1>a DEF Record, ForkingControl
    <3> QED BY <1>1, <2>1, <3>1 DEF Record
  <2>2. CASE Clean(p)
    BY <1>1, <2>2 DEF Clean
  <2> QED BY <1>3, <2>1, <2>2
<1>4. ASSUME NEW p \in Procs, Flush(p) PROVE NameInv'
  <2>1. /\ at[p] = "flush" /\ status' = cache[p] /\ at'[p] = next[p]
        /\ next' = next /\ cache' = cache /\ lock' = lock
        /\ \A q \in Procs \ {p} : at'[q] = at[q]
    BY <1>4, <1>a DEF Flush, ForkingUnit, Goto, TypeOK
  <2>2. cache[p].state = "active" /\ cache[p].main = None => next[p] = "inactive" /\ lock = p
    BY <1>a, <2>1, ForkingHasLock DEF NameInv
  <2> QED BY <1>a, <2>1, <2>2 DEF NameInv
<1>5. ASSUME NEW p \in Procs, UNCHANGED <<status, cache, next>>, at[p] \notin {"inactive", "flush"},
             \A q \in Procs \ {p} : at'[q] = at[q], lock' = lock \/ lock \in {None, p}
      PROVE  NameInv'
  BY <1>5, <1>a, ServiceAssumption DEF NameInv
<1>6. ASSUME NEW p \in Procs,
             Begin(p) \/ Precheck(p) \/ Lock(p) \/ LockFails(p) \/ Unlock(p) \/ ActiveUnderLock(p)
                \/ Check(p) \/ Dirs(p) \/ Pre(p) \/ Spawn(p) \/ PidFileAppears(p)
                \/ DaemonizeTimeout(p) \/ Read(p) \/ Term(p) \/ Vanish(p) \/ Kill(p) \/ RmDirs(p)
                \/ IsFailed(p)
      PROVE  NameInv'
  <2>1. UNCHANGED <<status, cache, next>> /\ at[p] \notin {"inactive", "flush"}
    BY <1>6 DEF Begin, Precheck, Lock, LockFails, Unlock, ActiveUnderLock, Check, Dirs, Pre, Spawn,
                PidFileAppears, DaemonizeTimeout, Read, Term, Vanish, Kill, RmDirs, IsFailed
  <2>2. \A q \in Procs \ {p} : at'[q] = at[q]
    BY <1>6, <1>a DEF Begin, Precheck, Become, Lock, LockFails, Unlock, ActiveUnderLock, Check, Dirs,
                Pre, Spawn, PidFileAppears, DaemonizeTimeout, Read, Term, Vanish, Kill, RmDirs,
                IsFailed, Goto, TypeOK
  <2>3. lock' = lock \/ lock \in {None, p}
    BY <1>6, ForkingHasLock DEF Begin, Precheck, Lock, LockFails, Unlock, ActiveUnderLock, Check, Dirs,
                Pre, Spawn, PidFileAppears, DaemonizeTimeout, Read, Term, Vanish, Kill, RmDirs, IsFailed
  <2> QED BY <1>5, <2>1, <2>2, <2>3
<1>7. ASSUME NEW p \in Procs, End(p) PROVE NameInv'
  <2>1. /\ cache'[p] = NoCache /\ lock' = lock /\ status' = status /\ at[p] = "done"
        /\ \A q \in Procs \ {p} : at'[q] = at[q] /\ next'[q] = next[q] /\ cache'[q] = cache[q]
    BY <1>7, <1>a DEF End, Gone, Goto, TypeOK
  <2> QED BY <1>a, <2>1 DEF NameInv, NoCache
<1>8. ASSUME NEW i \in Pids, ProcessStep(i) PROVE NameInv'
  BY <1>8, <1>a DEF ProcessStep, ProcessEnds, Reap, DaemonForks, WritePidFile, StrangerStarts, NameInv
<1>9. CASE UNCHANGED vars
  BY <1>9, <1>a DEF vars, NameInv
<1> QED
  BY <1>2, <1>3, <1>4, <1>6, <1>7, <1>8, <1>9, ForkingPaths
  DEF Next, Step, StartStep, StopStep

LEMMA ForkingInvAlways == Spec /\ ForkingUnit => [](ForkingUnit /\ ForkingInv)
<1>1. Init /\ ForkingUnit => ForkingInv
  BY ForkingInvInit
<1>2. ForkingUnit /\ ForkingInv /\ [Next]_vars => ForkingUnit' /\ ForkingInv'
  BY UnitStays, TypeInvStep, ForkingControlStep, DaemonInvStep, NameInvStep
  DEF ForkingUnit, ForkingInv
<1> QED BY <1>1, <1>2, PTL DEF Spec

\* The daemon of a forking unit is never out of sight, for any number of invocations
\* and process ids: it is on its way to the PID file under the eyes of the invocation
\* that started it, or it is what the PID file names; there is one at most; a stop
\* leaves none; and a unit that says "active" when nobody works on it names a process.
THEOREM ForkingIsKnown ==
    Spec /\ ForkingUnit =>
      [](RunningIsRecorded /\ SingleInstance /\ StopLeavesNothing /\ ActiveNamesMain)
<1> DEFINE DaemonIsKnown ==
             RunningIsRecorded /\ SingleInstance /\ StopLeavesNothing /\ ActiveNamesMain
<1>1. ForkingUnit /\ ForkingInv => DaemonIsKnown
  <2> SUFFICES ASSUME ForkingUnit, ForkingInv PROVE DaemonIsKnown
    OBVIOUS
  <2>a. TypeOK /\ DaemonInv /\ NameInv
    BY DEF ForkingInv, TypeInv
  <2>1. Mains \subseteq Serving \cup Daemonizing
    BY DEF Mains, Serving, Daemonizing
  <2>2. Daemonizing # {} => Serving = {}
    BY <2>a, ServiceAssumption DEF DaemonInv, Exists, Serving
  <2>3. RunningIsRecorded
    <3> SUFFICES ASSUME NEW i \in Mains
                 PROVE  i = MainPid \/ \E p \in Procs : i \in InFlight(p)
      BY DEF RunningIsRecorded
    <3>1. CASE i \in Serving
      BY <2>a, <3>1 DEF DaemonInv, MainPid, ForkingUnit
    <3>2. CASE i \in Daemonizing
      <4>1. PICK p \in Procs : at[p] = "daemonize"
        BY <2>a, <3>2 DEF DaemonInv
      <4>2. i \in Pids /\ proc[i].st = "run"
        BY <3>2 DEF Daemonizing
      <4>3. i \in InFlight(p)
        BY <3>2, <4>1, <4>2 DEF InFlight
      <4> QED BY <4>3
    <3> QED BY <2>1, <3>1, <3>2
  <2>4. SingleInstance
    <3>1. \A i, j \in Mains : i = j
      BY <2>a, <2>1, <2>2 DEF DaemonInv
    <3>2. \E x : Mains \ orphans \subseteq {x}
      <4>1. CASE Mains = {}
        BY <4>1
      <4>2. CASE Mains # {}
        BY <3>1, <4>2
      <4> QED BY <4>1, <4>2
    <3> QED BY <3>2, AtMostOne DEF SingleInstance
  <2>5. StopLeavesNothing
    <3> SUFFICES ASSUME NEW p \in Procs, at[p] \in {"rmdirs", "unlock"}, op[p] = "stop"
                 PROVE  Mains = {}
      BY DEF StopLeavesNothing
    <3>1. Daemonizing = {}
      BY ForkingHasLock, NoneDaemonizing
    <3>2. Serving = {}
      BY <2>a DEF DaemonInv, Stopped
    <3> QED BY <2>1, <3>1, <3>2
  <2>6. ActiveNamesMain
    BY <2>a, ServiceAssumption DEF NameInv, ActiveNamesMain
  <2> QED BY <2>a, <2>3, <2>4, <2>5, <2>6 DEF DaemonIsKnown
<1> QED BY <1>1, ForkingInvAlways, PTL

=============================================================================
