------------------------------- MODULE BootFiles -------------------------------
(***************************************************************************)
(* The status file of a service unit after a boot, system call by system   *)
(* call: ReadStatusFrom and TruncateOld of internal/systemctl/systemctl.go *)
(* in invocations that start and stop the unit with its lock, and in ones  *)
(* that ask for its state or reset a failure without the lock.             *)
(*                                                                         *)
(* A file that was written before the boot names a process of that time,   *)
(* whose id somebody else may have by now.  TruncateOld looks at the time  *)
(* of the file, and empties it in a second step.  ServiceControl has the   *)
(* rest of the operations, and no file older than the boot; it also has    *)
(* the writes of the status file that fail, which succeed here.            *)
(***************************************************************************)
EXTENDS Naturals, FiniteSets

CONSTANTS
    Procs, \* invocations of systemctl
    Pids,  \* process ids, given out once
    None,  \* no invocation, no process
    Ops,   \* the operations that are asked for
    Visible \* numbers of the processes that an invocation can see in /proc

Locking  == {"start", "stop"}
Unlocked == {"is-active", "reset-failed"}

ASSUME BootAssumption ==
    /\ None \notin Procs /\ None \notin Pids
    /\ Ops \subseteq Locking \cup Unlocked
    /\ Visible \subseteq Nat

VARIABLES
    at,     \* at[p]: what invocation p does next
    op,     \* op[p]: its operation
    then,   \* then[p]: what follows the read of the status file it is in
    got,    \* got[p]: what that read gave
    map,    \* map[p]: its conf.Status, once it writes
    mine,   \* mine[p]: the process it has started
    boottime, \* boottime[p]: the time it takes for that of the boot, or "unknown"
    lock,   \* the invocation that holds the unit's lock, or None
    file,   \* the status file
    proc,   \* proc[i]: who has the process id i
    exposed \* history: processes recorded while somebody was about to write, without the lock

vars == <<at, op, then, got, map, mine, boottime, lock, file, proc, exposed>>

States == {"none", "inactive", "active", "failed"}
Map    == [state : States, main : Pids \cup {None}]
Empty  == [state |-> "none", main |-> None]
File   == [age : {"missing", "old", "new"}, text : Map]
Fresh(text) == [age |-> "new", text |-> text]

Labels == {"idle", "lock", "look", "truncate", "read", "main", "state", "again", "spawn",
           "record", "fail", "signal", "clean", "lines", "inactive", "reset", "end"}
Reading(p) == at[p] \in {"look", "truncate", "read"}

\* After a boot: other processes have come up, the unit is not started yet.
Init == /\ at = [p \in Procs |-> "idle"]
        /\ op = [p \in Procs |-> "none"]
        /\ then = [p \in Procs |-> "idle"]
        /\ got = [p \in Procs |-> Empty]
        /\ map = [p \in Procs |-> Empty]
        /\ mine = [p \in Procs |-> None]
        /\ boottime = [p \in Procs |-> "unknown"]
        /\ lock = None
        /\ file \in {[age |-> "missing", text |-> Empty]} \cup
                    {[age |-> "old", text |-> text] : text \in Map}
        /\ proc \in [Pids -> {"free", "stranger"}]
        /\ exposed = {}

\* An invocation ends; what it knew is gone.
Leave(p) == /\ at' = [at EXCEPT ![p] = "idle"]
            /\ op' = [op EXCEPT ![p] = "none"]
            /\ then' = [then EXCEPT ![p] = "idle"]
            /\ got' = [got EXCEPT ![p] = Empty]
            /\ map' = [map EXCEPT ![p] = Empty]
            /\ mine' = [mine EXCEPT ![p] = None]
            /\ boottime' = [boottime EXCEPT ![p] = "unknown"]

Goto(p, l)    == at' = [at EXCEPT ![p] = l]
ReadFor(p, l) == Goto(p, "look") /\ then' = [then EXCEPT ![p] = l]
Exists(i)     == i # None /\ proc[i] \in {"unit", "stranger"}

-----------------------------------------------------------------------------
(* ReadStatusFrom.                                                         *)

\* Mutant: TruncateOld is not asked.
Look_NoAge(p) ==
    /\ at[p] = "look"
    /\ IF file.age = "missing" THEN got' = [got EXCEPT ![p] = Empty] /\ Goto(p, then[p])
       ELSE got' = got /\ Goto(p, "read")
    /\ UNCHANGED <<boottime, op, then, map, mine, lock, file, proc, exposed>>

\* Mutant: the boot time is not looked for.
GetBoottime_Now(p) == IF boottime[p] # "unknown" THEN boottime[p] ELSE "late"

\* The processes 0 to 8 are tried in turn, for the time the first one that is seen was
\* started.  If none is, the oldest of all is looked for; but their files are named by
\* a format for numbers, so that none is found, and the time of the look remains,
\* "late" for the file as it is.
GetBoottime(p) == IF boottime[p] # "unknown" THEN boottime[p]
                  ELSE IF Visible \cap 0 .. 8 # {} THEN "boot" ELSE "late"

\* A file that is written now is not older than any time that was taken before.
Written == boottime' = [p \in Procs |-> IF boottime[p] = "late" THEN "boot" ELSE boottime[p]]

\* Is there a file, and was it written since the boot?
Look(p) ==
    /\ at[p] = "look"
    /\ IF file.age = "missing"
       THEN /\ got' = [got EXCEPT ![p] = Empty]
            /\ Goto(p, then[p])
            /\ boottime' = boottime
       ELSE /\ got' = got
            /\ boottime' = [boottime EXCEPT ![p] = GetBoottime(p)]
            /\ Goto(p, IF file.age = "old" \/ GetBoottime(p) = "late" THEN "truncate" ELSE "read")
    /\ UNCHANGED <<op, then, map, mine, lock, file, proc, exposed>>

\* It was not, a moment ago: it is emptied.
Truncate(p) ==
    /\ at[p] = "truncate"
    /\ file' = Fresh(Empty) /\ Written
    /\ got' = [got EXCEPT ![p] = Empty]
    /\ Goto(p, then[p])
    /\ UNCHANGED <<op, then, map, mine, lock, proc, exposed>>

\* The lines are read.
Read(p) ==
    /\ at[p] = "read"
    /\ got' = [got EXCEPT ![p] = file.text]
    /\ Goto(p, then[p])
    /\ UNCHANGED <<boottime, op, then, map, mine, lock, file, proc, exposed>>

-----------------------------------------------------------------------------
(* WriteStatusFrom, with the map just read: os.Create, and then the lines. *)

Create(p, new, l) ==
    /\ map' = [map EXCEPT ![p] = new]
    /\ then' = [then EXCEPT ![p] = l]
    /\ file' = Fresh(Empty) /\ Written
    /\ Goto(p, "lines")

\* Somebody will write the file, and does not know what it says now.
Meddling(q) == \/ at[q] = "truncate"
               \/ op[q] = "reset-failed" /\ \/ at[q] \in {"reset", "lines"}
                                            \/ at[q] = "state" /\ got[q].state = "failed"
                                            \/ Reading(q) /\ then[q] = "reset"

Lines(p) ==
    /\ at[p] = "lines"
    /\ file' = Fresh(map[p]) /\ Written
    /\ exposed' = exposed \cup {i \in Pids : i = mine[p] /\ \E q \in Procs \ {p} : Meddling(q)}
    /\ Goto(p, then[p])
    /\ UNCHANGED <<op, then, got, map, mine, lock, proc>>

-----------------------------------------------------------------------------

\* A command line is run on the unit.
Begin(p) ==
    /\ at[p] = "idle"
    /\ \E o \in Ops :
          /\ op' = [op EXCEPT ![p] = o]
          /\ IF o \in Locking THEN Goto(p, "lock") /\ then' = then ELSE ReadFor(p, "main")
    /\ UNCHANGED <<boottime, got, map, mine, lock, file, proc, exposed>>

\* Mutant: Lock answers true to everybody.
Lock_Open(p) ==
    /\ at[p] = "lock"
    /\ lock' = p
    /\ ReadFor(p, IF op[p] = "start" THEN "main" ELSE "signal")
    /\ UNCHANGED <<boottime, op, got, map, mine, file, proc, exposed>>

\* Waitlock.Lock returned true.
Lock(p) ==
    /\ at[p] = "lock" /\ lock = None
    /\ lock' = p
    /\ ReadFor(p, IF op[p] = "start" THEN "main" ELSE "signal")
    /\ UNCHANGED <<boottime, op, got, map, mine, file, proc, exposed>>

\* Waitlock.Lock returned false.
LockFails(p) ==
    /\ at[p] = "lock"
    /\ Leave(p)
    /\ UNCHANGED <<lock, file, proc, exposed>>

\* Mutant: the lock is not given back.
End_KeepsLock(p) ==
    /\ at[p] = "end"
    /\ Leave(p)
    /\ UNCHANGED <<lock, file, proc, exposed>>

\* The end of an invocation, with the deferred wl.Unlock().
End(p) ==
    /\ at[p] = "end"
    /\ Leave(p)
    /\ lock' = IF lock = p THEN None ELSE lock
    /\ UNCHANGED <<file, proc, exposed>>

\* GetActiveServiceFrom: a main process that exists is enough to be active;
\* DoStartServiceFrom looks for it once more.  ResetFailedFrom looks only.
Main(p) ==
    /\ at[p] = "main"
    /\ IF op[p] = "is-active" /\ Exists(got[p].main)
       THEN Goto(p, "end") /\ then' = then
       ELSE ReadFor(p, IF op[p] = "start" /\ Exists(got[p].main) THEN "again" ELSE "state")
    /\ UNCHANGED <<boottime, op, got, map, mine, lock, file, proc, exposed>>

\* Otherwise the state counts that the file tells.
State(p) ==
    /\ at[p] = "state"
    /\ \/ /\ op[p] = "start" /\ got[p].state = "active"
          /\ ReadFor(p, "again")
       \/ /\ op[p] = "start" /\ got[p].state # "active"
          /\ Goto(p, "spawn") /\ then' = then
       \/ /\ op[p] = "reset-failed" /\ got[p].state = "failed"
          /\ ReadFor(p, "reset")
       \/ /\ \/ op[p] = "is-active"
             \/ op[p] = "reset-failed" /\ got[p].state # "failed"
          /\ Goto(p, "end") /\ then' = then
    /\ UNCHANGED <<boottime, op, got, map, mine, lock, file, proc, exposed>>

\* Already running?
Again(p) ==
    /\ at[p] = "again"
    /\ Goto(p, IF Exists(got[p].main) THEN "end" ELSE "spawn")
    /\ UNCHANGED <<boottime, op, then, got, map, mine, lock, file, proc, exposed>>

\* ExecveFrom, which may fail.
Spawn(p) ==
    /\ at[p] = "spawn"
    /\ \/ \E i \in Pids : /\ proc[i] = "free"
                          /\ proc' = [proc EXCEPT ![i] = "unit"]
                          /\ mine' = [mine EXCEPT ![p] = i]
                          /\ ReadFor(p, "record")
       \/ ReadFor(p, "fail") /\ UNCHANGED <<boottime, proc, mine>>
    /\ UNCHANGED <<boottime, op, got, map, lock, file, exposed>>

Record(p) ==
    /\ at[p] = "record"
    /\ Create(p, [state |-> "active", main |-> mine[p]], "end")
    /\ UNCHANGED <<op, got, mine, lock, proc, exposed>>

Fail(p) ==
    /\ at[p] = "fail"
    /\ Create(p, [got[p] EXCEPT !.state = "failed"], "end")
    /\ UNCHANGED <<op, got, mine, lock, proc, exposed>>

\* DoStopServiceFrom: the process ends, by the stop signal or by SIGKILL.
Signal(p) ==
    /\ at[p] = "signal"
    /\ proc' = IF Exists(got[p].main) THEN [proc EXCEPT ![got[p].main] = "ended"] ELSE proc
    /\ ReadFor(p, "clean")
    /\ UNCHANGED <<boottime, op, got, map, mine, lock, file, exposed>>

\* CleanPidFileFrom and the new state, one write after the other.
Clean(p) ==
    /\ at[p] = "clean"
    /\ Create(p, [got[p] EXCEPT !.main = None], "inactive")
    /\ UNCHANGED <<op, got, mine, lock, proc, exposed>>

Inactive(p) ==
    /\ at[p] = "inactive"
    /\ Create(p, [map[p] EXCEPT !.state = "inactive"], "end")
    /\ UNCHANGED <<op, got, mine, lock, proc, exposed>>

\* ResetFailedFrom writes without the lock.
Reset(p) ==
    /\ at[p] = "reset"
    /\ Create(p, [got[p] EXCEPT !.state = "inactive"], "end")
    /\ UNCHANGED <<op, got, mine, lock, proc, exposed>>

\* A process of the unit ends by itself.
ProcessEnds ==
    /\ \E i \in Pids : proc[i] = "unit" /\ proc' = [proc EXCEPT ![i] = "ended"]
    /\ UNCHANGED <<boottime, at, op, then, got, map, mine, lock, file, exposed>>

Step(p) == \/ Begin(p) \/ Look(p) \/ Truncate(p) \/ Read(p) \/ Lines(p) \/ Lock(p) \/ LockFails(p)
           \/ End(p) \/ Main(p) \/ State(p) \/ Again(p) \/ Spawn(p) \/ Record(p) \/ Fail(p)
           \/ Signal(p) \/ Clean(p) \/ Inactive(p) \/ Reset(p)

Next == ProcessEnds \/ \E p \in Procs : Step(p)

Spec == Init /\ [][Next]_vars

-----------------------------------------------------------------------------

\* Types; the lock is held by an invocation that asked for it.
TypeOK == /\ at \in [Procs -> Labels]
          /\ op \in [Procs -> Locking \cup Unlocked \cup {"none"}]
          /\ then \in [Procs -> Labels]
          /\ got \in [Procs -> Map] /\ map \in [Procs -> Map]
          /\ mine \in [Procs -> Pids \cup {None}]
          /\ boottime \in [Procs -> {"unknown", "boot", "late"}]
          /\ lock \in {None} \cup {p \in Procs : op[p] \in Locking}
          /\ file \in File
          /\ proc \in [Pids -> {"free", "stranger", "unit", "ended"}]
          /\ exposed \subseteq Pids

\* "truncates the file if it predates the boot time" (TruncateOld): what an invocation
\* finds too old was written before the boot.
OnlyOldIsTruncated == [][\A p \in Procs : Look(p) /\ at'[p] = "truncate" => file.age = "old"]_vars

Running == {i \in Pids : proc[i] = "unit"}

\* A process of the unit is named by the status file, or its start is about to write
\* it there; only a start in whose time somebody without the lock had already found
\* the file old, or the unit failed, may lose what it wrote.
RecordedUnlessExposed ==
    \A i \in Running \ exposed :
       file.text.main = i \/ \E p \in Procs : mine[p] = i /\ lock = p

\* And only then may the unit run twice.
OnceUnlessExposed == Cardinality(Running \ exposed) <= 1

\* Whoever reads the file learns nothing from before the boot: the process it names
\* is or was the unit's, and a unit that is active was started since.  So no stop
\* signals a process that has the id of an old one, and no start takes it for the unit.
ReadsAreOfThisBoot ==
    \A p \in Procs : /\ got[p].main # None => proc[got[p].main] \in {"unit", "ended"}
                     /\ got[p].state = "active" => \E i \in Pids : proc[i] \in {"unit", "ended"}

=============================================================================
