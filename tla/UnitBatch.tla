------------------------------ MODULE UnitBatch ------------------------------
(***************************************************************************)
(* Command lines that start, stop or restart several units of Type=simple, *)
(* one after the other: StartModules, StopModules and RestartModules of    *)
(* internal/systemctl/systemctl_exec.go.  Each unit is locked by itself,   *)
(* and each has its own files; what the units of one command line share is *)
(* the memory of the invocation: the loaded unit files, with the map       *)
(* c.Status of each (LoadUnitConf of internal/units/unitfiles.go).         *)
(*                                                                         *)
(* The steps on one unit are those of ServiceControl, whose comments are   *)
(* not repeated; the theorem to look for is EachUnitAlone.  What fails in  *)
(* ServiceControl when unit.Faults (files that cannot be written) is left  *)
(* out here.                                                               *)
(***************************************************************************)
EXTENDS Naturals, Sequences, FiniteSets

CONSTANTS
    Procs,     \* invocations of systemctl
    Units,     \* the units, numbered in the order of their names
    Instances, \* those of them that are instances of the one template
    Pids,      \* process ids
    None,      \* no invocation, no unit, no process
    Ops,       \* the operations that are asked for
    Lists,     \* the lists of units that are given
    Crashes,   \* the points at which an invocation may be killed
    Reuse      \* is the id of a process that is gone given out again?

\* MatchUnits: units with a file of their own come in the order of their names,
\* instances of a template after them, as they are named on the command line.
Matched == {l \in UNION {[1..n -> Units] : n \in 1..Cardinality(Units)} :
               \A i, j \in DOMAIN l : i < j =>
                   /\ l[i] # l[j]
                   /\ l[j] \notin Instances => l[i] \notin Instances /\ l[i] < l[j]}

ASSUME BatchAssumption ==
    /\ Units \subseteq Nat \ {0} /\ IsFiniteSet(Units) /\ IsFiniteSet(Pids)
    /\ Instances \subseteq Units
    /\ None \notin Procs \cup Units \cup Pids
    /\ Lists \subseteq Matched
    /\ Ops \subseteq {"start", "stop", "restart"}
    /\ Reuse \in BOOLEAN

VARIABLES
    inv,     \* inv[p]: what invocation p has in memory
    lock,    \* lock[u]: who holds the lock of unit u
    status,  \* status[u]: what is written in its status file
    rundir,  \* rundir[u]: does its runtime directory exist?
    proc,    \* proc[i]: the process with id i
    orphans  \* orphans[u]: history, as in ServiceControl

vars  == <<inv, lock, status, rundir, proc, orphans>>
files == <<status, rundir>>

States  == {"none", "inactive", "active", "failed"}
Status  == [state : States, main : Pids \cup {None}]
Empty   == [state |-> "none", main |-> None]
NoCache == [state |-> "nil", main |-> None]

Process   == [st : {"free", "run", "zombie", "past"}, unit : Units \cup {None}, parent : Procs \cup {None}]
NoProcess == [st |-> "free", unit |-> None, parent |-> None]
Reaped    == [NoProcess EXCEPT !.st = IF Reuse THEN "free" ELSE "past"]

Labels == {"idle", "lock", "isactive", "check", "dirs", "pre", "spawn", "record", "read", "term",
           "vanish", "kill", "clean", "inactive", "rmdirs", "flush", "unlock", "done"}

ASSUME CrashAssumption == Crashes \subseteq Labels \ {"idle"}

-----------------------------------------------------------------------------
(* The unit files an invocation has loaded.                                *)

Template == 0
Loaded   == Units \cup {Template}

\* Mutant: there is one loaded unit for all.
ConfOf_Shared(u) == Template

\* LoadConf: the entry of loadedUnitConf is found by the path of the file, which
\* is the template's for every instance of it.
ConfOf(u) == IF u \in Instances THEN Template ELSE u

Idle == [at |-> "idle", op |-> "none", list |-> <<>>, pid |-> None, next |-> "idle",
         cache |-> [c \in Loaded |-> NoCache]]

Init == /\ inv = [p \in Procs |-> Idle]
        /\ lock = [u \in Units |-> None]
        /\ status = [u \in Units |-> Empty]
        /\ rundir = [u \in Units |-> FALSE]
        /\ proc = [i \in Pids |-> NoProcess]
        /\ orphans = [u \in Units |-> {}]

At(p)   == inv[p].at
Unit(p) == Head(inv[p].list) \* the unit p works on

\* What the steps make of the memory v of an invocation.
MovedTo(v, l)            == [v EXCEPT !.at = l]
WithPid(v, i, l)         == [v EXCEPT !.pid = i, !.at = l]
WithStatus(v, c, new, l) == [v EXCEPT !.cache[c] = new, !.next = l, !.at = "flush"]
AtNextUnit(v)            == [v EXCEPT !.at = "lock", !.list = Tail(@), !.pid = None, !.next = "idle"]

Remember(p, v) == inv' = [inv EXCEPT ![p] = v]
Goto(p, l)     == Remember(p, MovedTo(inv[p], l))

Exists(i) == i # None /\ proc[i].st \in {"run", "zombie"}
Active(u) == Exists(status[u].main) \/ status[u].state = "active"

-----------------------------------------------------------------------------
(* The steps between the units.                                            *)

Begin(p) == /\ At(p) = "idle"
            /\ \E o \in Ops, l \in Lists :
                  Remember(p, [Idle EXCEPT !.at = "lock", !.op = o, !.list = l])
            /\ UNCHANGED <<lock, files, proc, orphans>>

\* Mutant: the lock of a unit is kept when the next unit's is taken.
Unlock_Late(p) == /\ At(p) = "unlock"
                  /\ lock' = IF Len(inv[p].list) > 1 THEN lock
                             ELSE [u \in Units |-> IF lock[u] = p THEN None ELSE lock[u]]
                  /\ Goto(p, "done")
                  /\ UNCHANGED <<files, proc, orphans>>

Unlock(p) == /\ At(p) = "unlock"
             /\ lock' = [lock EXCEPT ![Unit(p)] = None]
             /\ Goto(p, "done")
             /\ UNCHANGED <<files, proc, orphans>>

\* The invocation is gone; its children are handed to process 1.
Orphaned(p) == [i \in Pids |-> IF proc[i].parent = p THEN [proc[i] EXCEPT !.parent = None]
                               ELSE proc[i]]

\* A unit is done, with or without success: the next one, or the end.
Advance(p) ==
    /\ At(p) = "done"
    /\ IF Len(inv[p].list) > 1
         THEN Remember(p, AtNextUnit(inv[p])) /\ UNCHANGED proc
         ELSE Remember(p, Idle) /\ proc' = Orphaned(p)
    /\ UNCHANGED <<lock, files, orphans>>

-----------------------------------------------------------------------------
(* The steps on one unit.                                                  *)

Lock(p) == /\ At(p) = "lock"
           /\ lock[Unit(p)] = None
           /\ lock' = [lock EXCEPT ![Unit(p)] = p]
           /\ Goto(p, CASE inv[p].op = "start" -> "check"
                        [] inv[p].op = "stop"  -> "read"
                        [] OTHER               -> "isactive")
           /\ UNCHANGED <<files, proc, orphans>>

LockFails(p) == At(p) = "lock" /\ Goto(p, "done") /\ UNCHANGED <<lock, files, proc, orphans>>

ActiveUnderLock(p) == /\ At(p) = "isactive"
                      /\ Goto(p, IF Active(Unit(p)) THEN "read" ELSE "check")
                      /\ UNCHANGED <<lock, files, proc, orphans>>

\* Mutant: the file is not read by the first write of the invocation.
Known_Nil(p) == inv[p].cache[ConfOf(Unit(p))]

\* WriteStatusFrom.
Known(p) == LET c == inv[p].cache[ConfOf(Unit(p))]
            IN  IF c = NoCache THEN status[Unit(p)] ELSE c

WriteStatus(p, new, l) ==
    /\ Remember(p, WithStatus(inv[p], ConfOf(Unit(p)), new, l))
    /\ status' = [status EXCEPT ![Unit(p)] = Empty]

Flush(p) == /\ At(p) = "flush"
            /\ status' = [status EXCEPT ![Unit(p)] = inv[p].cache[ConfOf(Unit(p))]]
            /\ Goto(p, inv[p].next)
            /\ UNCHANGED <<lock, rundir, proc, orphans>>

Check(p) == /\ At(p) = "check"
            /\ Goto(p, IF Exists(status[Unit(p)].main) THEN "unlock" ELSE "dirs")
            /\ UNCHANGED <<lock, files, proc, orphans>>

Dirs(p) == /\ At(p) = "dirs"
           /\ rundir' = [rundir EXCEPT ![Unit(p)] = TRUE]
           /\ Goto(p, "pre")
           /\ UNCHANGED <<lock, status, proc, orphans>>

Pre(p) == /\ At(p) = "pre"
          /\ \E l \in {"spawn", "unlock"} : Goto(p, l)
          /\ UNCHANGED <<lock, files, proc, orphans>>

Spawn(p) == /\ At(p) = "spawn"
            /\ \E i \in Pids :
                  /\ proc[i] = NoProcess
                  /\ proc' = [proc EXCEPT ![i] = [st |-> "run", unit |-> Unit(p), parent |-> p]]
                  /\ Remember(p, WithPid(inv[p], i, "record"))
            /\ UNCHANGED <<lock, files, orphans>>

SpawnFails(p) == /\ At(p) = "spawn"
                 /\ WriteStatus(p, [Known(p) EXCEPT !.state = "failed"], "unlock")
                 /\ UNCHANGED <<lock, rundir, proc, orphans>>

Record(p) == /\ At(p) = "record"
             /\ WriteStatus(p, [state |-> "active", main |-> inv[p].pid], "unlock")
             /\ UNCHANGED <<lock, rundir, proc, orphans>>

Read(p) == /\ At(p) = "read"
           /\ Remember(p, WithPid(inv[p], status[Unit(p)].main, "term"))
           /\ UNCHANGED <<lock, files, proc, orphans>>

Term(p) == /\ At(p) = "term"
           /\ Goto(p, IF Exists(inv[p].pid) THEN "vanish" ELSE "clean")
           /\ UNCHANGED <<lock, files, proc, orphans>>

Vanish(p) == /\ At(p) = "vanish"
             /\ Goto(p, IF Exists(inv[p].pid) THEN "kill" ELSE "clean")
             /\ UNCHANGED <<lock, files, proc, orphans>>

\* The process i is no more, and is remembered by nobody.
Ended(i) == /\ proc' = [proc EXCEPT ![i].st = "zombie"]
            /\ orphans' = [u \in Units |-> orphans[u] \ {i}]

Kill(p) == /\ At(p) = "kill"
           /\ IF Exists(inv[p].pid) THEN Ended(inv[p].pid) ELSE UNCHANGED <<proc, orphans>>
           /\ Goto(p, "clean")
           /\ UNCHANGED <<lock, files>>

Clean(p) == /\ At(p) = "clean"
            /\ WriteStatus(p, [Known(p) EXCEPT !.main = None], "inactive")
            /\ UNCHANGED <<lock, rundir, proc, orphans>>

Inactive(p) == /\ At(p) = "inactive"
               /\ WriteStatus(p, [Known(p) EXCEPT !.state = "inactive"], "rmdirs")
               /\ UNCHANGED <<lock, rundir, proc, orphans>>

RmDirs(p) == /\ At(p) = "rmdirs"
             /\ rundir' = [rundir EXCEPT ![Unit(p)] = FALSE]
             /\ Goto(p, IF inv[p].op = "restart" THEN "check" ELSE "unlock")
             /\ UNCHANGED <<lock, status, proc, orphans>>

-----------------------------------------------------------------------------
(* Deaths (external).                                                      *)

InFlight(p) ==
    {i \in Pids :
        /\ proc[i].st = "run"
        /\ \/ At(p) = "record" /\ i = inv[p].pid
           \/ At(p) = "flush" /\ inv[p].next = "unlock" /\ inv[p].cache[ConfOf(Unit(p))].main = i}

Crash(p) == /\ At(p) \in Crashes
            /\ Remember(p, Idle)
            /\ lock' = [u \in Units |-> IF lock[u] = p THEN None ELSE lock[u]]
            /\ orphans' = [orphans EXCEPT ![Unit(p)] = @ \cup InFlight(p)]
            /\ proc' = Orphaned(p)
            /\ UNCHANGED files

ProcessEnds(i) == proc[i].st = "run" /\ Ended(i) /\ UNCHANGED <<inv, lock, files>>

Reap(i) == /\ proc[i].st = "zombie"
           /\ proc[i].parent = None
           /\ proc' = [proc EXCEPT ![i] = Reaped]
           /\ UNCHANGED <<inv, lock, files, orphans>>

-----------------------------------------------------------------------------

UnitStep(p) == \/ Lock(p) \/ LockFails(p) \/ ActiveUnderLock(p) \/ Flush(p) \/ Check(p)
               \/ Dirs(p) \/ Pre(p) \/ Spawn(p) \/ SpawnFails(p) \/ Record(p) \/ Read(p)
               \/ Term(p) \/ Vanish(p) \/ Kill(p) \/ Clean(p) \/ Inactive(p) \/ RmDirs(p)
               \/ Unlock(p)

Next == \/ \E p \in Procs : Begin(p) \/ Advance(p) \/ UnitStep(p) \/ Crash(p)
        \/ \E i \in Pids : ProcessEnds(i) \/ Reap(i)

Spec == Init /\ [][Next]_vars

-----------------------------------------------------------------------------

Invocation == [at : Labels, op : Ops \cup {"none"}, list : Matched \cup {<<>>},
               pid : Pids \cup {None}, next : Labels,
               cache : [Loaded -> Status \cup {NoCache}]]

TypeOK == /\ inv \in [Procs -> Invocation]
          /\ lock \in [Units -> Procs \cup {None}]
          /\ status \in [Units -> Status]
          /\ rundir \in [Units -> BOOLEAN]
          /\ proc \in [Pids -> Process]
          /\ orphans \in [Units -> SUBSET Pids]

\* Overlapping lists cannot block each other: no invocation holds the lock of one
\* unit while it waits, up to DefaultMaximumTimeout, for the lock of another.
WaitsEmptyHanded ==
    \A p \in Procs : At(p) = "lock" => \A u \in Units : lock[u] # p

\* "StopModules stops every matched unit": and no other.  The process that gets
\* SIGKILL is one of the unit the invocation has come to.
StopsOnlyMatched ==
    [][\A p \in Procs : Kill(p) /\ Exists(inv[p].pid) => proc[inv[p].pid].unit = Unit(p)]_vars

-----------------------------------------------------------------------------
(* One unit as ServiceControl sees it.  An invocation is about that unit   *)
(* while it is at it and has not begun otherwise, and the processes of the *)
(* other units are strangers.                                              *)

On(p, u) == At(p) # "idle" /\ Unit(p) = u

ProcessSeen(u, i) ==
    LET own == proc[i].unit = u
    IN  IF ~ Exists(i)
        THEN [st |-> "free", parent |-> None,
              role |-> IF proc[i].st = "past" THEN "past" ELSE "nobody"]
        ELSE [st |-> proc[i].st,
              role |-> IF own THEN "main" ELSE "stranger",
              parent |-> IF own /\ proc[i].parent # None /\ On(proc[i].parent, u)
                           THEN proc[i].parent ELSE None]

AtSeen(u)    == [p \in Procs |-> IF On(p, u) THEN At(p) ELSE "idle"]
OpSeen(u)    == [p \in Procs |-> IF On(p, u) THEN inv[p].op ELSE "none"]
PidSeen(u)   == [p \in Procs |-> IF On(p, u) THEN inv[p].pid ELSE None]
NextSeen(u)  == [p \in Procs |-> IF On(p, u) THEN inv[p].next ELSE "idle"]
CacheSeen(u) == [p \in Procs |-> IF On(p, u) THEN inv[p].cache[ConfOf(u)] ELSE NoCache]
ProcSeen(u)  == [i \in Pids |-> ProcessSeen(u, i)]

\* A unit of a list, as ServiceControl has it.
Each == [Type |-> "simple", Ops |-> Ops,
         HasPidFile |-> FALSE, HasReload |-> TRUE, RemainAfterExit |-> FALSE,
         Ids |-> Cardinality(Pids), Reuse |-> Reuse, Crashes |-> TRUE,
         Faults |-> FALSE, Strangers |-> TRUE]

Alone(u) == INSTANCE ServiceControl WITH
    unit <- Each, Units <- {Each}, InitReaps <- TRUE, Timely <- TRUE,
    at <- AtSeen(u), op <- OpSeen(u), pid <- PidSeen(u), next <- NextSeen(u),
    cache <- CacheSeen(u), lock <- lock[u], status <- status[u], pidfile <- None,
    rundir <- rundir[u], proc <- ProcSeen(u), orphans <- orphans[u]

\* A command line over several units does to each of them what a command line
\* for that unit alone does: whatever holds of ServiceControl holds of every
\* unit of a list.  (Units with a file of their own; see StopsOnlyMatched.)
EachUnitAlone == /\ \A u \in Units : Alone(u)!Init
                 /\ [][\A u \in Units : UNCHANGED Alone(u)!vars \/ Alone(u)!Next]_vars

=============================================================================
