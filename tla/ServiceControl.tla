---------------------------- MODULE ServiceControl ----------------------------
(***************************************************************************)
(* Invocations of systemctl that start, stop, restart, reload, kill, halt  *)
(* and reset one service unit (internal/systemctl/systemctl_exec.go and    *)
(* systemctl.go), the files they share (status file, PID file, runtime     *)
(* directory, lock) and the processes of the unit.                         *)
(*                                                                         *)
(* An invocation is an operating-system process: it interleaves with the   *)
(* others and with the unit's processes at every read of a shared file,    *)
(* every signal and every write, and may be killed between any two.  Its   *)
(* waits for processes of the service are polling loops with a timeout,    *)
(* and time is left out: such a wait ends when its condition holds, or at  *)
(* any moment by its timeout.  The lock is taken as UnitMutex states it    *)
(* (Waitlock implements that).                                             *)
(* Commands of the unit file other than ExecStart run where they are       *)
(* called, and nothing bounds the wait for them.                           *)
(***************************************************************************)
EXTENDS Naturals, FiniteSets

CONSTANTS
    Procs,     \* invocations of systemctl
    Pids,      \* process ids
    None,      \* no invocation, no process
    Units,     \* the units that behaviours are about, and what may happen to each
    InitReaps, \* does process 1 reap the zombies it inherits?
    Timely     \* do daemons write their PID file within TimeoutStartSec?

Locking   == {"start", "stop", "restart", "reload"}
Prechecks == {"try-restart", "reload-or-restart", "reload-or-try-restart"}
Unlocked  == {"halt", "kill", "reset-failed"}

\* What a unit file says, and what may happen while the unit is worked on.
Unit == [Type : {"simple", "oneshot", "forking"},
         HasPidFile : BOOLEAN,      \* is PIDFile= set?
         HasReload : BOOLEAN,       \* is ExecReload= set?
         RemainAfterExit : BOOLEAN, \* RemainAfterExit=
         Ops : SUBSET (Locking \cup Prechecks \cup Unlocked), \* what is asked for
         Ids : Nat,                 \* how many process ids there are to give out
         Reuse : BOOLEAN,           \* is the id of a process that is gone given out again?
         Crashes : BOOLEAN,         \* may invocations be killed?
         Faults : BOOLEAN,          \* may files and directories fail to be written and made?
         Strangers : BOOLEAN]       \* do unrelated processes take process ids?

ASSUME ServiceAssumption ==
    /\ None \notin Procs /\ None \notin Pids
    /\ Units \subseteq Unit
    /\ {InitReaps, Timely} \subseteq BOOLEAN

VARIABLES
    unit,    \* the unit a behaviour is about, which does not change
    at,      \* at[p]: what invocation p does next
    op,      \* op[p]: the operation it is about
    pid,     \* pid[p]: the process id it read or got (local variable pid)
    next,    \* next[p]: what follows the write of the status file it is in
    cache,   \* cache[p]: its conf.Status, or NoCache (nil)
    lock,    \* the invocation that holds the unit's lock, or None
    status,  \* what is written in the status file
    pidfile, \* the process id in the PID file, or None if there is no file
    rundir,  \* does the runtime directory exist?
    proc,    \* proc[i]: the process with id i
    orphans  \* history: processes whose starter died before it recorded them, or
             \* failed to

vars == <<unit, at, op, pid, next, cache, lock, status, pidfile, rundir, proc, orphans>>
files == <<pidfile, rundir>>

States  == {"none", "inactive", "activating", "active", "failed"}
Status  == [state : States, main : Pids \cup {None}]
Empty   == [state |-> "none", main |-> None]
NoCache == [state |-> "nil", main |-> None]

Roles   == {"nobody", "past", "main", "daemon", "launcher", "task", "stranger"}
Process == [st : {"free", "run", "zombie"}, role : Roles, parent : Procs \cup {None}]
NoProcess == [st |-> "free", role |-> "nobody", parent |-> None]
Used      == [NoProcess EXCEPT !.role = "past"]
Reaped    == IF unit.Reuse THEN NoProcess ELSE Used

Labels == {"idle", "precheck", "lock", "isactive", "check", "dirs", "pre", "exec", "spawn",
           "await", "daemonize", "record", "read", "term", "vanish", "kill", "clean",
           "inactive", "rmdirs", "isfailed", "reset", "flush", "unlock", "done"}

Init == /\ unit \in Units
        /\ at = [p \in Procs |-> "idle"]
        /\ op = [p \in Procs |-> "none"]
        /\ pid = [p \in Procs |-> None]
        /\ next = [p \in Procs |-> "idle"]
        /\ cache = [p \in Procs |-> NoCache]
        /\ lock = None
        /\ status = Empty
        /\ pidfile = None
        /\ rundir = FALSE
        /\ \E S \in SUBSET Pids :
              /\ Cardinality(S) = unit.Ids
              /\ proc = [i \in Pids |-> IF i \in S THEN NoProcess ELSE Used]
        /\ orphans = {}

Goto(p, l) == at' = [at EXCEPT ![p] = l]

-----------------------------------------------------------------------------
(* What the invocations read.  A check of the state opens the PID file and *)
(* the status file one after the other; the reads are taken together,      *)
(* which merges only outcomes that one or the other instant gives as well. *)

\* ReadMainpidFrom: the PID file if one is configured, else the status file.
MainPid == IF unit.HasPidFile THEN pidfile ELSE status.main

\* PidExists: kill(pid, 0) also succeeds for a zombie.
Exists(i) == i # None /\ proc[i].st # "free"

\* GetActiveServiceFrom.
ActiveState == IF Exists(MainPid) THEN "active"
               ELSE IF status.state # "none" THEN status.state ELSE "inactive"

IsActive == ActiveState = "active"

-----------------------------------------------------------------------------
(* WriteStatusFrom: the map is read from the file by the first write of an *)
(* invocation and kept; os.Create empties the file, then the lines follow. *)
(* A write may fail at three places, and no caller looks at its result.    *)

\* Mutant: a map that was never read is not noticed.
Known_Nil(p) == cache[p]

\* The map c.Status a write starts from.
Known(p) == IF cache[p] = NoCache THEN status ELSE cache[p]

\* Processes of a forking unit that are still on their way to the PID file.
Daemonizing == {i \in Pids : proc[i].st = "run" /\ proc[i].role \in {"launcher", "daemon"}}

\* The running processes p has started and not written to the status file yet.
InFlight(p) ==
    {i \in Pids :
        /\ proc[i].st = "run"
        /\ \/ at[p] = "daemonize" /\ (i = pid[p] \/ i \in Daemonizing)
           \/ at[p] = "record" /\ i = pid[p]
           \/ at[p] = "flush" /\ next[p] = "unlock" /\ cache[p].main = i}

\* History: what p has started is not recorded, if the file does not name it.
Lost(p) == orphans' = orphans \cup (InFlight(p) \ {status'.main})

WriteBegins(p, new, l) ==
    /\ cache' = [cache EXCEPT ![p] = new]
    /\ status' = Empty
    /\ next' = [next EXCEPT ![p] = l]
    /\ Goto(p, "flush")
    /\ orphans' = orphans

\* MkdirAll fails before the map is touched, os.Create after it was changed.
WriteFails(p, new, l) ==
    /\ unit.Faults
    /\ cache' \in {cache, [cache EXCEPT ![p] = new]}
    /\ Goto(p, l)
    /\ UNCHANGED <<status, next>>
    /\ Lost(p)

WriteStatus(p, new, l) == WriteBegins(p, new, l) \/ WriteFails(p, new, l)

\* The lines; one that cannot be written is missing as a whole.
Flush(p) == /\ at[p] = "flush"
            /\ \/ status' = cache[p]
               \/ unit.Faults /\ status' \in {Empty, [cache[p] EXCEPT !.main = None],
                                              [cache[p] EXCEPT !.state = "none"]}
            /\ IF status' = cache[p] THEN orphans' = orphans ELSE Lost(p)
            /\ Goto(p, next[p])
            /\ UNCHANGED <<op, pid, next, cache, lock, files, proc>>

-----------------------------------------------------------------------------
(* An invocation begins; the lock.                                         *)

FirstLabel(o) == CASE o \in Locking        -> "lock"
                   [] o \in Prechecks      -> "precheck"
                   [] o = "reset-failed"   -> "isfailed"
                   [] OTHER                -> "read"

\* A command line is run on the unit.
Begin(p) == /\ at[p] = "idle"
            /\ \E o \in unit.Ops : op' = [op EXCEPT ![p] = o] /\ Goto(p, FirstLabel(o))
            /\ UNCHANGED <<pid, next, cache, lock, status, files, proc, orphans>>

Become(p, o, l) == op' = [op EXCEPT ![p] = o] /\ Goto(p, l)

\* TryRestartModules, ReloadOrRestartModules and ReloadOrTryRestartModules look
\* at the state of the unit, without the lock, to choose what to do.
Precheck(p) == /\ at[p] = "precheck"
               /\ \/ /\ op[p] = "try-restart"
                     /\ Become(p, op[p], IF IsActive THEN "lock" ELSE "done")
                  \/ /\ op[p] = "reload-or-restart"
                     /\ Become(p, IF unit.HasReload /\ IsActive THEN "reload" ELSE "restart", "lock")
                  \/ /\ op[p] = "reload-or-try-restart"
                     /\ IF unit.HasReload /\ IsActive
                          THEN Become(p, "reload", "lock")
                          ELSE Become(p, "try-restart", "precheck")
               /\ UNCHANGED <<pid, next, cache, lock, status, files, proc, orphans>>

Restarting(p) == op[p] \in {"restart", "try-restart"}

\* Mutant: Lock answers true to everybody.
Lock_Open(p) == /\ at[p] = "lock"
                /\ lock' = p
                /\ Goto(p, CASE op[p] = "start" -> "check"
                             [] op[p] = "stop"  -> "read"
                             [] OTHER           -> "isactive")
                /\ UNCHANGED <<op, pid, next, cache, status, files, proc, orphans>>

\* Waitlock.Lock returned true.
Lock(p) == /\ at[p] = "lock"
           /\ lock = None
           /\ lock' = p
           /\ Goto(p, CASE op[p] = "start" -> "check"
                        [] op[p] = "stop"  -> "read"
                        [] OTHER           -> "isactive")
           /\ UNCHANGED <<op, pid, next, cache, status, files, proc, orphans>>

\* Waitlock.Lock returned false; the operation returns false.
LockFails(p) == /\ at[p] = "lock"
                /\ Goto(p, "done")
                /\ UNCHANGED <<op, pid, next, cache, lock, status, files, proc, orphans>>

\* Mutant: a stop lets go of the lock before it removes the runtime directory.
Unlock_Early(p) == /\ at[p] = "unlock"
                   /\ lock' = IF lock = p THEN None ELSE lock
                   /\ Goto(p, IF op[p] = "stop" /\ lock = p THEN "rmdirs" ELSE "done")
                   /\ UNCHANGED <<op, pid, next, cache, status, files, proc, orphans>>

\* The deferred wl.Unlock().
Unlock(p) == /\ at[p] = "unlock"
             /\ lock' = None
             /\ Goto(p, "done")
             /\ UNCHANGED <<op, pid, next, cache, status, files, proc, orphans>>

\* DoRestartUnitFrom stops an active unit before it starts it;
\* DoReloadServiceFrom runs ExecReload in an active one, which changes nothing here.
ActiveUnderLock(p) ==
    /\ at[p] = "isactive"
    /\ Goto(p, CASE op[p] = "reload" -> "unlock"
                 [] Restarting(p) /\ IsActive -> "read"
                 [] OTHER -> "check")
    /\ UNCHANGED <<op, pid, next, cache, lock, status, files, proc, orphans>>

-----------------------------------------------------------------------------
(* DoStartServiceFrom.                                                     *)

\* Mutant: the running process is not looked for.
Check_Skipped(p) == /\ at[p] = "check"
                    /\ Goto(p, "dirs")
                    /\ UNCHANGED <<op, pid, next, cache, lock, status, files, proc, orphans>>

\* Already running?
Check(p) == /\ at[p] = "check"
            /\ Goto(p, IF IsActive /\ Exists(MainPid) THEN "unlock" ELSE "dirs")
            /\ UNCHANGED <<op, pid, next, cache, lock, status, files, proc, orphans>>

\* CreateServiceDirectories; the start goes on without them if it fails.
Dirs(p) == /\ at[p] = "dirs"
           /\ \/ rundir' = TRUE
              \/ unit.Faults /\ rundir' = rundir
           /\ Goto(p, "pre")
           /\ UNCHANGED <<op, pid, next, cache, lock, status, pidfile, proc, orphans>>

\* ExecStartPre: a command that fails ends the start, and so does a unit file
\* without ExecStart; nothing is written.
Pre(p) == /\ at[p] = "pre"
          /\ \/ Goto(p, IF unit.Type = "oneshot" THEN "exec" ELSE "spawn")
             \/ Goto(p, "unlock")
          /\ UNCHANGED <<op, pid, next, cache, lock, status, files, proc, orphans>>

\* startOneshot announces itself.
Activating(p) == /\ at[p] = "exec"
                 /\ WriteStatus(p, [Known(p) EXCEPT !.state = "activating"], "spawn")
                 /\ UNCHANGED <<op, pid, lock, files, proc>>

RoleOf == CASE unit.Type = "oneshot" -> "task"
            [] unit.Type = "forking" -> "launcher"
            [] OTHER -> "main"

AfterSpawn == CASE unit.Type = "oneshot" -> "await"
                [] unit.Type = "forking" -> "daemonize"
                [] OTHER -> "record"

\* ExecveFrom: the ExecStart command runs as a child of the invocation ...
Spawn(p) == /\ at[p] = "spawn"
            /\ \E i \in Pids :
                  /\ proc[i] = NoProcess
                  /\ proc' = [proc EXCEPT ![i] = [st |-> "run", role |-> RoleOf, parent |-> p]]
                  /\ pid' = [pid EXCEPT ![p] = i]
            /\ Goto(p, AfterSpawn)
            /\ UNCHANGED <<op, next, cache, lock, status, files, orphans>>

\* Mutant: a command that cannot be executed is not recorded.
SpawnFails_Silent(p) == /\ at[p] = "spawn"
                        /\ Goto(p, "unlock")
                        /\ UNCHANGED <<op, pid, next, cache, lock, status, files, proc, orphans>>

\* ... or cannot be executed, which the status file records.
SpawnFails(p) == /\ at[p] = "spawn"
                 /\ WriteStatus(p, [Known(p) EXCEPT !.state = "failed"], "unlock")
                 /\ UNCHANGED <<op, pid, lock, files, proc>>

\* Mutant: the end of the child is not waited for.
Await_NoWait(p) == /\ at[p] = "await"
                   /\ \E result \in {"failed", IF unit.RemainAfterExit THEN "active" ELSE "inactive"} :
                         WriteStatus(p, [Known(p) EXCEPT !.state = result], "unlock")
                   /\ UNCHANGED <<op, pid, lock, files, proc>>

\* startOneshot waits for its child (and reaps it); it records that it failed,
\* goes on with the next ExecStart command, or records the end of the last one.
Await(p) == /\ at[p] = "await"
            /\ proc[pid[p]].st = "zombie"
            /\ proc' = [proc EXCEPT ![pid[p]] = Reaped]
            /\ \/ \E result \in {"failed", IF unit.RemainAfterExit THEN "active" ELSE "inactive"} :
                     WriteStatus(p, [Known(p) EXCEPT !.state = result], "unlock")
               \/ Goto(p, "spawn") /\ UNCHANGED <<next, cache, status, orphans>>
            /\ UNCHANGED <<op, pid, lock, files>>

\* startForking with PIDFile=: the process the file names, once it exists.
PidFileAppears(p) == /\ at[p] = "daemonize"
                     /\ unit.HasPidFile
                     /\ Exists(pidfile)
                     /\ pid' = [pid EXCEPT ![p] = pidfile]
                     /\ Goto(p, "record")
                     /\ UNCHANGED <<op, next, cache, lock, status, files, proc, orphans>>

\* startForking without PIDFile=: the launcher ends, and is reaped.
LauncherEnds(p) == /\ at[p] = "daemonize"
                   /\ ~ unit.HasPidFile
                   /\ proc[pid[p]].st = "zombie"
                   /\ proc' = [proc EXCEPT ![pid[p]] = Reaped]
                   /\ Goto(p, "record")
                   /\ UNCHANGED <<op, pid, next, cache, lock, status, files, orphans>>

\* startForking gives up waiting; the process id is the launcher's.
DaemonizeTimeout(p) == /\ at[p] = "daemonize"
                       /\ Timely => Daemonizing = {}
                       /\ Goto(p, "record")
                       /\ UNCHANGED <<op, pid, next, cache, lock, status, files, proc, orphans>>

\* The start is recorded.
Record(p) == /\ at[p] = "record"
             /\ WriteStatus(p, [state |-> "active", main |-> pid[p]], "unlock")
             /\ UNCHANGED <<op, pid, lock, files, proc>>

-----------------------------------------------------------------------------
(* DoStopServiceFrom, doStopUnitFrom (halt) and DoKillUnitFrom.            *)

\* The main process id is read once, before any ExecStop command runs.
Read(p) == /\ at[p] = "read"
           /\ pid' = [pid EXCEPT ![p] = MainPid]
           /\ Goto(p, IF \/ op[p] = "halt" /\ ~ Exists(MainPid)
                         \/ op[p] = "kill" /\ MainPid = None
                      THEN "done" ELSE "term")
           /\ UNCHANGED <<op, next, cache, lock, status, files, proc, orphans>>

\* The stop signal, which a process may follow or ignore.
Term(p) == /\ at[p] = "term"
           /\ Goto(p, CASE op[p] = "kill" -> "done"
                        [] op[p] = "halt" -> "vanish"
                        [] OTHER -> IF Exists(pid[p]) THEN "vanish" ELSE "clean")
           /\ UNCHANGED <<op, pid, next, cache, lock, status, files, proc, orphans>>

\* Mutant: the wait has no timeout.
Vanish_Forever(p) == /\ at[p] = "vanish"
                     /\ ~ Exists(pid[p])
                     /\ Goto(p, "clean")
                     /\ UNCHANGED <<op, pid, next, cache, lock, status, files, proc, orphans>>

\* WaitVanishedPid: the process is gone, or the timeout is over.
Vanish(p) == /\ at[p] = "vanish"
             /\ Goto(p, IF Exists(pid[p]) THEN "kill" ELSE "clean")
             /\ UNCHANGED <<op, pid, next, cache, lock, status, files, proc, orphans>>

\* Mutant: SIGKILL is left out.
Kill_Omitted(p) == /\ at[p] = "kill"
                   /\ Goto(p, "clean")
                   /\ UNCHANGED <<op, pid, next, cache, lock, status, files, proc, orphans>>

\* SIGKILL; the second wait has no consequence.
Kill(p) == /\ at[p] = "kill"
           /\ IF Exists(pid[p])
                THEN /\ proc' = [proc EXCEPT ![pid[p]].st = "zombie"]
                     /\ orphans' = orphans \ {pid[p]}
                ELSE UNCHANGED <<proc, orphans>>
           /\ Goto(p, "clean")
           /\ UNCHANGED <<op, pid, next, cache, lock, status, files>>

\* CleanPidFileFrom: the PID file goes, then MainPID in the status file.
Clean(p) == /\ at[p] = "clean"
            /\ pidfile' = IF unit.HasPidFile THEN None ELSE pidfile
            /\ WriteStatus(p, [Known(p) EXCEPT !.main = None], "inactive")
            /\ UNCHANGED <<op, pid, lock, rundir, proc>>

\* Mutant: the stop removes the process id but does not say "inactive".
Inactive_Omitted(p) == /\ at[p] = "inactive"
                       /\ Goto(p, IF op[p] = "halt" THEN "done" ELSE "rmdirs")
                       /\ UNCHANGED <<op, pid, next, cache, lock, status, files, proc, orphans>>

\* The stop is recorded; halt ends here.
Inactive(p) == /\ at[p] = "inactive"
               /\ WriteStatus(p, [Known(p) EXCEPT !.state = "inactive"],
                              IF op[p] = "halt" THEN "done" ELSE "rmdirs")
               /\ UNCHANGED <<op, pid, lock, files, proc>>

\* RemoveServiceDirectories; a restart goes on to start the unit.
RmDirs(p) == /\ at[p] = "rmdirs"
             /\ \/ rundir' = FALSE
                \/ unit.Faults /\ rundir' = rundir
             /\ Goto(p, IF Restarting(p) THEN "check" ELSE "unlock")
             /\ UNCHANGED <<op, pid, next, cache, lock, status, pidfile, proc, orphans>>

-----------------------------------------------------------------------------
(* ResetFailedFrom: read the state, then write it.                         *)

IsFailed(p) == /\ at[p] = "isfailed"
               /\ Goto(p, IF status.state = "failed" THEN "reset" ELSE "done")
               /\ UNCHANGED <<op, pid, next, cache, lock, status, files, proc, orphans>>

Reset(p) == /\ at[p] = "reset"
            /\ WriteStatus(p, [Known(p) EXCEPT !.state = "inactive"], "done")
            /\ UNCHANGED <<op, pid, lock, files, proc>>

-----------------------------------------------------------------------------
(* The end of an invocation.                                               *)

\* An invocation is gone with its memory; its children are handed to process 1.
Gone(p) == /\ Goto(p, "idle")
           /\ op' = [op EXCEPT ![p] = "none"]
           /\ pid' = [pid EXCEPT ![p] = None]
           /\ next' = [next EXCEPT ![p] = "idle"]
           /\ cache' = [cache EXCEPT ![p] = NoCache]
           /\ proc' = [i \in Pids |-> IF proc[i].parent = p
                                        THEN [proc[i] EXCEPT !.parent = None]
                                        ELSE proc[i]]

End(p) == /\ at[p] = "done"
          /\ Gone(p)
          /\ UNCHANGED <<lock, status, files, orphans>>

\* An invocation is killed: its lock is gone, the files stay as they are, and
\* its children, in sessions of their own, go on.
Crash(p) == /\ unit.Crashes
            /\ at[p] # "idle"
            /\ Gone(p)
            /\ lock' = IF lock = p THEN None ELSE lock
            /\ orphans' = orphans \cup InFlight(p)
            /\ UNCHANGED <<status, files>>

-----------------------------------------------------------------------------
(* The processes (external).                                               *)

\* A process ends, by itself or because of a signal.
ProcessEnds(i) == /\ proc[i].st = "run"
                  /\ proc' = [proc EXCEPT ![i].st = "zombie"]
                  /\ orphans' = orphans \ {i}
                  /\ UNCHANGED <<at, op, pid, next, cache, lock, status, files>>

\* Process 1 reaps what it has inherited; the process id is free again.
Reap(i) == /\ InitReaps
           /\ proc[i].st = "zombie"
           /\ proc[i].parent = None
           /\ proc' = [proc EXCEPT ![i] = Reaped]
           /\ UNCHANGED <<at, op, pid, next, cache, lock, status, files, orphans>>

\* The launcher of a forking unit leaves the daemon behind.
DaemonForks(i) == /\ proc[i].st = "run"
                  /\ proc[i].role = "launcher"
                  /\ \E d \in Pids :
                        /\ proc[d] = NoProcess
                        /\ proc' = [proc EXCEPT
                              ![i].role = "task",
                              ![d] = [st |-> "run", parent |-> None,
                                      role |-> IF unit.HasPidFile THEN "daemon" ELSE "main"]]
                  /\ UNCHANGED <<at, op, pid, next, cache, lock, status, files, orphans>>

\* The daemon writes its PID file.
WritePidFile(d) == /\ proc[d].st = "run"
                   /\ proc[d].role = "daemon"
                   /\ proc' = [proc EXCEPT ![d].role = "main"]
                   /\ pidfile' = d
                   /\ UNCHANGED <<at, op, pid, next, cache, lock, status, rundir, orphans>>

\* A process that has nothing to do with the unit starts.
StrangerStarts(i) == /\ unit.Strangers
                     /\ proc[i] = NoProcess
                     /\ proc' = [proc EXCEPT ![i] =
                                   [st |-> "run", role |-> "stranger", parent |-> None]]
                     /\ UNCHANGED <<at, op, pid, next, cache, lock, status, files, orphans>>

-----------------------------------------------------------------------------

StartStep(p) == \/ Check(p) \/ Dirs(p) \/ Pre(p) \/ Activating(p) \/ Spawn(p) \/ SpawnFails(p)
                \/ Await(p) \/ PidFileAppears(p) \/ LauncherEnds(p) \/ DaemonizeTimeout(p)
                \/ Record(p)

StopStep(p) == Read(p) \/ Term(p) \/ Vanish(p) \/ Kill(p) \/ Clean(p) \/ Inactive(p) \/ RmDirs(p)

Step(p) == \/ Precheck(p) \/ Lock(p) \/ LockFails(p) \/ Unlock(p) \/ ActiveUnderLock(p)
           \/ StartStep(p) \/ StopStep(p) \/ IsFailed(p) \/ Reset(p) \/ Flush(p) \/ End(p)

ProcessStep(i) == \/ ProcessEnds(i) \/ Reap(i) \/ DaemonForks(i) \/ WritePidFile(i)
                  \/ StrangerStarts(i)

Next == /\ \/ \E p \in Procs : Begin(p) \/ Step(p) \/ Crash(p)
           \/ \E i \in Pids : ProcessStep(i)
        /\ unit' = unit

Spec == Init /\ [][Next]_vars

\* p waits for a command of the unit file, and nothing bounds the wait (runExecCmd and
\* startOneshot call SubprocessWaitpid): ExecStartPre at "pre", ExecStart of a oneshot
\* unit at "await", ExecStop at "term", ExecStopPost at "clean", ExecStartPost and
\* ExecReload before the lock is let go.  Halt and kill run no command.
RunsCommand(p) == \/ at[p] \in {"pre", "await"}
                  \/ at[p] \in {"term", "clean"} /\ op[p] \notin Unlocked
                  \/ at[p] = "unlock" /\ op[p] # "stop"

\* An invocation that can go on does, unless it is such a command that has to: its
\* other waits are polling loops that time out.  Nothing is assumed about the
\* processes of the unit.
FairSpec ==
    Spec /\ \A p \in Procs : WF_vars(Step(p) /\ ~ RunsCommand(p) /\ UNCHANGED unit)

-----------------------------------------------------------------------------

TypeOK == /\ unit \in Units
          /\ at \in [Procs -> Labels]
          /\ op \in [Procs -> Locking \cup Prechecks \cup Unlocked \cup {"none"}]
          /\ pid \in [Procs -> Pids \cup {None}]
          /\ next \in [Procs -> Labels]
          /\ cache \in [Procs -> Status \cup {NoCache}]
          /\ lock \in Procs \cup {None}
          /\ status \in Status
          /\ pidfile \in Pids \cup {None}
          /\ rundir \in BOOLEAN
          /\ proc \in [Pids -> Process]
          /\ orphans \subseteq Pids

\* The service processes that run.
Mains == {i \in Pids : proc[i].st = "run" /\ proc[i].role \in {"main", "daemon"}}

Operating(p) == at[p] \notin {"idle", "precheck", "lock", "done"}

\* "fcntl waitlock prevents parallel operations on the same unit" (README).
NoParallelOperations ==
    \A p, q \in Procs : Operating(p) /\ Operating(q) => p = q

\* Every service process that runs can be found again: the files name it, or the
\* invocation that has just started it does, or that invocation was killed before
\* it recorded the start, or failed to record it, which DoStartServiceFrom ignores.
RunningIsRecorded ==
    Mains \subseteq {MainPid} \cup orphans \cup UNION {InFlight(p) : p \in Procs}

\* However starts, stops and restarts overlap, a unit does not run twice.
SingleInstance == Cardinality(Mains \ orphans) <= 1

\* A stop that reaches its end leaves no process behind, although it waits with
\* a timeout for a process that may ignore the signal.
StopLeavesNothing ==
    \A p \in Procs : at[p] \in {"rmdirs", "unlock"} /\ op[p] = "stop" => Mains \subseteq orphans

\* A stop, or the stop half of a restart, never takes the runtime directory away
\* from a service that another invocation has started, or from a start that has
\* made it.
RuntimeDirStays ==
    [][rundir /\ ~ rundir' =>
          /\ Mains \subseteq orphans
          /\ \A p \in Procs : at[p] \notin {"pre", "exec", "spawn", "await", "daemonize",
                                          "record"}]_vars

\* A forking unit whose status file says "active" has a main process on record, as
\* long as files can be written.
ActiveNamesMain ==
    unit.Type = "forking" /\ ~ unit.Faults /\ lock = None /\ status.state = "active" => status.main # None

\* The command of a oneshot unit does not run twice at a time.
OneTask == unit.Type = "oneshot" =>
              Cardinality({i \in Pids : proc[i].st = "run" /\ proc[i].role = "task"}) <= 1

\* A oneshot unit nobody works on is not left "activating", whichever of its
\* commands fails and however, as long as files can be written and no invocation is
\* killed.
OneshotSettles ==
    unit.Type = "oneshot" /\ ~ unit.Faults /\ lock = None => status.state # "activating"

\* An invocation whose commands end comes to its end, even if the service ignores
\* its signals, the daemon never writes its PID file, or the lock is never free.
InvocationEnds ==
    \A p \in Procs : []<> ~ RunsCommand(p) => (at[p] # "idle" ~> at[p] = "idle")

-----------------------------------------------------------------------------
(* What the documentation says and the code does not do.                   *)

\* "configurable KillSignal and KillMode" (README), control-group by default: the
\* stop of a unit that was started without any timeout leaves none of its
\* processes behind.
StopStopsTheGroup ==
    [][\A p \in Procs : op[p] = "stop" /\ Unlock(p) => Mains = {}]_vars

=============================================================================
