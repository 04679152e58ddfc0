# A verification project for systemctl-go

systemctl-go is `systemctl` for containers that have no systemd: a program that
reads systemd's unit files and starts, stops and lists services by itself. There
is no manager process. **Every command line is an operating-system process of its
own**, and all that two of them share is in files: a status file, a PID file, a
lock file and a few directories per unit, and symlinks in the `*.wants` folders
for the enabled state. What makes the program hard is that these processes
overlap, can be killed anywhere, and act on processes that they neither own nor
can wait for.

This directory holds TLA+ models of that program, the configurations TLC checks
them with, and proofs that TLAPS checks. `PROJECT.json` is the index: it maps every
definition that models code to the lines it models, names the runs and their
properties, for every property the change of the code that breaks it (a mutant
operator in the module), the hazards, and the theorems.

    tlc -workers 2 -config MCWaitlock.cfg MCWaitlock     # one run
    tlapm WaitlockProofs.tla                              # one proof module

## 1. The system's parts

| part | source | state it keeps | operations |
|---|---|---|---|
| Waitlock | `internal/conf/waitlock.go` | `<RUN>/systemd/<unit>.lock`, a record lock on its inode, one line in it | `Lock`, `Unlock` |
| Service control | `internal/systemctl/systemctl_exec.go`, `systemctl.go` | the processes of a unit, the runtime directory | start, stop, restart, try-restart, reload, reload-or-restart, reload-or-try-restart, kill, halt, reset-failed |
| Status and PID files | `systemctl.go` 338-652 | `<RUN>/<unit>.status` (`ActiveState`, `MainPID`, ...), `PIDFile=`, the map `c.Status` in memory, the boot time | `WriteStatusFrom`, `ReadStatusFrom`, `ReadMainpidFrom`, `CleanPidFileFrom`, `TruncateOld`, `GetBoottime` |
| Notify socket | `systemctl_exec.go` 118-196 | a datagram socket `<notify folder>/<unit>.notify` | `NotifySocketFrom`, `WaitNotifySocket` |
| Process existence | `internal/process/process.go` | - (the process table) | `PidExists`, `PidZombie`, users and groups |
| Start order | `internal/units/unitfiles.go` 1130-1246 | - | `GetAfter`, `GetBefore`, `CompareAfter`, `ConfSortedAfter` |
| Unit file database | `unitfiles.go` | maps of found files, loaded units, aliases | scan of folders, `LoadConf`, templates, matching of names, drop-ins |
| Environment of a service | `unitfiles.go` 860-986, `systemctl.go` 711-733, `ReadEnvFile` | the map that the children get | `GetEnv`, `ExpandEnv`, `ExtendExecEnv` |
| Enable, disable, presets | `systemctl.go` 900-1150, `conf/preset.go` | symlinks in `*.wants` and `*.requires`, preset files | enable, disable, preset, preset-all, is-enabled |
| Dependencies and targets | `unitfiles.go` 900-1126, `systemctl_exec.go` 1047-1082 | status of the default target | `ListDependencies`, `GetTargetList`, `StartDefault`, `ExitDefault` |
| Init mode, sockets | `systemctl_exec.go` 900-1139, `listen/listen.go` | table of sockets, the loop lock | `InitLoop`, `ListenModules`, the poll loop, acceptor goroutines |
| Unit file parser | `conf/confdata.go`, `conf/conf.go` | sections, keys, values | `ReadUnitFile`, `Get`, `Set` |
| Journal | `journal/journal.go`, `cmd/journalctl` | log files | print, follow |
| Helpers, command line | `utils`, `paths`, `types`, `logger`, `commands`, `cmd/systemctl` | - | conversion, dispatch, printing |

How they interact: `cmd/systemctl/main.go` dispatches a command (`RunCommand`) to a
`...Modules` function, which matches the unit names against the database and calls
a `...UnitFrom` function for each match, in that order. That one takes the unit's
Waitlock, reads the status and PID files, forks and signals processes, writes the
files and releases the lock. Nothing calls back; the only concurrency inside one
process is the listener of init mode. At this commit no command reaches
`ListenModules`, `StartDefault`, `InitLoop` or the sort by start order: they are
exported functions for callers to come.

What is hard, and what would be correct:

* **Overlap.** Two starts, or a stop and a start, of one unit at a time. Correct
  if the unit never runs twice, and a stop that ends leaves nothing running.
* **The lock itself** is on an inode, its file can be removed and made anew while
  somebody waits, its holder can die. Correct if it still excludes, and if a call
  of `Lock` always returns.
* **Non-atomic files.** `os.Create` empties the status file before it is written,
  and an invocation writes from a map it read earlier. Correct if a process that
  runs can always be found again.
* **Processes are not owned.** A recorded process may be gone, a zombie or another
  process with the same number; a daemon writes its PID file in its own time; a
  signal may be ignored. Correct if waits end and end right.
* **One memory, several units.** A command line works on a list of units one after
  the other, with what it has loaded and read before still in memory. Correct if
  each unit fares as if it were alone.
* **Check, then act.** Some commands look at the state before they have the lock,
  or never take it: enable and disable work on symlinks that others make and remove
  at the same time. Correct if what was enabled stays enabled, what was disabled is
  gone, and nobody else's file is taken.
* **After a boot.** The status files of the time before are still there, and name
  processes whose ids others have by now. Whoever reads such a file empties it, in a
  step after the look at its time. Correct if nobody learns anything from the past,
  and nobody loses what is of the present.
* **Late messages.** The notify socket has one path for every start. Correct if a
  start becomes ready by a message of its own service only.
* **Goroutines.** In init mode the poll loop starts an acceptor per socket and poll,
  gives up on it after 100 ms, and each acceptor starts a service without its lock.
  Correct if the services come up, run once, and everything ends with the loop.
* **Text that goes in circles.** Orderings that contradict each other, units that
  need each other, files that include themselves, variables that refer to themselves.
  Correct if everything ends, and all that can be respected, listed, read or expanded
  is.

`PROJECT.json` lists under "hazards" where in the code each of these bites, and the
properties that cover it, or why none does yet.

## 2. The modules

| module | models | kind |
|---|---|---|
| `UnitMutex` | what a Waitlock promises | abstract specification |
| `Waitlock` | `waitlock.go`, one action per system call | detailed; refines `UnitMutex` |
| `ServiceControl` | the operations on one service unit, its files and its processes | detailed; takes the lock as `UnitMutex` states it |
| `BootFiles` | the status file around a boot, one action per system call | detailed |
| `Notify` | start and stop of a unit of Type=notify | detailed |
| `UnitBatch` | command lines over several units, each with its lock and files | composition; refines `ServiceControl` for every unit |
| `SocketActivation` | `ListenModules`, `InitLoop`, the listener and its goroutines | detailed |
| `UnitLinks` | enable, disable, preset, is-enabled: the symlinks of a unit, without a lock | detailed |
| `UnitDatabase` | from the arguments of a command line to loaded units | sequential algorithm |
| `UnitFile` | the reading of a unit file and its drop-ins | sequential algorithm, against the meaning of the text |
| `Environment` | the environment of a service and the expansion of variables | sequential algorithm, against the meaning of the values |
| `Dependencies` | `list-dependencies` | recursive algorithm, against reachability |
| `SortAfter` | `CompareAfter` and `ConfSortedAfter` | sequential algorithm |
| `UnitFiles` | the last five side by side: their types, and that they end | composition |
| `MCWaitlock`, `MCServiceControl`, `MCServices`, `MCBootFiles`, `MCUnitBatch`, `MCUnitLinks`, `MCSocketActivation`, `MCUnitFiles` | - | for TLC, with the `MC*.cfg` |
| `WaitlockProofs`, `ServiceControlProofs`, `NotifyProofs`, `BootFilesProofs`, `UnitBatchProofs`, `UnitLinksProofs`, `SocketActivationProofs`, `UnitFilesProofs` (of `SortAfter`, `Dependencies`, `UnitFile`, `Environment` and `UnitDatabase`) | - | theorems and proofs |

Three of the modules for TLC hold several modules side by side: `MCServices`
`ServiceControl`, with a simple unit, a oneshot or a forking one, and `Notify`;
`MCUnitFiles` the five sequential algorithms; `MCWaitlock` the lock and a forking unit
whose operations have to end. A behaviour is about one of them, and the variables of
the others stay where they are at first.

### Waitlock

A process `p` is an invocation; `pc[p]` is its next system call. `opened[p]` is the
inode behind its descriptor, `linked` the inode the *name* of the lock file leads
to, `owner[i]` who has the record lock on inode `i`, `content[i]` whose line is
written in it. `Open`, `SetLk`, `Wait`, `Verify` (the `fstat` and the look at
`Nlink`), `Reopen`, `Write`, `GiveUp` are the loop of `Lock`; `Truncate`, `Release`,
`Close` are `Unlock`. `Exit` is the end or death of an invocation at any point; the
kernel closes what it had open. systemctl never removes a lock file; `Unlink` is
whoever cleans up `/run`. Opening can fail (disk, permissions), and `Lock` then
returns false, as after its last attempt.

`robbed` is a history variable: the file was removed under an invocation *after*
it had checked the link count. Nothing in the code can notice that, so exclusion
is stated up to it, and `UnitMutex` has it as the action `Lose`. Where nobody
removes lock files (`AllowUnlink`/`MayLose` false) it cannot happen.

### ServiceControl

Invocations `p` go through labels `at[p]`, which name what they do next, between
any two of which others may step in or the invocation may be killed. One action
per step that touches shared state:

| code | actions |
|---|---|
| `RunCommand`, `...Modules` | `Begin`, `Precheck` (state looked at without the lock), `End` |
| `wl.Lock()`, `defer wl.Unlock()` | `Lock`, `LockFails`, `Unlock` |
| `DoRestartUnitFrom`, `DoReloadServiceFrom` | `ActiveUnderLock` |
| `DoStartServiceFrom`, `startOneshot`, `startForking` | `Check`, `Dirs`, `Pre`, `Activating`, `Spawn`, `SpawnFails`, `Await`, `PidFileAppears`, `LauncherEnds`, `DaemonizeTimeout`, `Record` |
| `DoStopServiceFrom`, `doStopUnitFrom`, `DoKillUnitFrom` | `Read`, `Term`, `Vanish`, `Kill`, `Clean`, `Inactive`, `RmDirs` |
| `ResetFailedFrom` | `IsFailed`, `Reset` |
| `WriteStatusFrom` | `WriteStatus`: the file is emptied (`WriteBegins`), or that fails (`WriteFails`); `Flush`: its lines are there, or some of them |

`status` is the content of the status file, `cache[p]` the map `c.Status` of an
invocation, which is read once and then written back. `pidfile` is the PID file,
`rundir` whether the runtime directory exists. `proc[i]` is the process with id
`i`: free, running or a zombie, its role, and which invocation is its parent.
The environment: processes end (`ProcessEnds`, by themselves or by a signal they
follow), are reaped by process 1, a launcher forks a daemon, the daemon writes its
PID file, strangers take free process ids, invocations are killed (`Crash`).

Time is left out: a wait for the service is a polling loop, and ends when its
condition holds, or at any moment by its timeout. The exception is the constant
`Timely`. Commands of the unit file other than ExecStart (ExecStartPre, ExecStartPost,
ExecReload, ExecStop, ExecStopPost) and the ExecStart of a oneshot unit are waited for with
no timeout (`runExecCmd`, `systemctl_exec.go` 575); `RunsCommand(p)` says where an
invocation may be in such a wait.

Writes can fail, in a unit whose field `Faults` says so. `WriteStatusFrom` gives up when the
directory cannot be made or the file not created, and ignores the result of each line it
writes (`systemctl.go` 441-477); none of its callers looks at what it returns.
`CreateServiceDirectories` may fail, and the start goes on without the runtime directory
(`systemctl_exec.go` 392); so may the removal of the directory. A line that is
written in part is not considered. Without `Faults` all of these succeed; the modules
`BootFiles`, `Notify`, `UnitBatch` and `SocketActivation` assume that, too, and say so.

`orphans` is a history variable: processes whose invocation was killed between
starting them and writing their id to the status file, or failed to write it. Nothing
closes that window (`systemctl_exec.go` 438-458), and the properties say that it is the
only one.

The variable `unit` is what the unit file says and what a behaviour may do to the unit; it
is chosen from the constant `Units` at first and never changes (`UnitStays`). Its fields are
`Type`, `HasPidFile`, `HasReload`, `RemainAfterExit`; the operations `Ops`; how many
process ids there are to give out (`Ids`); and the environment: `Crashes`, `Strangers`,
`Reuse` (a process id that is free is given out again), `Faults`. Two constants are about the whole
system: `InitReaps`, and `Timely` (a daemon that is still on its way writes its PID file
before the start gives up).

Abstractions: the two reads of a state check (PID file, then status file) are one
step; an ExecStart list is one command that may be repeated; the commands of
ExecStartPre, ExecStop, ExecReload and so on are a choice between success and
failure where that matters and are left out where it does not; a signal is
followed at some time or never.

### SortAfter

One action per compared pair (`Compare`), one per further pass (`NextPass`), and the
final `sort.Slice` (`Sort`), which is not stable, so units of one rank come in any
order. `SortInit` is every After= and Before= relation on N units.

`ConfSortedAfter` is called by no command yet; it is modelled as the function the
units package offers.

### UnitBatch

`StartModules`, `StopModules` and `RestartModules` over a list of units of
Type=simple. `lock`, `status`, `rundir` are functions of the unit; `inv[p]` is what an
invocation has in memory: the units it still has to do (the first is the one it is
at), and `cache`, the status maps of the loaded units. `ConfOf(u)` is the entry of
`loadedUnitConf` that unit `u` leads to: its own, or, for an instance of a template,
the template's, which all its instances share. `Begin` matches the names, `Advance`
goes to the next unit, whatever came of the last one; the steps in between are
those of `ServiceControl`, and `EachUnitAlone` says that they are: it instantiates
`ServiceControl` once per unit, which is `Each`, as the views `AtSeen`, `OpSeen`, `PidSeen`, `NextSeen`,
`CacheSeen` and `ProcSeen` give it, with the invocations that are at another unit
idle and the processes of other units as strangers, and demands that every step
is for every unit a step of `ServiceControl` or a stutter. TLC checks it for two units,
and it is proved for any number (`UnitsAreAlone`, `UnitIsService`). So what is proved of
one simple unit there (exclusion, single instance, recording) holds of
each unit of a list, as long as no two of them are instances of one template.

### UnitLinks

One unit, whose links may be in the directories `<target>.wants` and
`<target>.requires` of the unit folders. A place is a pair of a folder and a
directory; `links[l]` is what is there: nothing, a link to the unit, or something
else of that name. `inv[p]` is what an invocation has in memory: its command, the
places or directories it has still to do (`todo`), the one it is at (`here`), and
the answer. One action per system call:

| code | actions |
|---|---|
| `ScanUnitFiles`, `LoadPresetFiles`, `GetPresetOfUnit` | `Conf`, `Rule`, `PresetOf`: the first folder that has a name wins |
| `enableUnit` | `BeginEnable`, `Mkdir`, `MkdirFails`, `Lstat`, `Remove`, `Symlink`, `SymlinkFails`, `EnableEnds` |
| `disableUnit` | `BeginDisable`, `ReadDir`, `ReadLink`, `Rm`, `FolderDone` |
| `PresetModules` | `Begin`: an enable or a disable, as the rules and `--preset-mode` have it |
| `IsEnabledModules`, `EnabledFrom` | `BeginQuery`, `Scan`, `ScanEnds` |

`promised` (places where an enable has found or made a link and no disable has
removed it), `torn` (places where an enable failed or was killed right before the
symlink) and `seen` (per invocation: places where a link was made since it began,
and places that have had one all the time) are history variables.

Abstractions: the order in which an invocation visits targets and directories is
left open; reading the unit and preset files is one step, and they do not change
while commands run. That they changed *before* is in: the links at first may be
of an earlier unit file, with another WantedBy= and in another folder. Nobody but
these commands changes the links while they run.

### BootFiles

`ServiceControl` takes the read of a status file as one step, and has no file from before
the boot. Here `ReadStatusFrom` is taken apart: `Look` (is there a file, and when was it
written?), `Truncate` or `Read`; `Create` and `Lines` are `WriteStatusFrom`. `then[p]` is
what follows the read that `p` is in, `got[p]` what the read gave. Start and stop take the
lock; is-active and reset-failed do not, and may empty or rewrite the file at any time.

| code | actions |
|---|---|
| `ReadStatusFrom`, `TruncateOld`, `GetBoottime` | `Look`, `Truncate`, `Read` |
| `WriteStatusFrom` | `Create` in `Record`, `Fail`, `Clean`, `Inactive`, `Reset`; `Lines` |
| `GetActiveServiceFrom`, `DoStartServiceFrom` | `Main`, `State`, `Again`, `Spawn`, `Record`, `Fail` |
| `DoStopServiceFrom`, `ResetFailedFrom` | `Signal`, `Clean`, `Inactive`; `Reset` |

At first the file is missing or old, with any content, and any process id may be a
stranger's. `Visible` are the processes that can be seen in `/proc`: where it has none of
0 to 8, the boot time comes out as the time of the look. Every write of the file makes it
newer than any time taken before (`Written`). `exposed` is a history variable: processes
whose record was written while somebody without the lock had already decided to empty or
rewrite the file. PID files are left out (no unit here has one); they take the same path.

### Notify

One invocation at a time, since it holds the lock of the unit. `NotifySocketFrom` removes
what is at the path and binds a new socket there; `Execve` hands its path to the service;
`ReadMessage`, `ReadTimesOut` and `NextAttempt` are the loop of `WaitNotifySocket`;
`RecordActive` writes "active" whatever came of it. With a timeout of no attempts at all the
loop is not entered, and `Execve` goes on to the record at once. `told` are the processes that were ever
given the path, each of which may `Send` whenever a socket is there. `heard` is whose
READY=1 ended the wait, a history variable. A process that died is a zombie until its
starter has ended, and a zombie exists for `PidExists`.

### SocketActivation

The main goroutine registers the sockets (`ListenUnit`) and runs the loop (`RunListener`,
`StopListener`); the listener polls (`Poll`, `Visit`, `Waited`, `VisitsEnd`,
`CloseSockets`) and gives each visit an acceptor (`AcceptLock`, `Accept`, `Send`), which
starts a goroutine for the service (`Load`, `Check`, `Again`, `Prepare`, `Spawn`, `Record`,
`Fail`: `DoStartServiceFrom` without its lock). `service` is what the unit file of each
service is, one of `Kinds`: there may be none (`Load` ends the start), it may have no
ExecStart, or have an ExecStartPre that fails (`Prepare`); these starts end with nothing on
record. `Waited` may come before the acceptor is done: the
100 ms are over. `ConcurrentMapWrites` is the end of the process that the Go runtime may
bring about when two goroutines write `loadedUnitConf`, or a unit's status map, at the same
time. `CreateSocket` is which kind of socket comes of a Listen option and an address.
`overlapped` is a history variable: services that a starter found not to be running while
another one was about to start them. The services keep running; their deaths are
`ServiceControl`'s subject.

### UnitDatabase

Units are named by prefix, instance and suffix. `ScanFolder` is one folder of
`ScanUnitFiles`. `MatchUnits` is three loops, and a step is one name: `MatchUnitFile` and
`MatchSysvFile` go through the names in their order (`Foremost`; the order is the constant
`Place`), while `TakeItem` takes the next name with "@" in any order, as Go iterates over a
map, and `MatchUnitTemplate` compares it with one argument after the other. `Work` is the
loading of the next unit. Which files a pattern matches is given with the argument. What
`ParseUnit` leaves whole is left out: names that begin with "." or "@", and files with "@"
and without a suffix.

`EveryNamedUnitOnce` says what all of it is for; `AfterInstances` is the one case in which
a unit is worked on by another one's name: a template, when an argument has its prefix
with an empty instance and does not match it.

### UnitFile

A line is kept as what the parser makes of it: a header, an assignment, an empty
assignment, an include, a comment, nothing, or an error, and whether it ends in a backslash.
A value is the place where it was written. `OpenNext` is `LoadUnitConf` with the drop-ins in
the order of their names; the other actions are the branches of `ReadUnitFile`, and
`FileEnds` its end. `.include` stacks a reader on the one that includes, up to `MaxOpen` open
files. `ConfIsAsWritten` compares the result with what the texts say as a whole, told without
readers and states. What a piece of text does to the values of an option is an *effect*: whether
the values from before stay, what comes after them, and whether it can be read to its end.
`LineEffect` is that of a line (with `Start`, `SectionAt` and `EndOf`, which tell from the
lines around it whether it is a line of its own, in which section, and how far it goes),
`FileEffects` that of a file with all it includes, `FilesInTurn` that of the unit file and its
drop-ins, one after the other (`Then`, `InTurn`). In the meaning an assignment goes on after
a backslash and after nothing else. The parser also goes on over an empty line
(`confdata.go` 187), and takes the line behind it, even a header, into the value; so the
property is about files in which no continued line is followed by an empty one
(`NoEmptyLineJoined`). The actions follow the parser there as everywhere.

### Environment

`BuildServiceEnv` is the order in which `buildServiceEnv`, `GetEnv` and `ExtendExecEnv` make
their definitions; `Define` makes one, `BeginExpand` and `Round` are `ExpandEnv`. A value is
a sequence of text, `$NAME` and `${NAME}`. `ExpansionIsFull` compares an expanded value
with its `Meaning`, told by recursion over the references (`Meanings`: of variables whose references
are nested at most so deep). It is `${NAME}` that is replaced at any depth; a `$NAME` of the
value itself is replaced once, before them, and one that comes in with the value of a
variable stays (`unitfiles.go` 931). `made` is a history variable: the definition each
variable has its value from. `StrongestSourceCounts` says which that is: the last word of the
last of eight sources (`WeakestFirst`) that names the variable: the default path, the
environment of systemctl, `Environment=`, `EnvironmentFile=`, the command line, the reset of the
locale, locale.conf, the directories of the service. Some of the calls replace what is
there and others only add, so that the order of the calls is not that of the strength.

### Dependencies

`listDependencies` calls itself; the calls are frames of `stack`. `Enter`, `Follow` and
`Return` are the head of a call, one round of its loop and its return. Go goes over the
map of dependencies in any order. `ListingIsComplete` compares the listing with
`Reachable`, the least set that is closed under the dependencies.

## 3. The runs

| run | configuration | checks | states |
|---|---|---|---|
| `waitlock` | 2 invocations, 3 inodes, 3 attempts, files removed at any time; beside it a forking unit whose daemon may take for ever: without `PIDFile=`, restarted and halted, or with one, restarted | `TypeOK`, `ExclusionUnlessRobbed`, `ContentNamesHolder`, `CallsReturn`, refinement `MutexSpec` | 308,000 |
| `services` | simple unit: start, stop, try-restart, 3 process ids, deaths, strangers, reuse of ids. Simple unit whose writes may fail: start, stop, 2 process ids, reuse of ids. Oneshot unit with `RemainAfterExit`: all operations it has. Forking unit with `PIDFile=`: restart, stop, kill, 4 process ids. Notify unit: 2 attempts, 2 messages. 2 invocations each | `TypeOK`, `RunningIsRecorded`, `SingleInstance`, `StopLeavesNothing`, `RuntimeDirStays`; of the oneshot unit `OneTask`, `OneshotSettles`; of the forking one `ActiveNamesMain`; `ReadyIsOwn` | 929,000 |
| `boot_files` | 2 invocations, 3 process ids, a status file of any content from before the boot; start, stop, is-active, reset-failed | `TypeOK`, `RecordedUnlessExposed`, `OnceUnlessExposed`, `ReadsAreOfThisBoot` | 1,080,000 |
| `unit_batch` | two simple units, two invocations that restart both; killed between the start of a process and its record | `TypeOK`, `WaitsEmptyHanded`, `EachUnitAlone` (refinement of `ServiceControl`), `StopsOnlyMatched` | 198,000 |
| `unit_links` | two invocations of any command, two folders, three directories, two preset files; deaths, failing system calls, old links | `TypeOK`, `LinkStays`, `DisableClears`, `AnswersTruly`, `ForeignStays` | 1,400,000 |
| `socket_activation` | a stream socket, one without a Listen option, one that cannot be made; their services are not found, have an ExecStartPre, or none; 2 acceptors, 2 starters | `TypeOK`, `RunsOnceUnlessOverlapped`, `AllEnds`, `ServicesStart` | 149,000 |
| `unit_files` | every After= and Before= on 3 units; dependencies among 3 units in three forms; unit files of up to 3 lines of ten kinds, and drop-ins in 2 folders; environments of 4 variables from 8 sources; 256 layouts of folders and 9 command lines | `TypesOK`, `SortRespectsOrder`, `SettledIsOrdered`, `ListingIsComplete`, `ConfIsAsWritten`, `ExpansionIsFull`, `StrongestSourceCounts`, `EveryNamedUnitOnce`, `AllEnd` | 283,000 |

Five more runs check what the documentation and the comments say and TLC refutes:

| run | the documentation | what happens |
|---|---|---|
| `halt_unlocked` | README: "`fcntl` waitlock prevents parallel operations on the same unit" | `halt` signals, removes the PID file and writes the status file without taking the lock |
| `boot_time_unseen` | "TruncateOld returns true and truncates the file if it predates the boot time" | where none of the processes 0 to 8 is visible, the search for the oldest process formats names with `%d`, finds none, and the boot time is the time of the look: every file is emptied |
| `stop_one_process` | README: "configurable KillSignal and KillMode" | `KillMode` is logged only; without `PIDFile=` the stop signals a launcher that ended long ago, and the daemon stays |
| `dropin_overrides` | README: "`.conf` overrides in `<unit>.d/` directories" | values are appended, and the first one counts: a drop-in cannot change an option that the unit file has set, unless it empties it first |
| `batch_instances` | "StopModules stops every matched unit" | the instances of a template share the status map: after `start foo@a foo@b` whose second start fails, the status file of `foo@b` has the MainPID of `foo@a`, and `stop foo@b` kills it |

**Why these bounds.** Exclusion, and everything about it, is between two parties;
the theorems below hold for any number. Three inodes: one that is held, one that
replaced it, and one more to replace that. Three attempts let one call of `Lock`
meet a busy lock and a removed file, in both orders. Three process ids: an old
process, a new one, and a stranger that took a free number; four for a forking
unit, whose launcher and daemon need one each, twice. Two attempts and two messages
for the notify socket let a wait fail after a message and have one left over.
Two units and two invocations are the least for locks taken in turn and for one
unit's map to be written to another's file; two process ids, one for each unit's
process. In `unit_batch` the points where an invocation may be killed (`Crashes`) are
those at which its death leaves a process without a record; the others are in
`services`, to which `EachUnitAlone` refers. Two folders for `unit_links`: the one
where links are made, which may hide a unit file of the other, and one with old links;
three directories: a common target, one that is not, and a `.requires`; two preset
files are enough for one to rule before the other and for one to be hidden by its
namesake. One polled socket in `socket_activation`: services share nothing but
`loopLock` and the bounds on goroutines, and two starters are what it takes to overlap; a
service without ExecStart does nothing that one with ExecStartPre cannot do; the
theorem holds for any number of sockets (with two, the liveness properties are out of
reach). Three units are the least with a chain whose pairs come in the wrong order, so
that one pass of the sort is not enough, and with circles longer than a pair, one of
which the root is not on. Three lines are the least for an assignment to go on
over a line that is another kind of line elsewhere, and to end before a third. Four rounds for four variables: `MaxRounds` in the code
is 20, and what matters is whether there are as many rounds as variables.
Symmetry is used in the runs without liveness properties only.

**Where a run restricts the environment it says so.** The forking unit of `services` has
no deaths of invocations, no reuse of ids and daemons that are in time: with late
daemons the code records the launcher, and the properties fail by design of the
code; with reuse a PID file left by a dead daemon can name a stranger, which the
code does not tell from the service. The oneshot unit has no deaths: the code
leaves a oneshot unit "activating" when its invocation is killed, and has no
recovery. Both are in the list of hazards. Neither has failing writes: a oneshot unit whose
last write fails stays "activating", and a daemon whose record fails is known from its
PID file only. The simple units have no such restriction, one with deaths and one with
failing writes; their restart and reload, which are their stop and start under one lock, are
in `unit_batch` and in the theorems, which allow deaths and failing writes together. The
units of `waitlock` have no reuse of ids: that the daemon's processes end is not assumed anyway.

Deadlock is checked in `waitlock`, `boot_files`, `unit_batch` and `unit_links`. In
`services` a unit of Type=notify may use up its process ids; `unit_files` and
`socket_activation` stop when they are done (`AllEnd` and `AllEnds` say that they get there).

**Fairness.** `waitlock`: weak fairness of `Waitlock!LockStep(p)`. No call of `Lock`
blocks (`F_SETLK` returns at once, `time.Sleep` ends), so a process in it runs on;
`Open` (whether a command is ever given), `Unlock` (how long an operation lasts),
`Exit` and `Unlink` are not fair. `CallsReturn` therefore holds although a holder may
never let go. And weak fairness of `ServiceControl!Step(p) /\ ~RunsCommand(p)`, the next
step of an invocation unless it is a command of the unit file that has to end first, and none
at all for the unit's processes: a service may ignore every signal but SIGKILL, a daemon may
never appear. Waits for the service are polling loops with a timeout; waits for commands have
none. `CallsReturn` is therefore about invocations whose commands end
(`[]<> ~RunsCommand(p)`), and about all calls of `Lock`. `SocketActivation!FairSpec`: weak fairness of
each goroutine, which the Go scheduler gives; strong fairness of the taking of
`loopLock`, as `sync.Mutex` lets no waiter starve, and of taking a free name for a new
goroutine, since the number of goroutines is bounded in the model only. An ExecStartPre that
never ends leaves a goroutine that holds no lock and that nobody waits for; the model lets it
end, with nothing on record. `exitMode` may never be set. `unit_files`: weak fairness of the one sequential process.

## 4. The proofs

For every value of the constants, checked by TLAPS:

| theorem | says | argument |
|---|---|---|
| `WaitlockProofs!TypeCorrectness` | `TypeOK`; at most MaxWait attempts | `TypeOK` is not inductive: "an attempt is left while looping, and a descriptor is open" is added (`TypeInv`) |
| `WaitlockProofs!Exclusion` | `ExclusionUnlessRobbed` | inductive `Inv`: who is between `SetLk` and `Release` owns its inode, an owner is in there, and who has verified and is not robbed has the inode that is linked. Two of them have the same inode, hence are the same |
| `WaitlockProofs!ContentIsHolders` | `ContentNamesHolder` | a part of `Inv`; needs that an inode in use is never given out anew |
| `WaitlockProofs!RefinesMutex` | `Spec => MutexSpec` | `MutexInv` = `Inv` and "only who is inside is robbed"; every step maps to a step of `UnitMutex` or to a stutter |
| `WaitlockProofs!MutexExcludes` | `UnitMutex` excludes, and loses nobody where nothing is removed | invariant of `UnitMutex` |
| `ServiceControlProofs!TypeCorrectness` | `TypeOK` for every type of unit; no write starts from a map that was never read | `TypeInv` adds `FlushHasMap` |
| `ServiceControlProofs!SimpleRunsOnce` | `SingleInstance` | assumes `SimpleUnit` |
| `ServiceControlProofs!SimpleIsRecorded` | `RunningIsRecorded`: with every write of the status file possibly failing, only a start whose starter died, or whose record failed, is not on record | assumes `SimpleUnit` |
| `ServiceControlProofs!SimpleStops` | `StopLeavesNothing` | assumes `SimpleUnit` |
| `ServiceControlProofs!SimpleKeepsDirectory` | `RuntimeDirStays`, an action property | assumes `SimpleUnit`. Only `RmDirs` takes the directory away; it is under the lock (`LockInv`), which a start past `Dirs` has, too, and comes when no process that counts is left (`RecordInv`) |
| `ServiceControlProofs!LockedNeverParallel` | `NoParallelOperations` | assumes `LockingUnit`, any type of unit. `OperatorHolds`: whoever is past `Lock` has the lock, and so has who is in a write of the status file, as it comes back to such a place |
| `ServiceControlProofs!OneshotIsOneTask` | `OneTask` | assumes `OneshotUnit`. `OneshotInv`: no file names a process, so that nobody signals one (`OneshotFiles`); who is where has the lock (`OneshotControl`); a running command is the one the holder of the lock waits for (`TaskInv`) |
| `ServiceControlProofs!OneshotSettlesAlways` | `OneshotSettles` | assumes `OneshotUnit`. `ActivatingInv`: the state "activating", in the file or in the map somebody is about to write, is there only while the holder of the lock has announced it and not yet written what came of it; reset-failed, without the lock, never writes it |
| `ServiceControlProofs!ForkingIsKnown` | `RunningIsRecorded`, `SingleInstance`, `StopLeavesNothing`, `ActiveNamesMain` | assumes `ForkingUnit`. `ForkingInv`: a launcher is its starter's child until the PID file is there; the daemon is named by the PID file, the status file or the holder of the lock, by label (`DaemonInv`, `NameInv`) |
| `NotifyProofs!ReadyComesFromOwn` | `ReadyIsOwn`, and the types | `NotifyInv`: what runs is on record, or was just started, or lost its starter (`RunningInv`); hence what is in the open socket is from one of these (`InboxInv`), since a socket is made anew when the old process is gone |
| `BootFilesProofs!TypeCorrectness` | `TypeOK` | `TypeInv` adds `PointInv`: who reads or writes knows what follows, who has the lock works with it |
| `BootFilesProofs!NothingOfThePast` | `ReadsAreOfThisBoot` | `BootInv`: a file that is not old, every map in memory and every process about to be recorded name processes of this boot (`OfThisBoot`), and whoever is past `Look` reads a new file: `Look` sends everybody else to `Truncate`, and a file never becomes old |
| `BootFilesProofs!KeptOnRecord` | `RecordedUnlessExposed` | assumes `SeesBoot`. `KeptInv`: which labels an operation comes to and what it reads for (`ControlAt`), what runs at most by that label (`HoldAt`), and, while no start is on its way to its record, every process that counts is the one a new file names, with nobody about to write (`Settled`). `TimeInv`: nobody takes a boot time that is too late |
| `BootFilesProofs!RunsOnce` | `OnceUnlessExposed` | assumes `SeesBoot`; a consequence of `KeptInv`, too |
| `UnitBatchProofs!TypeCorrectness` | `TypeOK` for lists of any length | adds `MemoryInv`: who runs has a unit to work on, who writes has read. What is left of a matched list is matched (`MatchedList`) |
| `UnitBatchProofs!NoHoldAndWait` | `WaitsEmptyHanded` | `HeldInv`: who has a lock is at that unit, between `Lock` and `Unlock`. It needs where a write of the status file leads to, hence its second part |
| `UnitBatchProofs!StopsNobodyElse` | `StopsOnlyMatched`, an action property | assumes `OwnFiles` and no reuse of ids. `OwnInv`: what the status file of a unit, a map in memory or the id in hand names was a process of that unit |
| `UnitBatchProofs!UnitsAreAlone` | `EachUnitAlone` | assumes `OwnFiles`. `AloneInv`: `TypeInv`, `HeldInv` and `AheadInv`: of the units ahead of the one an invocation is at it has read nothing, and who begins has no children. One lemma per group of steps shows a step to be the action of `ServiceControl` of that name for the unit it is at, and a stutter, a stranger's or a process's step for each other one |
| `UnitBatchProofs!UnitIsService` | `Spec => Alone(u)!Spec` for every unit `u` | assumes `OwnFiles`; from the same invariant. The unit given to `ServiceControl` satisfies what it assumes, and `SimpleUnit` (`ServiceConstants`) |
| `UnitLinksProofs!TypeCorrectness` | `TypeOK` | `TypeInv` adds which command an invocation is in, per label, and that links are in directories that exist |
| `UnitLinksProofs!LinksStay` | `LinkStays` | inductive together with `TypeInv` |
| `UnitLinksProofs!DisableLeavesNothing` | `DisableClears` | `ClearInv`: while a disable runs, every link of the unit is new or is `Pending`: in `todo`, at `here`, or in a later folder |
| `UnitLinksProofs!AnswersAreTrue` | `AnswersTruly`, of the places is-enabled looks at | `AskInv`: a place that has had a link all the time is still to be looked at |
| `UnitLinksProofs!OthersStay` | `ForeignStays` | an action property, from `TypeInv`: what a disable removes was the unit's own |
| `SocketActivationProofs!TypeCorrectness` | `TypeOK` | `TypeInv` adds that who is at work has a socket, and that the listener is not begun before the loop (`PlaceInv`) |
| `SocketActivationProofs!RunsOnce` | `RunsOnceUnlessOverlapped` | `OnceInv`: of a service without overlap there is one starter past the check at most, and it has no process while that one has not spawned it; afterwards it is on record |
| `UnitFilesProofs!TypeCorrectness` | `TypeOK` | adds that what a frame has still to do are dependencies of its unit |
| `UnitFilesProofs!WalkStaysShallow` | `NoUnitBelowItself` | `PathOK`: each frame below another is a dependency of it that it does not skip, and skips the dependencies of all above it |
| `UnitFilesProofs!ListingMissesNothing` | `ListingIsComplete` | `NothingLost`: what a call skips is named by a unit walked before, and what such a unit names is listed or still pending in a frame or call; `NothingAdded`: each line and call has a reason |
| `UnitFilesProofs!SettledSortIsOrdered` | `SettledIsOrdered` | in a pass that has changed nothing so far, all pairs compared so far are in order (`RanksInv`) |
| `UnitFilesProofs!SortIsRight` | `SortRespectsOrder` | `PassInv`: after each pass one more unit has its last rank, and so have all that come after it (`Final`). As the relation is acyclic every set of units has a last one (`LastOfSet`, as the strict subset relation on finite sets is well-founded), which gets its last rank in the next pass; after N passes all are `Final`. The sort by rank then is the order (`ResultInv`) |
| `UnitFilesProofs!ConfMeansTheFiles` | `ConfIsAsWritten`, of files where no empty line comes in an assignment | `FileInv`: what the readers on the stack have still to read, from the innermost outwards (`Stacked`), and after them the files of the list, makes of the values there are now what all files together make of none (`Holds`). Each reader knows of the lines above it what matters: the section, and the assignment that goes on (`AtPlace`). `LineStep` shows that what is left of a file is its next line and then what is left after it; a line then moves the innermost reader on (`TopAdvances`), takes it away (`TopReturns`), takes all away (`TopFails`) or puts one on top (`TopIncludes`). `Then` is associative and has `Nothing` as its unit. What the meaning says of lines and depths by recursion is used one step at a time (`StepByStep`), and its types by a smallest counterexample (`Smallest`, `AllNumbers`) |
| `UnitFilesProofs!FileTypes` | `FileTypeOK` | inductive together with the types of the texts (`FileTypeInv`); for all files, those with an empty line in an assignment included |
| `UnitFilesProofs!UnitFilesTypes` | `TypesOK` | of the five algorithms together, from `RanksInv` (`SortTypes`), `TypeCorrectness`, `FileTypes`, `DatabaseTypes` and `EnvironmentTypes`: a value is made of the tokens of the values that are there, whichever references a round replaces (`ReplacedType`) |
| `UnitFilesProofs!StrongestSource` | `StrongestSourceCounts` | `SourcesInv`: the queue is the rest of the list of definitions, and the variables are what the part before it says: one is there iff that part names it, and was made by a definition that only defaults follow (`Counts`, `Made`). `SourcesInOrder` says where in the list each source is, and what a source says last is at a place (`LastIsLast`, as < is well-founded on the places counted from the end). What is said last in several sources, one after the other, is what the last one says that says anything (`LastOfConcat`); so the definition that counts in the list is the last word of the strongest source, whichever of the eight that is (`StrongestIs`) |
| `UnitFilesProofs!ExpandsFully` | `ExpansionIsFull`, an action property, of `${NAME}` at any depth | `ExpandInv`: after k rounds the value at work is the value begun with, and in the place of each reference what k rounds make of it (`AfterRounds`). `PutPut`: what a round puts into what was put there before can be put there at once, so rounds can be taken from the inside as well as from the outside (`RoundsUnfold`), as the meaning is. `NeedsAreClosed`: what a value needs is complete after as many steps as there are variables, since a step that adds none is the last. A variable that does not need itself needs more than those it refers to (`DepthFalls`), so that after more rounds than it needs variables it is what it means (`RoundsAgree`). A round that changes nothing is followed by none that does (`RoundsRest`), so it is no matter which of the two ends the expansion |
| `UnitFilesProofs!NamedUnitsOnce` | `EveryNamedUnitOnce` | `DatabaseInv`: of the folders scanned so far each name has the first (`FilesInv`); a name that has been looked at, and matches, is on the list (`CompleteInv`), and what is on the list is so for a reason (`ReasonsInv`). After a name without a file comes none that has a file and is matched, as the look at the files was over by then; so if a template finds its conf renamed (`ConfsInv`), by an instance before it, then it was not matched but made of an argument (`NameIsRight`) |
| `UnitFilesProofs!DatabaseTypes` | `DatabaseTypeOK` | from `DatabaseInv` |

`SimpleUnit` is: Type=simple, no PID file, and operations that take the lock, or
`kill`. Deaths of invocations, failing writes, strangers and reuse of process ids are all allowed.
The inductive invariant `SimpleInv` has three parts besides the types. `LockInv`: who
is past `Lock` holds the lock, so at most one is. `RoleInv`: every process of the
unit is a main process. `RecordInv`: per label, what the operator knows, e.g. while
nobody is between `Spawn` and the end of the write that records it, every running
process that is not an orphan is the one the status file names, except that a
status file being rewritten is in its writer's `cache`. The invariants the runs
check are consequences. Without the cache the statement is not inductive: between
the truncation and the lines the file names nobody.

Assumptions: the `ASSUME`s of the modules only (`WaitlockAssumption`: at least one
attempt; `ServiceAssumption`: the constants' types; `NotifyAssumption`: the
constants' types; `BootAssumption`: the constants'
types; `BatchAssumption`: units and process ids are finitely many, units are numbered in the order of their
names, the given lists are in the order in which names are matched; `CrashAssumption`;
`LinksAssumption`: the constants' types, at least one folder; `SocketAssumption`: the
constants' types, among them `Services`, what the services of the sockets may be; `SortAssumption`: N > 0; `UnitFileAssumption`: drop-ins are a sequence of names, a
file begins in the section "GLOBAL", at least one file may be open, and each path has a sequence of
lines or no file;
`EnvironmentAssumption`: the variables are finitely many, PATH and those of the locale among them, an
expansion has at least one round, and each source is a sequence of definitions; `DatabaseAssumption`: folders and arguments are sequences, and a
name has the three parts). The theorems of `UnitFilesProofs` on the listing name
theirs, `InputOK`: the root is a unit, and the files declare styles that there are.
So do `KeptOnRecord` and `RunsOnce`: `SeesBoot`, one of the processes 0 to 8 can be seen in
/proc. Without it both are false: the boot time is then the time of the look, and a
status file of this boot is emptied (run `boot_time_unseen`).

The theorems on kinds of units have the form `Spec /\ SimpleUnit => []...`, with a condition
on `unit`, which does not change. They assume what section 3 says of the runs, and no more:

* `LockingUnit`: the operations are those that take the lock, with or without a look at
  the state before. With `halt` the run `halt_unlocked` refutes the statement.
* `OneshotUnit`: no invocation is killed, and files can be written. A oneshot unit whose starter is killed stays
  "activating", and its command may run on while the next start runs another; the code
  has no recovery. All operations are allowed, those without a lock included.
* `ForkingUnit`: `PIDFile=`, a daemon that writes it in time, no deaths of invocations, files
  that can be written, no reuse of ids, no `halt`, which removes the PID file of a daemon that somebody starts.
* `OwnFiles`: no two units of a list are instances of one template. With them the run
  `batch_instances` refutes the statement. `StopsNobodyElse` adds that process ids are
  not reused: a recorded id may otherwise be a stranger's, which the code cannot tell.

Every theorem that assumes such a condition has a run in which it is met (`services`,
`unit_batch`), and in which the case it is about happens.

**Model-checked only.** Liveness (`CallsReturn`, `AllEnds`, `ServicesStart`, `AllEnd`): the
provers do not handle ENABLED, hence no fairness; `WalkStaysShallow` is the bound from
which the end of the listing follows. Everything else that the passing runs check is proved, under
the conditions above. Where a property compares with something told by recursion (the text
of a file, the references between variables, `FlattenSeq`) the induction is over a set of
numbers or of sequences (`AllNumbers`, `AllSequences`), as the provers cannot instantiate the
library's induction theorems. No module declares a RECURSIVE operator.

`UnitIsService` gives the specification of one unit, and `ServiceConstants` that
`Each` is as `ServiceControlProofs` wants them; that a theorem of that module then holds
of the unit is the reader's step, since the prover does not take theorems through an
instance.

## 5. Not modelled

* Output, formatting, exit codes, logging; the journal (it follows and prints log files
  and keeps no state); users, groups and directories' owners.
* Signals other than the stop signal and SIGKILL (`systemctl kill -s`); lists of units that
  are not of Type=simple; ExecStartPre and the like beyond success and failure; the
  splitting of a command and the expansion of `%` specifiers.
* Matching of shell patterns and the regular expressions of environment files, which are
  given with the inputs; conversions of times and sizes; paths.
* Helper processes of a Type=notify service that have its `NOTIFY_SOCKET`; a socket that
  cannot be read.
* `StartDefault`, `ExitDefault`, `GetTargetList`: no caller reaches them, and what they do at
  this commit is nothing (see below). `mask` and `unmask`, which no command reaches.
* `systemctl` of two containers on one `/run`.

`PROJECT.json` has every part with its status and reason.

## 6. What else was seen

These came up while reading the code for the models. They are not findings of a run:
no line of the documentation says otherwise, or the model leaves that detail out.

* `--init` is a documented flag (README.md:65) and never reaches `InitLoop`.
  `StartDefault` and `ExitDefault` work on `GetTargetList`, which has targets only, and skip
  every target, so they start and stop nothing.
* `start x.socket` records the socket as active, and the socket is closed when the
  invocation ends. In init mode its service is started at the first poll, whether or not
  somebody connects, and a service that died but is recorded as active is not started again.
* A datagram socket at a path cannot be made (`net.Listen` does not know "unixgram").
  A port without a host, or one in use, falls through to a Unix socket of that name in the
  working directory, so that an address in use is not reported. `Socket.Close` does not
  close datagram sockets.
* try-restart looks at the state before it has the lock: a unit that is stopped meanwhile is
  started. `Lock` leaves its descriptor open when it gives up.
* `TruncateOld` looks and empties in two steps, so that it can empty a record that was just
  written; that is `exposed` in `BootFiles`. The time of a process in `/proc` moves with the
  wall clock.
* Drop-ins are looked up by the name of the file that is loaded: `foo@a.service.d` is not
  read for an instance of `foo@.service`. An instance of a socket template is loaded from the
  service template. An argument `foo@a.socket` also names `foo@a.service`. An instance's own
  file is taken for a template: `foo@a` then names a unit without a file. `foo@*`
  also works on the template itself, and on an instance named "*". After `foo@a.service
  foo@.timer` the template itself is worked on by the name `foo@a.service`, since
  `LoadUnitConf` returns the conf that was renamed for the instance (`AfterInstances`).
* An empty line after a line that ends in a backslash does not end the assignment: the parser
  takes all line ends away before it looks for the backslash (`confdata.go` 187), and the next
  line, even the header of a section, becomes part of the value.
* is-enabled looks at the `.wants` directories of the common targets only; the comment at
  `systemctl.go` 920 says "wants/requires directories". A unit enabled in a `.requires`
  directory, or for another target, is reported as not enabled.
* `disable` reads a link and removes what has its name in the next step: a foreign link that
  somebody puts there in between is removed. `ForeignStays` is about links that are
  there when it looks.
* A status file that cannot be written is noticed by nobody: the service runs, and the command
  reports success.
* `EnvironmentFile=-/path` is not read, since the "-" stays. LANG and LC_* of
  `Environment=` are overwritten. A quoted assignment anywhere in a line of an environment
  file is taken for the line. A value with several references to itself grows with each round.
* A service of Type=notify that dies at its start stays a zombie and exists, so that the wait
  lasts its whole time, and "active" is recorded. Each message that is not READY=1 uses up one
  of the attempts.
* A unit whose name has a backslash (`a\x2db.service`) is not matched by its own name:
  `filepath.Match` takes the backslash for an escape.
* A reused process id in a stale PID file is taken for the service.

## 7. Plan

All components of the program's own logic are modelled, in the order: the lock, the
service operations, lists of units, links, then boot, notify, sockets, and the
algorithms on unit files. What would come next: lists of units of other types than simple in
`UnitBatch`, oneshot first, whose command is waited for while the units behind it wait.
