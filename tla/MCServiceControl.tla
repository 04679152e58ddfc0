--------------------------- MODULE MCServiceControl ---------------------------
(***************************************************************************)
(* ServiceControl for TLC: the units that behaviours are about.            *)
(* Invocations and process ids are interchangeable.                        *)
(***************************************************************************)
EXTENDS ServiceControl, TLC

\* A unit that is started and stopped, as simple as there is one.
Plain == [Type |-> "simple", Ops |-> {"start", "stop"},
          HasPidFile |-> FALSE, HasReload |-> FALSE, RemainAfterExit |-> FALSE,
          Ids |-> 3, Reuse |-> TRUE, Crashes |-> FALSE, Faults |-> FALSE,
          Strangers |-> FALSE]

\* Invocations may be killed, and strangers take the process ids given back.
Simple == [Plain EXCEPT !.Ops = {"start", "stop", "try-restart"},
                        !.Crashes = TRUE, !.Strangers = TRUE]

\* What invocations write and make may fail.
Faulty == [Plain EXCEPT !.Faults = TRUE, !.Ids = 2]

\* All operations a oneshot unit with ExecReload= has.
Oneshot == [Plain EXCEPT !.Type = "oneshot", !.HasReload = TRUE, !.RemainAfterExit = TRUE,
                         !.Ops = {"start", "stop", "restart", "reload", "reload-or-restart",
                                  "reload-or-try-restart", "reset-failed"}]

\* A start takes one process id for the launcher and one for the daemon, which
\* writes its PID file in time.
Forking == [Plain EXCEPT !.Type = "forking", !.HasPidFile = TRUE,
                         !.Ops = {"restart", "stop", "kill"}, !.Ids = 4, !.Reuse = FALSE]

AllTypes == {Simple, Faulty, Oneshot, Forking}

\* The units of the runs that refute what the documentation says.
Halted     == {[Plain EXCEPT !.Ops = {"stop", "halt"}]}
NoPidFile  == {[Plain EXCEPT !.Type = "forking"]}

Symmetry == Permutations(Procs) \cup Permutations(Pids)

=============================================================================
