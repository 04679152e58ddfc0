------------------------------ MODULE MCWaitlock ------------------------------
(***************************************************************************)
(* Waitlock for TLC, and beside it the liveness that rests on it: since    *)
(* Lock returns, an invocation of ServiceControl comes to its end.  A      *)
(* behaviour is about the lock file, or about a forking unit, with or      *)
(* without a PID file, whose daemon takes its time.  No symmetry, with     *)
(* liveness.                                                               *)
(***************************************************************************)
EXTENDS Waitlock, FiniteSets

CONSTANT Pids \* process ids

VARIABLES part, unit, at, op, pid, next, cache, lock, status, pidfile, rundir, proc, orphans

serviceVars == <<unit, at, op, pid, next, cache, lock, status, pidfile, rundir, proc, orphans>>

WithoutPidFile ==
    [Type |-> "forking", Ops |-> {"restart", "halt"},
     HasPidFile |-> FALSE, HasReload |-> TRUE, RemainAfterExit |-> FALSE,
     Ids |-> Cardinality(Pids), Reuse |-> FALSE, Crashes |-> FALSE, Faults |-> FALSE,
     Strangers |-> FALSE]

WithPidFile == [WithoutPidFile EXCEPT !.HasPidFile = TRUE, !.Ops = {"restart"}]

Service == INSTANCE ServiceControl WITH
    Units <- {WithPidFile, WithoutPidFile}, InitReaps <- TRUE, Timely <- FALSE

MCInit == /\ part \in {"lock file", "unit"}
          /\ Init /\ Service!Init
          /\ part = "lock file" => unit = WithoutPidFile

MCNext == \/ part = "lock file" /\ Next /\ UNCHANGED <<part, serviceVars>>
          \/ part = "unit" /\ Service!Next /\ UNCHANGED <<part, vars>>

\* The fairness of both: nothing of it is asked of the part that stands still, since
\* LockStep and Step are disabled as long as nobody has begun.
MCSpec ==
    /\ MCInit /\ [][MCNext]_<<part, vars, serviceVars>>
    /\ \A p \in Procs : WF_vars(LockStep(p))
    /\ \A p \in Procs :
          WF_serviceVars(Service!Step(p) /\ ~ Service!RunsCommand(p) /\ UNCHANGED unit)

\* LockReturns and InvocationEnds in one, each for the behaviours it is about: Lock
\* returns, locked or not, however long others hold the lock; and an invocation whose
\* commands end comes to its end, whatever the daemon does.
CallsReturn ==
    \A p \in Procs :
       []<> ~ Service!RunsCommand(p) =>
          ((pc[p] \in Looping \/ at[p] # "idle") ~> (pc[p] \notin Looping /\ at[p] = "idle"))

=============================================================================
