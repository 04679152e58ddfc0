------------------------------ MODULE MCServices ------------------------------
(***************************************************************************)
(* ServiceControl and Notify for TLC.  A behaviour is about one unit: a    *)
(* simple one, whose invocations may be killed, beside strangers that take *)
(* the process ids given back; a simple one whose files may fail to be     *)
(* written; a oneshot one with ExecReload=; a forking one with a PID file  *)
(* that its daemon writes in time; or one of Type=notify.  What is not     *)
(* about the unit stays at its initial state.                              *)
(***************************************************************************)
EXTENDS MCServiceControl, Notify

VARIABLE notifies \* is the behaviour about the unit of Type=notify?

MCInit == /\ notifies \in BOOLEAN
          /\ Init /\ NotifyInit
          /\ notifies => unit = Simple

MCNext == \/ ~ notifies /\ Next       /\ UNCHANGED <<notifies, notifyVars>>
          \/ notifies   /\ NotifyNext /\ UNCHANGED <<notifies, vars>>

MCSpec == MCInit /\ [][MCNext]_<<notifies, vars, notifyVars>>

=============================================================================
