-------------------------------- MODULE Notify --------------------------------
(***************************************************************************)
(* The start of a unit of Type=notify (internal/systemctl/                 *)
(* systemctl_exec.go): the invocation makes a datagram socket whose path   *)
(* it hands to the service, and waits for READY=1 in a number of attempts  *)
(* of one second each.                                                     *)
(*                                                                         *)
(* The path is the same at every start, and every process that was ever    *)
(* given it may send at any time.  Invocations come one after the other:   *)
(* they hold the unit's lock, which UnitMutex is about.  Writes of the     *)
(* status file succeed here (ServiceControl has those that fail).          *)
(***************************************************************************)
EXTENDS Naturals, Sequences

CONSTANTS
    Children,   \* process ids of services, given out once
    Nobody,     \* no process
    Timeout,    \* TimeoutStartSec: the number of attempts
    MaxMessages \* bounds the messages in the socket; a sender waits when it is full

ASSUME NotifyAssumption == Nobody \notin Children /\ Timeout \in Nat /\ MaxMessages \in Nat

VARIABLES
    step,    \* what the invocation with the lock does next; "idle" if there is none
    child,   \* the process it has started
    attempt, \* the attempts it has made
    conn,    \* is its socket open?
    inbox,   \* the messages in the socket at the path, in order
    told,    \* the processes that know the path
    main,    \* MainPID in the status file
    state,   \* state[i]: "free", "run", "zombie" or "gone"
    heard,   \* history: who sent the READY=1 that ended the wait
    lost     \* history: processes whose starter died before it recorded them

invocation == <<step, child, attempt, heard>>
socket     == <<conn, inbox, told>>
notifyVars == <<invocation, socket, main, state, lost>>

NotifySteps == {"idle", "check", "socket", "spawn", "wait", "record", "signal", "end"}
Message == [from : Children, ready : BOOLEAN]

NotifyInit == /\ step = "idle" /\ child = Nobody /\ attempt = 0 /\ heard = Nobody
              /\ conn = FALSE /\ inbox = <<>> /\ told = {}
              /\ main = Nobody
              /\ state = [i \in Children |-> "free"]
              /\ lost = {}

IsThere(i) == i # Nobody /\ state[i] \in {"run", "zombie"}

-----------------------------------------------------------------------------
(* An invocation that starts or stops the unit, with its lock.             *)

Come == /\ step = "idle"
        /\ step' \in {"check", "signal"}
        /\ UNCHANGED <<child, attempt, heard, socket, main, state, lost>>

\* Already running?
FindRunning == /\ step = "check"
               /\ step' = IF IsThere(main) THEN "end" ELSE "socket"
               /\ UNCHANGED <<child, attempt, heard, socket, main, state, lost>>

\* Mutant: the socket of an earlier start is used again.
NotifySocketFrom_Reused ==
    /\ step = "socket"
    /\ conn' \in BOOLEAN
    /\ step' = "spawn"
    /\ UNCHANGED <<inbox, told, child, attempt, heard, main, state, lost>>

\* What is at the path is removed and a new socket bound there, or that fails.
NotifySocketFrom ==
    /\ step = "socket"
    /\ conn' \in BOOLEAN
    /\ inbox' = <<>>
    /\ step' = "spawn"
    /\ UNCHANGED <<told, child, attempt, heard, main, state, lost>>

\* The service is started, without NOTIFY_SOCKET if there is no socket; a wait on
\* no socket or of no attempts is over at once.  Or it cannot be started, and MainPID
\* stays as it is.
Execve ==
    /\ step = "spawn"
    /\ \/ \E i \in Children : /\ state[i] = "free"
                              /\ state' = [state EXCEPT ![i] = "run"]
                              /\ child' = i
                              /\ told' = IF conn THEN told \cup {i} ELSE told
                              /\ step' = IF conn /\ attempt < Timeout THEN "wait" ELSE "record"
       \/ step' = "end" /\ UNCHANGED <<state, child, told>>
    /\ UNCHANGED <<attempt, heard, conn, inbox, main, lost>>

\* After an attempt without READY=1: a process that is gone ends the wait, but its own
\* child is a zombie and exists.
NextAttempt == /\ attempt' = attempt + 1
               /\ step' = IF IsThere(child) /\ attempt' < Timeout THEN "wait" ELSE "record"

\* ReadNotifySocket got a message.
ReadMessage ==
    /\ step = "wait" /\ inbox # <<>>
    /\ inbox' = Tail(inbox)
    /\ \/ /\ Head(inbox).ready
          /\ heard' = Head(inbox).from
          /\ step' = "record" /\ attempt' = attempt
       \/ ~ Head(inbox).ready /\ heard' = heard /\ NextAttempt
    /\ UNCHANGED <<child, conn, told, main, state, lost>>

\* Its second is over.
ReadTimesOut ==
    /\ step = "wait" /\ inbox = <<>>
    /\ NextAttempt
    /\ UNCHANGED <<child, heard, socket, main, state, lost>>

\* The unit is active, whatever the wait has given.
RecordActive == /\ step = "record"
                /\ main' = child
                /\ step' = "end"
                /\ UNCHANGED <<child, attempt, heard, socket, state, lost>>

\* The stop of the process on record.
Stop == /\ step = "signal"
        /\ state' = IF IsThere(main) THEN [state EXCEPT ![main] = "gone"] ELSE state
        /\ main' = Nobody
        /\ step' = "end"
        /\ UNCHANGED <<child, attempt, heard, socket, lost>>

\* The socket is closed, and process 1 has the zombies.
Leave == /\ step' = "idle" /\ child' = Nobody /\ attempt' = 0 /\ heard' = Nobody
         /\ conn' = FALSE
         /\ state' = [i \in Children |-> IF state[i] = "zombie" THEN "gone" ELSE state[i]]
         /\ UNCHANGED <<inbox, told, main>>

Return == step = "end" /\ Leave /\ UNCHANGED lost

\* The invocation dies.
Die == /\ step \notin {"idle", "end"}
       /\ lost' = IF child = Nobody THEN lost ELSE lost \cup {child}
       /\ Leave

-----------------------------------------------------------------------------
(* The services.                                                           *)

\* A message to the path, with READY=1 or without; nobody has it if no socket is open.
Send ==
    /\ conn /\ Len(inbox) < MaxMessages
    /\ \E i \in told, ready \in BOOLEAN :
          /\ state[i] = "run"
          /\ inbox' = Append(inbox, [from |-> i, ready |-> ready])
    /\ UNCHANGED <<invocation, conn, told, main, state, lost>>

ServiceEnds ==
    /\ \E i \in Children : /\ state[i] = "run"
                           /\ state' = [state EXCEPT ![i] = IF i = child THEN "zombie" ELSE "gone"]
    /\ UNCHANGED <<invocation, socket, main, lost>>

NotifyNext == \/ Come \/ FindRunning \/ NotifySocketFrom \/ Execve \/ ReadMessage \/ ReadTimesOut
              \/ RecordActive \/ Stop \/ Return \/ Die
              \/ Send \/ ServiceEnds

NotifySpec == NotifyInit /\ [][NotifyNext]_notifyVars

-----------------------------------------------------------------------------

\* The types; an invocation that waits has a socket and an attempt left.
NotifyTypeOK == /\ step \in NotifySteps
                /\ step = "wait" => conn /\ attempt < Timeout
                /\ child \in Children \cup {Nobody} /\ main \in Children \cup {Nobody}
                /\ heard \in Children \cup {Nobody}
                /\ attempt \in 0 .. Timeout
                /\ conn \in BOOLEAN
                /\ inbox \in Seq(Message) /\ Len(inbox) <= MaxMessages
                /\ told \subseteq Children /\ lost \subseteq Children
                /\ state \in [Children -> {"free", "run", "zombie", "gone"}]

\* The READY=1 that ends the wait of a start was sent by the process it has started:
\* neither what a start that ran out of time left unread, nor a late message of a
\* process that was stopped, is taken for it.  Only a process that runs on because
\* its starter died can answer for another one.
ReadyIsOwn == heard \in {Nobody, child} \cup lost

=============================================================================
