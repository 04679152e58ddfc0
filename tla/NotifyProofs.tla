---------------------------- MODULE NotifyProofs ----------------------------
(***************************************************************************)
(* Proofs about Notify for any number of process ids, attempts and         *)
(* messages: the READY=1 a start goes by is its own service's.             *)
(***************************************************************************)
EXTENDS Notify, TLAPS

\* The processes of the unit that run.
Running == {i \in Children : state[i] = "run"}

\* From the check that nothing runs to the record of what was started.
Starting == {"socket", "spawn", "wait", "record"}

\* An invocation has a process of its own and a socket only while it starts the unit.
StartInv ==
    /\ step \in {"idle", "check", "signal", "socket", "spawn"} => child = Nobody /\ heard = Nobody
    /\ step \in {"idle", "check", "signal", "socket"} => ~ conn
    /\ step = "end" => child \in {Nobody, main}

\* Who runs is on record, or has just been started, or its starter died; and what a
\* start has found not to run does not run while it starts something else.
RunningInv ==
    /\ Running \subseteq {main, child} \cup lost
    /\ step \in Starting => ~ IsThere(main)
    /\ conn => main = child \/ ~ IsThere(main)
    /\ \A i \in {main, child} \ {Nobody} : state[i] # "free"

\* What is in an open socket was sent after it was opened, by the process the
\* invocation has started or by one without a record.
InboxInv == conn => \A k \in 1 .. Len(inbox) : inbox[k].from \in {child} \cup lost

NotifyInv == /\ NotifyTypeOK /\ StartInv /\ RunningInv /\ InboxInv /\ ReadyIsOwn

LEMMA NotifyInvInit == NotifyInit => NotifyInv
<1> SUFFICES ASSUME NotifyInit PROVE NotifyInv
  OBVIOUS
<1> USE DEF NotifyInit
<1>1. NotifyTypeOK
  <2>1. inbox \in Seq(Message) /\ Len(inbox) <= MaxMessages
    BY NotifyAssumption
  <2>2. attempt \in 0 .. Timeout
    BY NotifyAssumption
  <2> QED BY <2>1, <2>2 DEF NotifyTypeOK, NotifySteps
<1>2. StartInv /\ RunningInv /\ InboxInv /\ ReadyIsOwn
  BY DEF StartInv, RunningInv, InboxInv, ReadyIsOwn, Running, Starting, IsThere
<1> QED BY <1>1, <1>2 DEF NotifyInv

LEMMA NotifyTypeStep == NotifyTypeOK /\ [NotifyNext]_notifyVars => NotifyTypeOK'
<1> SUFFICES ASSUME NotifyTypeOK, [NotifyNext]_notifyVars PROVE NotifyTypeOK'
  OBVIOUS
<1> USE NotifyAssumption DEF NotifyTypeOK, NotifySteps, socket, invocation
<1>1. CASE Come \/ FindRunning \/ RecordActive
  BY <1>1 DEF Come, FindRunning, RecordActive
<1>2. CASE NotifySocketFrom
  BY <1>2 DEF NotifySocketFrom
<1>3. CASE Execve
  BY <1>3 DEF Execve
<1>4. CASE ReadMessage
  <2>1. inbox # <<>> /\ inbox \in Seq(Message) /\ attempt \in Nat /\ attempt < Timeout
    BY <1>4 DEF ReadMessage
  <2>2. /\ Tail(inbox) \in Seq(Message) /\ Len(Tail(inbox)) <= MaxMessages
        /\ Head(inbox) \in Message
    BY <2>1
  <2>3. Head(inbox).from \in Children
    BY <2>2 DEF Message
  <2>4. /\ attempt' \in 0 .. Timeout /\ (step' = "wait" => attempt' < Timeout)
        /\ step' \in NotifySteps /\ heard' \in Children \cup {Nobody}
    BY <1>4, <2>1, <2>3 DEF ReadMessage, NextAttempt
  <2>5. inbox' = Tail(inbox) /\ UNCHANGED <<child, conn, told, main, state, lost>> /\ conn
    BY <1>4 DEF ReadMessage
  <2> QED BY <2>2, <2>4, <2>5
<1>5. CASE ReadTimesOut
  BY <1>5 DEF ReadTimesOut, NextAttempt
<1>6. CASE Stop
  BY <1>6 DEF Stop, IsThere
<1>7. CASE Return \/ Die
  <2>1. Leave
    BY <1>7 DEF Return, Die
  <2>2. lost' \subseteq Children
    BY <1>7 DEF Return, Die
  <2>3. state' \in [Children -> {"free", "run", "zombie", "gone"}]
    BY <2>1 DEF Leave
  <2>4. attempt' \in 0 .. Timeout
    BY <2>1 DEF Leave
  <2> QED BY <2>1, <2>2, <2>3, <2>4 DEF Leave
<1>8. CASE Send
  <2>1. PICK i \in told, ready \in BOOLEAN : inbox' = Append(inbox, [from |-> i, ready |-> ready])
    BY <1>8 DEF Send
  <2>2. [from |-> i, ready |-> ready] \in Message
    BY DEF Message
  <2>3. Len(inbox) < MaxMessages
    BY <1>8 DEF Send
  <2>4. inbox' \in Seq(Message) /\ Len(inbox') <= MaxMessages
    BY <2>1, <2>2, <2>3
  <2> QED BY <1>8, <2>4 DEF Send
<1>9. CASE ServiceEnds
  BY <1>9 DEF ServiceEnds
<1>10. CASE UNCHANGED notifyVars
  BY <1>10 DEF notifyVars
<1> QED BY <1>1, <1>2, <1>3, <1>4, <1>5, <1>6, <1>7, <1>8, <1>9, <1>10 DEF NotifyNext

LEMMA StartStep == NotifyInv /\ [NotifyNext]_notifyVars => StartInv'
<1> SUFFICES ASSUME NotifyInv, [NotifyNext]_notifyVars PROVE StartInv'
  OBVIOUS
<1> USE DEF NotifyInv, NotifyTypeOK, StartInv, NotifySteps, socket, invocation
<1>1. CASE Come \/ FindRunning \/ RecordActive
  BY <1>1 DEF Come, FindRunning, RecordActive
<1>2. CASE NotifySocketFrom \/ Execve
  BY <1>2 DEF NotifySocketFrom, Execve
<1>3. CASE ReadMessage \/ ReadTimesOut
  BY <1>3 DEF ReadMessage, ReadTimesOut, NextAttempt
<1>4. CASE Stop \/ Return \/ Die
  BY <1>4 DEF Stop, Return, Die, Leave
<1>5. CASE Send \/ ServiceEnds
  BY <1>5 DEF Send, ServiceEnds
<1>6. CASE UNCHANGED notifyVars
  BY <1>6 DEF notifyVars
<1> QED BY <1>1, <1>2, <1>3, <1>4, <1>5, <1>6 DEF NotifyNext

LEMMA RunningStep == NotifyInv /\ [NotifyNext]_notifyVars => RunningInv'
<1> SUFFICES ASSUME NotifyInv, [NotifyNext]_notifyVars PROVE RunningInv'
  OBVIOUS
<1> USE NotifyAssumption
    DEF NotifyInv, NotifyTypeOK, StartInv, RunningInv, Running, Starting, IsThere, socket, invocation
<1>1. CASE Come \/ FindRunning \/ RecordActive
  BY <1>1 DEF Come, FindRunning, RecordActive
<1>2. CASE NotifySocketFrom \/ Execve
  BY <1>2 DEF NotifySocketFrom, Execve
<1>3. CASE ReadMessage \/ ReadTimesOut
  BY <1>3 DEF ReadMessage, ReadTimesOut, NextAttempt
<1>4. CASE Stop
  BY <1>4 DEF Stop
<1>5. CASE Return \/ Die
  BY <1>5 DEF Return, Die, Leave
<1>6. CASE Send \/ ServiceEnds
  BY <1>6 DEF Send, ServiceEnds
<1>7. CASE UNCHANGED notifyVars
  BY <1>7 DEF notifyVars
<1> QED BY <1>1, <1>2, <1>3, <1>4, <1>5, <1>6, <1>7 DEF NotifyNext

LEMMA InboxStep == NotifyInv /\ [NotifyNext]_notifyVars => InboxInv' /\ ReadyIsOwn'
<1> SUFFICES ASSUME NotifyInv, [NotifyNext]_notifyVars PROVE InboxInv' /\ ReadyIsOwn'
  OBVIOUS
<1> USE DEF socket, invocation
<1>a. NotifyTypeOK /\ StartInv /\ RunningInv /\ InboxInv /\ ReadyIsOwn
  BY DEF NotifyInv
<1>1. ASSUME conn' => conn, inbox' = inbox, child' = child, lost \subseteq lost', heard' = heard
      PROVE  InboxInv' /\ ReadyIsOwn'
  BY <1>1, <1>a DEF InboxInv, ReadyIsOwn
<1>2. CASE Come \/ FindRunning \/ RecordActive \/ ReadTimesOut \/ Stop \/ ServiceEnds
  BY <1>1, <1>2 DEF Come, FindRunning, RecordActive, ReadTimesOut, Stop, ServiceEnds
<1>3. CASE NotifySocketFrom
  BY <1>3, <1>a DEF NotifySocketFrom, InboxInv, ReadyIsOwn
\* A start that opens a socket has no process before its own: what is there comes from
\* those without a record.
<1>4. CASE Execve
  <2>1. /\ child = Nobody /\ heard = Nobody /\ heard' = Nobody
        /\ conn' = conn /\ inbox' = inbox /\ lost' = lost
    BY <1>4, <1>a DEF Execve, StartInv
  <2>2. conn => \A k \in 1 .. Len(inbox) : inbox[k].from \in lost
    <3> SUFFICES ASSUME conn, NEW k \in 1 .. Len(inbox) PROVE inbox[k].from \in lost
      OBVIOUS
    <3>1. inbox[k] \in Message
      BY <1>a DEF NotifyTypeOK
    <3>2. inbox[k].from # Nobody
      BY <3>1, NotifyAssumption DEF Message
    <3> QED BY <1>a, <2>1, <3>2 DEF InboxInv
  <2> QED BY <2>1, <2>2 DEF InboxInv, ReadyIsOwn
<1>5. CASE ReadMessage
  <2>1. conn /\ inbox \in Seq(Message) /\ inbox # <<>>
    BY <1>5, <1>a DEF ReadMessage, NotifyTypeOK
  <2>2. \A k \in 1 .. Len(Tail(inbox)) :
           Tail(inbox)[k] = inbox[k + 1] /\ k + 1 \in 1 .. Len(inbox)
    BY <2>1
  <2>3. Head(inbox).from \in {child} \cup lost
    BY <1>a, <2>1 DEF InboxInv
  <2>4. child' = child /\ lost' = lost /\ inbox' = Tail(inbox)
        /\ heard' \in {heard, Head(inbox).from}
    BY <1>5 DEF ReadMessage
  <2> QED BY <1>a, <2>1, <2>2, <2>3, <2>4 DEF InboxInv, ReadyIsOwn
<1>6. CASE Return \/ Die
  BY <1>6, <1>a DEF Return, Die, Leave, InboxInv, ReadyIsOwn
\* Who runs and knows the path is the invocation's own or has no record.
<1>7. CASE Send
  <2>1. PICK i \in told, ready \in BOOLEAN :
            state[i] = "run" /\ inbox' = Append(inbox, [from |-> i, ready |-> ready])
    BY <1>7 DEF Send
  <2>2. conn /\ child' = child /\ lost' = lost /\ heard' = heard
    BY <1>7 DEF Send
  <2>3. i \in {child} \cup lost
    BY <1>a, <2>1, <2>2, NotifyAssumption DEF NotifyTypeOK, RunningInv, Running, IsThere
  <2>4. \A k \in 1 .. Len(inbox') : \/ inbox'[k].from = i
                                    \/ k \in 1 .. Len(inbox) /\ inbox'[k] = inbox[k]
    BY <1>a, <2>1 DEF NotifyTypeOK
  <2> QED BY <1>a, <2>2, <2>3, <2>4 DEF InboxInv, ReadyIsOwn
<1>8. CASE UNCHANGED notifyVars
  BY <1>1, <1>8 DEF notifyVars
<1> QED BY <1>2, <1>3, <1>4, <1>5, <1>6, <1>7, <1>8 DEF NotifyNext

\* Whatever a start that ran out of time has left in the socket at the path, and
\* whoever was given the path before and sends late: the READY=1 that ends the wait of
\* a start comes from the process it has started, or from one that runs on because
\* its starter died.
THEOREM ReadyComesFromOwn == NotifySpec => [](NotifyTypeOK /\ ReadyIsOwn)
<1>1. NotifyInit => NotifyInv
  BY NotifyInvInit
<1>2. NotifyInv /\ [NotifyNext]_notifyVars => NotifyInv'
  BY NotifyTypeStep, StartStep, RunningStep, InboxStep DEF NotifyInv
<1>3. NotifyInv => NotifyTypeOK /\ ReadyIsOwn
  BY DEF NotifyInv
<1> QED BY <1>1, <1>2, <1>3, PTL DEF NotifySpec

=============================================================================
