------------------------- MODULE SocketActivationProofs -------------------------
(***************************************************************************)
(* Proofs about SocketActivation, for any number of sockets, acceptors and *)
(* starters.                                                               *)
(***************************************************************************)
EXTENDS SocketActivation, TLAPS

AcceptorStates == [at : {"free", "lock", "accept", "send"}, sock : Sockets \cup {None}]
StarterStates  == [at : {"free", "load", "check", "again", "pre", "spawn", "record", "fail"},
                   sock : Sockets \cup {None}]

\* Before the listener runs it visits nothing; a starter at work has a socket.
PlaceInv == /\ main = "listen" => turn = {} /\ listener = "none"
            /\ \A a \in Acceptors : acceptor[a].at # "free" => acceptor[a].sock \in Sockets
            /\ \A b \in Starters : starter[b].at # "free" => starter[b].sock \in Sockets

TypeInv == TypeOK /\ PlaceInv

-----------------------------------------------------------------------------
(* What happens to one goroutine.                                          *)

LEMMA FreeStates == /\ Free \in AcceptorStates /\ Free \in StarterStates
                    /\ Free.at = "free"
  BY DEF Free, AcceptorStates, StarterStates

\* A name for a new goroutine is one that nobody has.
LEMMA NewIsUnused ==
    /\ Unused(acceptor) # {} => New(acceptor) \in DOMAIN acceptor /\ acceptor[New(acceptor)] = Free
    /\ Unused(starter) # {} => New(starter) \in DOMAIN starter /\ starter[New(starter)] = Free
<1>1. \A s : s # {} => (CHOOSE g \in s : TRUE) \in s
  OBVIOUS
<1>2. QED
  BY <1>1 DEF New, Unused

\* Goto moves one starter, and leaves it its socket.
LEMMA GotoMoves ==
    ASSUME TypeOK, NEW b \in Starters, Goto(b, "check") \/ Goto(b, "again") \/ Goto(b, "pre")
                                       \/ Goto(b, "spawn") \/ Goto(b, "record") \/ Goto(b, "fail")
    PROVE  /\ starter' \in [Starters -> StarterStates]
           /\ starter'[b].sock = starter[b].sock
           /\ \A c \in Starters \ {b} : starter'[c] = starter[c]
           /\ \A l \in {"check", "again", "pre", "spawn", "record", "fail"} : Goto(b, l) => starter'[b].at = l
<1>1. starter \in [Starters -> StarterStates]
  BY DEF TypeOK, StarterStates
<1>2. ASSUME NEW l \in {"check", "again", "pre", "spawn", "record", "fail"}, Goto(b, l)
      PROVE  /\ \A c \in Starters \ {b} : starter'[c] = starter[c]
             /\ starter'[b].at = l /\ starter'[b].sock = starter[b].sock
             /\ starter' \in [Starters -> StarterStates]
  <2> DEFINE moved == [starter[b] EXCEPT !.at = l]
  <2>1. moved \in StarterStates /\ moved.at = l /\ moved.sock = starter[b].sock
    <3>1. starter[b] \in StarterStates
      BY <1>1
    <3>2. QED
      BY <3>1 DEF StarterStates
  <2>2. starter' = [starter EXCEPT ![b] = moved]
    BY <1>2 DEF Goto
  <2> HIDE DEF moved
  <2>3. QED
    BY <1>1, <2>1, <2>2
<1>3. QED
  BY <1>1, <1>2

\* A starter that ends has no socket.
LEMMA EndsMoves ==
    ASSUME TypeOK, NEW b \in Starters, Ends(b)
    PROVE  /\ starter' \in [Starters -> StarterStates]
           /\ starter'[b].at = "free"
           /\ \A c \in Starters \ {b} : starter'[c] = starter[c]
<1>1. starter \in [Starters -> StarterStates]
  BY DEF TypeOK, StarterStates
<1> DEFINE f == Free
<1>2. f \in StarterStates /\ f.at = "free"
  BY FreeStates
<1>3. starter' = [starter EXCEPT ![b] = f]
  BY DEF Ends
<1> HIDE DEF f
<1>4. QED
  BY <1>1, <1>2, <1>3

-----------------------------------------------------------------------------
(* The types.                                                              *)

LEMMA TypeInit == Init => TypeInv
<1> DEFINE f == Free
<1>1. f \in AcceptorStates /\ f \in StarterStates /\ f.at = "free"
  BY FreeStates
<1>2. Init => acceptor = [a \in Acceptors |-> f] /\ starter = [b \in Starters |-> f]
  BY DEF Init
<1> HIDE DEF f
<1>3. Init => /\ acceptor \in [Acceptors -> AcceptorStates] /\ starter \in [Starters -> StarterStates]
              /\ \A a \in Acceptors : acceptor[a].at = "free"
              /\ \A b \in Starters : starter[b].at = "free"
  BY <1>1, <1>2
<1>4. Init => /\ status \in [Sockets -> {"none", "active", "failed"}]
              /\ recorded \in [Sockets -> BOOLEAN] /\ running \in [Sockets -> Nat]
  BY DEF Init
<1> SUFFICES ASSUME Init PROVE TypeInv
  OBVIOUS
<1>5. PlaceInv
  BY <1>3 DEF Init, PlaceInv
<1>6. /\ up \in BOOLEAN /\ exitMode \in BOOLEAN /\ stopped \in BOOLEAN
      /\ main = "listen" /\ listener = "none" /\ todo = Sockets /\ registered = {} /\ open = {}
      /\ polled = {} /\ turn = {} /\ waited = None /\ loopLock = None
      /\ service \in Services /\ loaded = {} /\ overlapped = {}
  BY DEF Init
<1>7. QED
  BY <1>3, <1>4, <1>5, <1>6 DEF TypeInv, TypeOK, AcceptorStates, StarterStates

\* A step of a starter keeps the types.
LEMMA StarterTypes ==
    ASSUME TypeInv, NEW b \in Starters, Starts(b)
    PROVE  TypeInv'
<1> USE DEF TypeInv, PlaceInv
<1>1. starter[b].sock \in Sockets
  BY DEF Starts, Load, Check, Again, Prepare, Spawn, Record, Fail, StarterAt
<1>2. /\ starter' \in [Starters -> StarterStates]
      /\ starter'[b].at = "free" \/ starter'[b].sock = starter[b].sock
      /\ \A c \in Starters \ {b} : starter'[c] = starter[c]
  <2>1. \/ Goto(b, "check") \/ Goto(b, "again") \/ Goto(b, "pre") \/ Goto(b, "spawn") \/ Goto(b, "record") \/ Goto(b, "fail")
        \/ Ends(b)
    BY DEF Starts, Load, Check, Again, Prepare, Spawn, Record, Fail
  <2>2. QED
    BY <2>1, GotoMoves, EndsMoves
<1>3. loaded' \subseteq Sockets /\ overlapped' \subseteq Sockets
  BY <1>1 DEF TypeOK, Starts, Load, Check, Again, Prepare, Spawn, Record, Fail, services
<1>4. /\ status' \in [Sockets -> {"none", "active", "failed"}]
      /\ recorded' \in [Sockets -> BOOLEAN] /\ running' \in [Sockets -> Nat]
  <2>1. \/ UNCHANGED <<status, recorded, running>>
        \/ /\ running' = [running EXCEPT ![starter[b].sock] = running[starter[b].sock] + 1]
           /\ UNCHANGED <<status, recorded>>
        \/ /\ status' = [status EXCEPT ![starter[b].sock] = "active"]
           /\ recorded' = [recorded EXCEPT ![starter[b].sock] = TRUE]
           /\ running' = running
        \/ /\ status' = [status EXCEPT ![starter[b].sock] = "failed"]
           /\ UNCHANGED <<recorded, running>>
    BY DEF Starts, Load, Check, Again, Prepare, Spawn, Record, Fail, services
  <2>2. /\ status \in [Sockets -> {"none", "active", "failed"}]
        /\ recorded \in [Sockets -> BOOLEAN] /\ running \in [Sockets -> Nat]
    BY DEF TypeOK
  <2>3. PICK s \in Sockets : s = starter[b].sock
    BY <1>1
  <2>4. running[s] + 1 \in Nat
    BY <2>2
  <2>5. QED
    BY <2>1, <2>2, <2>3, <2>4
<1>5. UNCHANGED others
  BY DEF Starts, Load, Check, Again, Prepare, Spawn, Record, Fail
<1>6. QED
  BY <1>1, <1>2, <1>3, <1>4, <1>5 DEF others, mains, listeners, TypeOK, StarterStates

\* So does a step of an acceptor, and who has the lock is in between its ends.
LEMMA AcceptorTypes ==
    ASSUME TypeInv, NEW a \in Acceptors, Accepts(a)
    PROVE  TypeInv'
<1> USE DEF TypeInv, PlaceInv
<1>1. acceptor \in [Acceptors -> AcceptorStates] /\ starter \in [Starters -> StarterStates]
  BY DEF TypeOK, AcceptorStates, StarterStates
<1>2. acceptor[a].sock \in Sockets
  BY DEF Accepts, AcceptLock, Accept, Send
<1>3. ASSUME NEW l \in {"accept", "send"}, acceptor' = [acceptor EXCEPT ![a].at = l]
      PROVE  /\ acceptor' \in [Acceptors -> AcceptorStates]
             /\ acceptor'[a].at = l /\ acceptor'[a].sock \in Sockets
             /\ \A c \in Acceptors \ {a} : acceptor'[c] = acceptor[c]
  <2> DEFINE moved == [acceptor[a] EXCEPT !.at = l]
  <2>1. moved \in AcceptorStates /\ moved.at = l /\ moved.sock \in Sockets
    <3>1. acceptor[a] \in AcceptorStates
      BY <1>1
    <3>2. QED
      BY <3>1, <1>2 DEF AcceptorStates
  <2>2. acceptor' = [acceptor EXCEPT ![a] = moved]
    BY <1>3
  <2> HIDE DEF moved
  <2>3. QED
    BY <1>1, <2>1, <2>2
<1>4. CASE AcceptLock(a)
  BY <1>1, <1>3, <1>4 DEF AcceptLock, TypeOK, mains, listeners, services, AcceptorStates
<1>5. CASE Accept(a)
  <2> DEFINE begun == [at |-> "load", sock |-> acceptor[a].sock]
  <2>1. begun \in StarterStates /\ begun.at = "load" /\ begun.sock \in Sockets
    BY <1>2 DEF StarterStates
  <2>2. New(starter) \in Starters
    BY <1>1, <1>5, NewIsUnused DEF Accept
  <2>3. starter' = [starter EXCEPT ![New(starter)] = begun]
    BY <1>5 DEF Accept
  <2> HIDE DEF begun
  <2>4. /\ starter' \in [Starters -> StarterStates]
        /\ \A b \in Starters : starter'[b].at # "free" => starter'[b].sock \in Sockets
    BY <1>1, <2>1, <2>2, <2>3
  <2>5. QED
    BY <1>3, <1>5, <2>4 DEF Accept, TypeOK, mains, listeners, services, AcceptorStates, StarterStates
<1>6. CASE Send(a)
  <2> DEFINE f == Free
  <2>1. f \in AcceptorStates /\ f.at = "free"
    BY FreeStates
  <2>2. acceptor' = [acceptor EXCEPT ![a] = f]
    BY <1>6 DEF Send
  <2> HIDE DEF f
  <2>3. /\ acceptor' \in [Acceptors -> AcceptorStates] /\ acceptor'[a].at = "free"
        /\ \A c \in Acceptors \ {a} : acceptor'[c] = acceptor[c]
    BY <1>1, <2>1, <2>2
  <2>4. QED
    BY <1>6, <2>3 DEF Send, TypeOK, mains, listeners, services, AcceptorStates
<1>7. QED
  BY <1>4, <1>5, <1>6 DEF Accepts

\* The main goroutine and the listener.
LEMMA OtherTypes ==
    ASSUME TypeInv, MainSteps \/ ListenerSteps \/ ConcurrentMapWrites
    PROVE  TypeInv'
<1> USE DEF TypeInv, PlaceInv
<1>1. CASE ListenUnit
  BY <1>1 DEF ListenUnit, TypeOK, mains, listeners, services
<1>2. CASE RunListener
  BY <1>2 DEF RunListener, TypeOK, mains, listeners, services
<1>3. CASE StopListener
  BY <1>3 DEF StopListener, TypeOK, mains, listeners, services
<1>4. CASE Visit
  <2>1. PICK s \in turn :
           acceptor' = [acceptor EXCEPT ![New(acceptor)] = [at |-> "lock", sock |-> s]] /\ turn' = turn \ {s}
    BY <1>4 DEF Visit
  <2> DEFINE begun == [at |-> "lock", sock |-> s]
  <2>2. begun \in AcceptorStates /\ begun.at = "lock" /\ begun.sock \in Sockets
    BY DEF AcceptorStates, TypeOK
  <2>3. New(acceptor) \in Acceptors /\ acceptor[New(acceptor)].at = "free"
    BY <1>4, NewIsUnused, FreeStates DEF Visit, TypeOK
  <2>4. acceptor' = [acceptor EXCEPT ![New(acceptor)] = begun]
    BY <2>1
  <2> HIDE DEF begun
  <2>5. acceptor \in [Acceptors -> AcceptorStates]
    BY DEF TypeOK, AcceptorStates
  <2> DEFINE g == New(acceptor)
  <2> HIDE DEF g
  <2>6. /\ acceptor' \in [Acceptors -> AcceptorStates]
        /\ \A a \in Acceptors : acceptor'[a] = acceptor[a] \/ (a = g /\ acceptor'[a] = begun)
    <3>1. g \in Acceptors /\ acceptor' = [acceptor EXCEPT ![g] = begun]
      BY <2>3, <2>4 DEF g
    <3>2. QED
      BY <3>1, <2>2, <2>5
  <2>7. acceptor[g].at = "free"
    BY <2>3 DEF g
  <2>8. QED
    BY <1>4, <2>1, <2>2, <2>6, <2>7 DEF Visit, TypeOK, mains, services, AcceptorStates
<1>5. CASE Poll \/ VisitsEnd \/ Waited \/ CloseSockets
  BY <1>5 DEF Poll, VisitsEnd, Waited, CloseSockets, TypeOK, mains, services
<1>6. CASE ConcurrentMapWrites
  BY <1>6 DEF ConcurrentMapWrites, TypeOK, mains, listeners, services
<1>7. QED
  BY <1>1, <1>2, <1>3, <1>4, <1>5, <1>6 DEF MainSteps, ListenerSteps

LEMMA TypeStep == TypeInv /\ [Next]_vars => TypeInv'
<1>1. TypeInv /\ UNCHANGED vars => TypeInv'
  BY DEF TypeInv, TypeOK, PlaceInv, vars, mains, listeners, services
<1>2. QED
  BY <1>1, StarterTypes, AcceptorTypes, OtherTypes DEF Next

\* The types, and who has loopLock, for any number of sockets and goroutines.
THEOREM TypeCorrectness == Spec => []TypeOK
<1>1. TypeInv => TypeOK
  BY DEF TypeInv
<1>2. QED
  BY TypeInit, TypeStep, <1>1, PTL DEF Spec

-----------------------------------------------------------------------------
(* A service runs once.                                                    *)

\* A starter that has looked at the state and not written it.
Busy(b, s) == starter[b].sock = s /\ starter[b].at \in {"again", "pre", "spawn", "record"}

\* Where no two starters were about to start the service, at most one of them is, the
\* process it has started is recorded next, and nobody is busy once it is.
OnceAt(s) ==
    /\ \A b, c \in Starters : Busy(b, s) /\ Busy(c, s) => b = c
    /\ \/ running[s] = 0
       \/ running[s] = 1 /\ recorded[s]
       \/ running[s] = 1 /\ \E b \in Starters : Busy(b, s) /\ starter[b].at = "record"
    /\ recorded[s] => \A b \in Starters : ~ Busy(b, s)

OnceInv == \A s \in Sockets : s \in overlapped \/ OnceAt(s)

\* A step that leaves the services alone, and makes no starter busy.
LEMMA OnceElsewhere ==
    ASSUME TypeInv, OnceInv, UNCHANGED <<recorded, running, overlapped>>,
           \A b \in Starters : starter'[b] = starter[b] \/ starter'[b].at \notin {"again", "pre", "spawn", "record"},
           \A b \in Starters : starter[b].at = "record" => starter'[b] = starter[b]
    PROVE  OnceInv'
<1> SUFFICES ASSUME NEW s \in Sockets, s \notin overlapped PROVE OnceAt(s)'
  BY DEF OnceInv
<1>1. OnceAt(s)
  BY DEF OnceInv
<1>2. \A b \in Starters : Busy(b, s)' => Busy(b, s)
  BY DEF Busy
<1>3. \A b \in Starters : starter[b].at = "record" /\ Busy(b, s) => starter'[b].at = "record" /\ Busy(b, s)'
  BY DEF Busy
<1>4. QED
  BY <1>1, <1>2, <1>3 DEF OnceAt

\* A step of a starter.
LEMMA OnceStarter ==
    ASSUME TypeInv, OnceInv, NEW b \in Starters, Starts(b)
    PROVE  OnceInv'
<1>1. PICK t \in Sockets : t = starter[b].sock
  BY DEF TypeInv, PlaceInv, Starts, Load, Check, Again, Prepare, Spawn, Record, Fail, StarterAt
<1>2. /\ recorded \in [Sockets -> BOOLEAN] /\ running \in [Sockets -> Nat]
      /\ overlapped \subseteq Sockets /\ TypeOK
  BY DEF TypeInv, TypeOK
<1>3. CASE Load(b) \/ Fail(b)
  <2>1. /\ UNCHANGED <<recorded, running, overlapped>>
        /\ starter'[b].at \in {"check", "free"} /\ \A c \in Starters \ {b} : starter'[c] = starter[c]
        /\ starter[b].at # "record"
    BY <1>2, <1>3, GotoMoves, EndsMoves DEF Load, Fail, StarterAt
  <2>2. QED
    BY <2>1, OnceElsewhere
<1>4. CASE Check(b) /\ Ends(b)
  <2>1. /\ UNCHANGED <<recorded, running>> /\ overlapped \subseteq overlapped'
        /\ starter'[b].at = "free" /\ \A c \in Starters \ {b} : starter'[c] = starter[c]
        /\ starter[b].at = "check"
    BY <1>2, <1>4, EndsMoves DEF Check, StarterAt
  <2> SUFFICES ASSUME NEW s \in Sockets, s \notin overlapped' PROVE OnceAt(s)'
    BY DEF OnceInv
  <2>2. OnceAt(s)
    BY <2>1 DEF OnceInv
  <2>3. \A c \in Starters : (Busy(c, s)' <=> Busy(c, s)) /\ (Busy(c, s) => starter'[c] = starter[c])
    BY <2>1 DEF Busy
  <2>4. QED
    BY <2>1, <2>2, <2>3 DEF OnceAt
<1>5. CASE Check(b) /\ ~ Ends(b)
  <2>1. /\ UNCHANGED <<recorded, running>> /\ Goto(b, "again") /\ starter[b].at = "check"
        /\ ~ recorded[t]
        /\ overlapped' = IF Starting(t, b) THEN overlapped \cup {t} ELSE overlapped
    BY <1>1, <1>5 DEF Check, StarterAt
  <2>2. /\ starter'[b].at = "again" /\ starter'[b].sock = t
        /\ \A c \in Starters \ {b} : starter'[c] = starter[c]
    BY <1>1, <1>2, <2>1, GotoMoves
  <2> SUFFICES ASSUME NEW s \in Sockets, s \notin overlapped' PROVE OnceAt(s)'
    BY DEF OnceInv
  <2>3. OnceAt(s)
    BY <2>1 DEF OnceInv
  <2>4. \A c \in Starters \ {b} : Busy(c, s)' <=> Busy(c, s)
    BY <2>2 DEF Busy
  <2>5. CASE s # t
    <3>1. \A c \in Starters : (Busy(c, s)' <=> Busy(c, s)) /\ (Busy(c, s) => starter'[c] = starter[c])
      BY <1>1, <2>1, <2>2, <2>5 DEF Busy
    <3>2. QED
      BY <2>1, <2>3, <3>1 DEF OnceAt
  <2>6. CASE s = t
    <3>1. \A c \in Starters \ {b} : ~ Busy(c, s)
      BY <2>1, <2>6 DEF Starting, Busy
    <3>2. ~ Busy(b, s)
      BY <2>1 DEF Busy
    <3>3. running[s] = 0 /\ ~ recorded[s]
      BY <2>1, <2>3, <2>6, <3>1, <3>2 DEF OnceAt
    <3>4. QED
      BY <2>1, <2>4, <3>1, <3>3 DEF OnceAt
  <2>7. QED
    BY <2>5, <2>6
<1>6. CASE Again(b) \/ Prepare(b)
  <2>1. /\ UNCHANGED <<recorded, running, overlapped>> /\ starter[b].at \in {"again", "pre"}
        /\ Goto(b, "pre") \/ Goto(b, "spawn") \/ Ends(b)
    BY <1>6 DEF Again, Prepare, StarterAt, services
  <2>2. /\ starter'[b].at = "free" \/ (starter'[b].at \in {"pre", "spawn"} /\ starter'[b].sock = t)
        /\ \A c \in Starters \ {b} : starter'[c] = starter[c]
    BY <1>1, <1>2, <2>1, GotoMoves, EndsMoves
  <2> SUFFICES ASSUME NEW s \in Sockets, s \notin overlapped PROVE OnceAt(s)'
    BY <2>1 DEF OnceInv
  <2>3. OnceAt(s)
    BY DEF OnceInv
  <2>4. \A c \in Starters : /\ Busy(c, s)' => Busy(c, s)
                            /\ starter[c].at = "record" => starter'[c] = starter[c]
    BY <1>1, <2>1, <2>2 DEF Busy
  <2>5. \A c \in Starters : starter[c].at = "record" /\ Busy(c, s)
                              => starter'[c].at = "record" /\ Busy(c, s)'
    BY <2>4 DEF Busy
  <2>6. \A c, d \in Starters : Busy(c, s)' /\ Busy(d, s)' => c = d
    BY <2>3, <2>4 DEF OnceAt
  <2>7. \/ running[s] = 0
        \/ running[s] = 1 /\ recorded[s]
        \/ running[s] = 1 /\ \E c \in Starters : Busy(c, s)' /\ starter'[c].at = "record"
    BY <2>3, <2>5 DEF OnceAt
  <2>8. recorded[s] => \A c \in Starters : ~ Busy(c, s)'
    BY <2>3, <2>4 DEF OnceAt
  <2>9. QED
    BY <2>1, <2>6, <2>7, <2>8 DEF OnceAt
<1>7. CASE Spawn(b)
  <2>1. /\ UNCHANGED <<recorded, overlapped>> /\ starter[b].at = "spawn"
        /\ \/ /\ running' = [running EXCEPT ![t] = running[t] + 1] /\ Goto(b, "record")
           \/ running' = running /\ Goto(b, "fail")
    BY <1>1, <1>7 DEF Spawn, StarterAt
  <2>2. /\ starter'[b].sock = t /\ starter'[b].at \in {"record", "fail"}
        /\ running' # running => starter'[b].at = "record"
        /\ starter'[b].at = "fail" \/ running' = [running EXCEPT ![t] = running[t] + 1]
        /\ \A c \in Starters \ {b} : starter'[c] = starter[c]
    BY <1>1, <1>2, <2>1, GotoMoves
  <2> SUFFICES ASSUME NEW s \in Sockets, s \notin overlapped PROVE OnceAt(s)'
    BY <2>1 DEF OnceInv
  <2>3. OnceAt(s)
    BY DEF OnceInv
  <2>4. \A c \in Starters \ {b} : (Busy(c, s)' <=> Busy(c, s)) /\ starter'[c] = starter[c]
    BY <2>2 DEF Busy
  <2>5. CASE s # t
    <3>1. running'[s] = running[s] /\ ~ Busy(b, s) /\ ~ Busy(b, s)'
      BY <1>1, <1>2, <2>1, <2>2, <2>5 DEF Busy
    <3>2. QED
      BY <2>1, <2>3, <2>4, <3>1 DEF OnceAt
  <2>6. CASE s = t
    <3>1. Busy(b, s) /\ ~ recorded[s]
      BY <1>1, <2>1, <2>3, <2>6 DEF Busy, OnceAt
    <3>2. \A c \in Starters \ {b} : ~ Busy(c, s)
      BY <2>3, <3>1 DEF OnceAt
    <3>3. running[s] = 0
      BY <2>1, <2>3, <3>1, <3>2 DEF OnceAt
    <3>4. \/ running'[s] = 1 /\ starter'[b].at = "record" /\ Busy(b, s)'
          \/ running'[s] = 0
      <4>1. CASE running' = running
        BY <4>1, <3>3
      <4>2. CASE running' # running
        BY <1>2, <2>1, <2>2, <2>6, <3>3, <4>2 DEF Busy
      <4>3. QED
        BY <4>1, <4>2
    <3>5. QED
      BY <2>1, <2>4, <3>1, <3>2, <3>4 DEF OnceAt
  <2>7. QED
    BY <2>5, <2>6
<1>8. CASE Record(b)
  <2>1. /\ UNCHANGED <<running, overlapped>> /\ starter[b].at = "record"
        /\ recorded' = [recorded EXCEPT ![t] = TRUE] /\ starter'[b].at = "free"
        /\ \A c \in Starters \ {b} : starter'[c] = starter[c]
    BY <1>1, <1>2, <1>8, EndsMoves DEF Record, StarterAt
  <2> SUFFICES ASSUME NEW s \in Sockets, s \notin overlapped PROVE OnceAt(s)'
    BY <2>1 DEF OnceInv
  <2>2. OnceAt(s)
    BY DEF OnceInv
  <2>3. /\ \A c \in Starters \ {b} : (Busy(c, s)' <=> Busy(c, s)) /\ starter'[c] = starter[c]
        /\ ~ Busy(b, s)' /\ (Busy(b, s) <=> s = t)
    BY <1>1, <2>1 DEF Busy
  <2>4. CASE s # t
    <3>1. recorded'[s] = recorded[s] /\ ~ Busy(b, s)
      BY <1>2, <2>1, <2>3, <2>4
    <3>2. QED
      BY <2>1, <2>2, <2>3, <3>1 DEF OnceAt
  <2>5. CASE s = t
    <3>1. recorded'[s] /\ Busy(b, s)
      BY <1>2, <2>1, <2>3, <2>5
    <3>2. \A c \in Starters \ {b} : ~ Busy(c, s)
      BY <2>2, <3>1 DEF OnceAt
    <3>3. QED
      BY <2>1, <2>2, <2>3, <3>1, <3>2 DEF OnceAt
  <2>6. QED
    BY <2>4, <2>5
<1>9. QED
  BY <1>3, <1>4, <1>5, <1>6, <1>7, <1>8 DEF Starts

\* Nobody else makes a starter busy: a new one has its unit file still to load.
LEMMA OnceStep == TypeInv /\ OnceInv /\ [Next]_vars => OnceInv'
<1> SUFFICES ASSUME TypeInv, OnceInv, [Next]_vars PROVE OnceInv'
  OBVIOUS
<1>1. CASE MainSteps \/ ListenerSteps \/ ConcurrentMapWrites \/ UNCHANGED vars
  <2>1. UNCHANGED <<recorded, running, overlapped, starter>>
    BY <1>1 DEF MainSteps, ListenUnit, RunListener, StopListener, ListenerSteps, Poll, Visit, VisitsEnd,
       Waited, CloseSockets, ConcurrentMapWrites, vars, services
  <2>2. QED
    BY <2>1, OnceElsewhere
<1>2. CASE \E a \in Acceptors : Accepts(a)
  <2>1. PICK a \in Acceptors : Accepts(a)
    BY <1>2
  <2>2. CASE Accept(a)
    <3> DEFINE begun == [at |-> "load", sock |-> acceptor[a].sock]
    <3> DEFINE g == New(starter)
    <3>1. begun.at = "load"
      OBVIOUS
    <3>2. starter' = [starter EXCEPT ![g] = begun] /\ UNCHANGED <<recorded, running, overlapped>>
      BY <2>2 DEF Accept, services
    <3>3. starter[g].at = "free" /\ starter \in [Starters -> StarterStates]
      BY <2>2, NewIsUnused, FreeStates DEF Accept, TypeInv, TypeOK, StarterStates
    <3> HIDE DEF begun, g
    <3>4. \A b \in Starters : \/ starter'[b] = starter[b]
                              \/ starter'[b].at = "load" /\ starter[b].at = "free"
      BY <3>1, <3>2, <3>3
    <3>5. QED
      BY <3>2, <3>4, OnceElsewhere
  <2>3. CASE AcceptLock(a) \/ Send(a)
    BY <2>3, OnceElsewhere DEF AcceptLock, Send, services
  <2>4. QED
    BY <2>1, <2>2, <2>3 DEF Accepts
<1>3. CASE \E b \in Starters : Starts(b)
  BY <1>3, OnceStarter
<1>4. QED
  BY <1>1, <1>2, <1>3 DEF Next

\* However many sockets, polls and goroutines there are, a service runs once unless
\* two starters were about to start it at the same time.
THEOREM RunsOnce == Spec => []RunsOnceUnlessOverlapped
<1>1. Init => OnceInv
  <2> DEFINE f == Free
  <2>1. f.at = "free"
    BY FreeStates
  <2>2. Init => starter = [b \in Starters |-> f]
    BY DEF Init
  <2> HIDE DEF f
  <2>3. Init => \A b \in Starters : starter[b].at = "free"
    BY <2>1, <2>2
  <2>4. QED
    BY <2>3 DEF Init, OnceInv, OnceAt, Busy
<1>2. OnceInv => RunsOnceUnlessOverlapped
  BY DEF OnceInv, OnceAt, RunsOnceUnlessOverlapped
<1>3. QED
  BY TypeInit, TypeStep, <1>1, OnceStep, <1>2, PTL DEF Spec

=============================================================================
