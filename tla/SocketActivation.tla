---------------------------- MODULE SocketActivation ----------------------------
(***************************************************************************)
(* Init mode: ListenModules and InitLoop of                                *)
(* internal/systemctl/systemctl_exec.go and the listener of                *)
(* internal/listen/listen.go, which polls the sockets that are registered  *)
(* and starts their services.  No command line reaches InitLoop at this    *)
(* commit; a caller would register the sockets and then run it.            *)
(*                                                                         *)
(* The main goroutine, the listener, one acceptor for each socket and poll *)
(* and one starter for each acceptor share the table of sockets, loopLock, *)
(* the loaded unit files and the status files, whose writes succeed here.  *)
(***************************************************************************)
EXTENDS Naturals, FiniteSets

CONSTANTS
    Sockets,   \* socket units; each has a service of its name
    Listen,    \* Listen[s]: its Listen option, "none" if it has none of the three
    Address,   \* Address[s]: what follows it
    Services,  \* what the services of the sockets may be
    Acceptors, \* bounds the acceptors at one time
    Starters,  \* bounds the starters at one time
    None

\* There is no unit file; one without ExecStart; one with ExecStartPre; any other.
Kinds == {"not found", "no ExecStart", "ExecStartPre", "ExecStart"}

ASSUME SocketAssumption ==
    /\ Listen \in [Sockets -> {"stream", "datagram", "sequential", "none"}]
    /\ Address \in [Sockets -> {"host and port", "path", "neither"}]
    /\ Services \subseteq [Sockets -> Kinds]
    /\ None \notin Sockets \cup Acceptors \cup Starters

VARIABLES
    up,         \* does the process run?
    exitMode,   \* is exitMode set?
    main,       \* what the main goroutine does: "listen", "loop" or "end"
    todo,       \* socket units it has still to listen on
    registered, \* the table of sockets
    open,       \* sockets that are open
    stopped,    \* is the channel "stopped" closed?
    listener,   \* what the listener does
    polled,     \* the sockets it knows
    turn,       \* those it has still to visit in this poll
    waited,     \* the acceptor whose channel "done" it waits for
    loopLock,   \* the acceptor that holds it, or None
    acceptor,   \* acceptor[a]: what it does, and for which socket
    starter,    \* starter[b]: the same of a starter
    service,    \* service[s]: what the service of s is, which does not change
    loaded,     \* services whose unit file is loaded
    status,     \* status[s]: the state on record of the service
    recorded,   \* recorded[s]: is a process of it on record?
    running,    \* running[s]: its processes
    overlapped  \* history: services two starters were about to start

mains     == <<exitMode, main, todo, registered, stopped>>
listeners == <<listener, polled, turn, waited>>
services  == <<service, loaded, status, recorded, running, overlapped>>
vars == <<up, mains, open, listeners, loopLock, acceptor, starter, services>>

Free == [at |-> "free", sock |-> None]

\* A goroutine that is begun takes a name nobody has.
Unused(goroutine) == {g \in DOMAIN goroutine : goroutine[g] = Free}
New(goroutine)    == CHOOSE g \in Unused(goroutine) : TRUE

Init == /\ up = TRUE /\ exitMode \in BOOLEAN
        /\ main = "listen" /\ todo = Sockets
        /\ registered = {} /\ open = {}
        /\ stopped = FALSE
        /\ listener = "none" /\ polled = {} /\ turn = {} /\ waited = None
        /\ loopLock = None
        /\ acceptor = [a \in Acceptors |-> Free]
        /\ starter = [b \in Starters |-> Free]
        /\ service \in Services
        /\ loaded = {}
        /\ status = [s \in Sockets |-> "none"]
        /\ recorded = [s \in Sockets |-> FALSE]
        /\ running = [s \in Sockets |-> 0]
        /\ overlapped = {}

-----------------------------------------------------------------------------
(* The main goroutine.                                                     *)

\* A TCP listener, or a UDP socket that only receives.
CreatePortSocket(s) == IF Address[s] # "host and port" THEN "error"
                       ELSE IF Listen[s] = "datagram" THEN "packets" ELSE "listener"

\* Any address that can be bound as a path will do; net.Listen does not know "unixgram".
CreateUnixSocket(s) ==
    IF Address[s] = "neither" \/ Listen[s] = "datagram" THEN "error" ELSE "listener"

\* A unit without a Listen option gets a socket that is skipped.
CreateSocket(s) ==
    CASE Listen[s] = "none"       -> "skip"
      [] Listen[s] = "sequential" -> CreateUnixSocket(s)
      [] OTHER -> IF CreatePortSocket(s) = "error" THEN CreateUnixSocket(s) ELSE CreatePortSocket(s)

\* ListenUnit: the socket is made and registered.
ListenUnit ==
    /\ up /\ main = "listen"
    /\ \E s \in todo :
          /\ todo' = todo \ {s}
          /\ registered' = IF CreateSocket(s) = "error" THEN registered ELSE registered \cup {s}
          /\ open' = IF CreateSocket(s) \in {"listener", "packets"} THEN open \cup {s} ELSE open
    /\ UNCHANGED <<up, exitMode, main, stopped, listeners, loopLock, acceptor, starter, services>>

\* InitLoop begins with "go lt.Run()"; Run takes the sockets there are, and ends
\* at once if there is none.
RunListener ==
    /\ up /\ main = "listen" /\ todo = {}
    /\ main' = "loop"
    /\ polled' = {s \in registered : CreateSocket(s) # "skip"}
    /\ listener' = IF polled' = {} THEN "end" ELSE "head"
    /\ UNCHANGED <<up, exitMode, todo, registered, open, stopped, turn, waited, loopLock,
                   acceptor, starter, services>>

\* InitLoop finds exitMode set and stops the listener.
StopListener ==
    /\ up /\ main = "loop" /\ exitMode
    /\ stopped' = TRUE
    /\ main' = "end"
    /\ UNCHANGED <<up, exitMode, todo, registered, open, listeners, loopLock, acceptor, starter, services>>

-----------------------------------------------------------------------------
(* ListenThread.Run.                                                       *)

\* Mutant: the sockets are listed once only.
Poll_Once ==
    /\ up /\ listener = "head"
    /\ IF stopped THEN listener' = "close" /\ turn' = {}
                  ELSE listener' = "visit" /\ turn' = turn
    /\ UNCHANGED <<up, mains, open, polled, waited, loopLock, acceptor, starter, services>>

\* Once around the loop, the sleep included.
Poll ==
    /\ up /\ listener = "head"
    /\ IF stopped THEN listener' = "close" /\ turn' = {}
                  ELSE listener' = "visit" /\ turn' = polled
    /\ UNCHANGED <<up, mains, open, polled, waited, loopLock, acceptor, starter, services>>

\* The next socket gets an acceptor, which the listener waits for.
Visit ==
    /\ up /\ listener = "visit" /\ ~ stopped
    /\ Unused(acceptor) # {}
    /\ \E s \in turn :
          /\ acceptor' = [acceptor EXCEPT ![New(acceptor)] = [at |-> "lock", sock |-> s]]
          /\ turn' = turn \ {s}
    /\ waited' = New(acceptor)
    /\ listener' = "wait"
    /\ UNCHANGED <<up, mains, open, polled, loopLock, starter, services>>

VisitsEnd ==
    /\ up /\ listener = "visit"
    /\ stopped \/ turn = {}
    /\ listener' = "head"
    /\ UNCHANGED <<up, mains, open, polled, turn, waited, loopLock, acceptor, starter, services>>

\* The acceptor is done, or 100 milliseconds are over.
Waited ==
    /\ up /\ listener = "wait"
    /\ waited' = None
    /\ listener' = "visit"
    /\ UNCHANGED <<up, mains, open, polled, turn, loopLock, acceptor, starter, services>>

\* Socket.Close closes what is a net.Listener.
CloseSockets ==
    /\ up /\ listener = "close"
    /\ open' = open \ {s \in polled : CreateSocket(s) = "listener"}
    /\ listener' = "end"
    /\ UNCHANGED <<up, mains, polled, turn, waited, loopLock, acceptor, starter, services>>

-----------------------------------------------------------------------------
(* The acceptor of a socket.                                               *)

AcceptLock(a) ==
    /\ up /\ acceptor[a].at = "lock" /\ loopLock = None
    /\ loopLock' = a
    /\ acceptor' = [acceptor EXCEPT ![a].at = "accept"]
    /\ UNCHANGED <<up, mains, open, listeners, starter, services>>

\* Mutant: the lock is not given back.
Accept_KeepsLock(a) ==
    /\ up /\ acceptor[a].at = "accept"
    /\ Unused(starter) # {}
    /\ starter' = [starter EXCEPT ![New(starter)] = [at |-> "load", sock |-> acceptor[a].sock]]
    /\ acceptor' = [acceptor EXCEPT ![a].at = "send"]
    /\ UNCHANGED <<up, mains, open, loopLock, listeners, services>>

\* DoAcceptSocketFrom is "go s.GetSocketServiceFrom(sock)"; the lock is given back.
Accept(a) ==
    /\ up /\ acceptor[a].at = "accept"
    /\ Unused(starter) # {}
    /\ starter' = [starter EXCEPT ![New(starter)] = [at |-> "load", sock |-> acceptor[a].sock]]
    /\ acceptor' = [acceptor EXCEPT ![a].at = "send"]
    /\ loopLock' = None
    /\ UNCHANGED <<up, mains, open, listeners, services>>

\* Mutant: the channel has no buffer.
Send_Unbuffered(a) ==
    /\ up /\ acceptor[a].at = "send" /\ waited = a
    /\ acceptor' = [acceptor EXCEPT ![a] = Free]
    /\ UNCHANGED <<up, mains, open, listeners, loopLock, starter, services>>

\* The channel takes one message, whether or not the listener still waits for it.
Send(a) ==
    /\ up /\ acceptor[a].at = "send"
    /\ acceptor' = [acceptor EXCEPT ![a] = Free]
    /\ UNCHANGED <<up, mains, open, listeners, loopLock, starter, services>>

-----------------------------------------------------------------------------
(* GetSocketServiceFrom: the service is started, without its lock.         *)

StarterAt(b, l) == up /\ starter[b].at = l
Goto(b, l)      == starter' = [starter EXCEPT ![b].at = l]
Ends(b)         == starter' = [starter EXCEPT ![b] = Free]
others == <<up, mains, open, listeners, loopLock, acceptor, service>>

\* LoadConf; a service that is not found is left at that.
Load(b) ==
    /\ StarterAt(b, "load")
    /\ IF service[starter[b].sock] = "not found"
         THEN Ends(b) /\ loaded' = loaded
         ELSE Goto(b, "check") /\ loaded' = loaded \cup {starter[b].sock}
    /\ UNCHANGED <<others, status, recorded, running, overlapped>>

\* Neither the map of loaded units nor the status map of a unit has a lock: where one
\* is written twice at the same time, the Go runtime may end the process.
ConcurrentMapWrites ==
    /\ up
    /\ \E b, c \in Starters :
          /\ b # c
          /\ \/ /\ {starter[b].at, starter[c].at} = {"load"}
                /\ {starter[b].sock, starter[c].sock} \cap loaded = {}
             \/ /\ {starter[b].at, starter[c].at} \subseteq {"record", "fail"}
                /\ starter[b].sock = starter[c].sock
    /\ up' = FALSE
    /\ UNCHANGED <<mains, open, listeners, loopLock, acceptor, starter, services>>

\* Others that are past the look at the state and have not written it.
Starting(s, b) == \E c \in Starters \ {b} : /\ starter[c].sock = s
                                            /\ starter[c].at \in {"again", "pre", "spawn", "record"}

\* IsActiveFrom.
Check(b) ==
    /\ StarterAt(b, "check")
    /\ LET s == starter[b].sock
       IN  IF recorded[s] \/ status[s] = "active"
           THEN Ends(b) /\ overlapped' = overlapped
           ELSE /\ Goto(b, "again")
                /\ overlapped' = IF Starting(s, b) THEN overlapped \cup {s} ELSE overlapped
    /\ UNCHANGED <<others, loaded, status, recorded, running>>

\* DoStartServiceFrom looks again: a service whose process is there is left alone.
Again(b) ==
    /\ StarterAt(b, "again")
    /\ IF recorded[starter[b].sock] THEN Ends(b)
       ELSE Goto(b, IF service[starter[b].sock] = "ExecStart" THEN "spawn" ELSE "pre")
    /\ UNCHANGED <<others, services>>

\* An ExecStartPre command that fails ends the start, and so does a missing ExecStart,
\* with nothing on record.  One that never ends leaves a goroutine that holds nothing,
\* which is no different from one that has ended.
Prepare(b) ==
    /\ StarterAt(b, "pre")
    /\ \/ service[starter[b].sock] = "ExecStartPre" /\ Goto(b, "spawn")
       \/ Ends(b)
    /\ UNCHANGED <<others, services>>

\* The process is started, or cannot be.
Spawn(b) ==
    /\ StarterAt(b, "spawn")
    /\ \/ /\ running' = [running EXCEPT ![starter[b].sock] = running[starter[b].sock] + 1]
          /\ Goto(b, "record")
       \/ running' = running /\ Goto(b, "fail")
    /\ UNCHANGED <<others, loaded, status, recorded, overlapped>>

\* Mutant: the start is not recorded.
Record_Omitted(b) ==
    /\ StarterAt(b, "record")
    /\ Ends(b)
    /\ UNCHANGED <<others, services>>

Record(b) ==
    /\ StarterAt(b, "record")
    /\ status' = [status EXCEPT ![starter[b].sock] = "active"]
    /\ recorded' = [recorded EXCEPT ![starter[b].sock] = TRUE]
    /\ Ends(b)
    /\ UNCHANGED <<others, loaded, running, overlapped>>

\* The failure of one start leaves the process that another one has recorded.
Fail(b) ==
    /\ StarterAt(b, "fail")
    /\ status' = [status EXCEPT ![starter[b].sock] = "failed"]
    /\ Ends(b)
    /\ UNCHANGED <<others, loaded, recorded, running, overlapped>>

-----------------------------------------------------------------------------

MainSteps     == ListenUnit \/ RunListener \/ StopListener
ListenerSteps == Poll \/ Visit \/ VisitsEnd \/ Waited \/ CloseSockets
Accepts(a)    == AcceptLock(a) \/ Accept(a) \/ Send(a)
Starts(b)     == \/ Load(b) \/ Check(b) \/ Again(b) \/ Prepare(b) \/ Spawn(b) \/ Record(b)
                 \/ Fail(b)

Next == \/ MainSteps \/ ListenerSteps \/ ConcurrentMapWrites
        \/ \E a \in Acceptors : Accepts(a)
        \/ \E b \in Starters : Starts(b)

Spec == Init /\ [][Next]_vars

\* The Go scheduler runs every goroutine, and its mutexes are fair.
Fairness == /\ WF_vars(MainSteps)
            /\ SF_vars(Visit) /\ WF_vars(ListenerSteps)
            /\ \A a \in Acceptors : /\ SF_vars(AcceptLock(a)) /\ SF_vars(Accept(a))
                                    /\ WF_vars(Accepts(a))
            /\ \A b \in Starters : WF_vars(Starts(b))

FairSpec == Spec /\ Fairness

-----------------------------------------------------------------------------

\* Types; the lock is held by an acceptor that is between its Lock and Unlock.
TypeOK ==
    /\ up \in BOOLEAN /\ exitMode \in BOOLEAN /\ stopped \in BOOLEAN
    /\ main \in {"listen", "loop", "end"}
    /\ listener \in {"none", "head", "visit", "wait", "close", "end"}
    /\ todo \subseteq Sockets /\ registered \subseteq Sockets /\ open \subseteq Sockets
    /\ polled \subseteq registered /\ turn \subseteq polled
    /\ waited \in Acceptors \cup {None}
    /\ loopLock \in {None} \cup {a \in Acceptors : acceptor[a].at = "accept"}
    /\ acceptor \in [Acceptors -> [at : {"free", "lock", "accept", "send"},
                                   sock : Sockets \cup {None}]]
    /\ starter \in [Starters -> [at : {"free", "load", "check", "again", "pre", "spawn", "record",
                                        "fail"},
                                 sock : Sockets \cup {None}]]
    /\ service \in Services
    /\ loaded \subseteq Sockets /\ overlapped \subseteq Sockets
    /\ status \in [Sockets -> {"none", "active", "failed"}]
    /\ recorded \in [Sockets -> BOOLEAN]
    /\ running \in [Sockets -> Nat]

\* However often its socket is polled, a service runs once, unless a starter had not
\* recorded it when the next one looked.
RunsOnceUnlessOverlapped == \A s \in Sockets : running[s] <= 1 \/ s \in overlapped

\* When the loop is left the listener ends, with its listeners closed, and no
\* acceptor is left behind, also where the listener had stopped waiting for it.
AllEnds == exitMode ~> \/ ~ up
                       \/ /\ listener = "end"
                          /\ \A s \in open : CreateSocket(s) # "listener"
                          /\ \A a \in Acceptors : acceptor[a] = Free

\* As long as the loop runs, the start of the service of every socket that can be made
\* is tried again and again; and if there is such a service, with an ExecStart and no
\* ExecStartPre, it comes to be started, or its failure recorded.
ServicesStart ==
    \A s \in {t \in Sockets : CreateSocket(t) \in {"listener", "packets"}} :
       ~ exitMode ~> \/ ~ up
                     \/ IF service[s] = "ExecStart" THEN status[s] # "none"
                        ELSE \E b \in Starters : starter[b] = [at |-> "load", sock |-> s]

=============================================================================
