------------------------------ MODULE UnitMutex ------------------------------
(***************************************************************************)
(* What a Waitlock (internal/conf/waitlock.go) promises the operations on  *)
(* one unit: at most one invocation of systemctl is inside, an invocation  *)
(* that waits either gets in or gives up, the death of an invocation never *)
(* leaves the unit locked, and an invocation whose lock file is taken away *)
(* while it is inside does not notice, but does not keep others out.       *)
(***************************************************************************)

CONSTANTS Procs,  \* invocations of systemctl that operate on the unit
          MayLose \* can a lock file be taken away from its holder?

VARIABLE phase \* phase[p]: where invocation p is

Phases == {"out", "waiting", "in", "lost"}

Init == phase = [p \in Procs |-> "out"]

Move(p, from, to) == phase[p] = from /\ phase' = [phase EXCEPT ![p] = to]

\* Lock() is called.
Arrive(p) == Move(p, "out", "waiting")

\* Lock() obtains the file lock and has checked that its file is still there.
Enter(p) == /\ \A q \in Procs : phase[q] # "in"
            /\ Move(p, "waiting", "in")

\* Lock() returns false.
GiveUp(p) == Move(p, "waiting", "out")

\* The lock file is taken away.
Lose(p) == MayLose /\ Move(p, "in", "lost")

\* Unlock() releases the file lock, or the invocation dies inside.
Leave(p) == Move(p, "in", "out") \/ Move(p, "lost", "out")

Next == \E p \in Procs : Arrive(p) \/ Enter(p) \/ GiveUp(p) \/ Lose(p) \/ Leave(p)

Spec == Init /\ [][Next]_phase

-----------------------------------------------------------------------------

TypeOK == phase \in [Procs -> Phases]

\* No two invocations are inside together.
MutualExclusion == \A p, q \in Procs : phase[p] = "in" /\ phase[q] = "in" => p = q

\* Where no lock file is taken away, nobody is inside without the lock.
NothingLost == ~ MayLose => \A p \in Procs : phase[p] # "lost"

=============================================================================
