------------------------------- MODULE Waitlock -------------------------------
(***************************************************************************)
(* The lock file of one unit, <RUN>/systemd/<unit>.lock, and the           *)
(* invocations of systemctl that take it: Lock and Unlock of               *)
(* internal/conf/waitlock.go, one action per system call that touches      *)
(* shared state.                                                           *)
(*                                                                         *)
(* The lock is a POSIX record lock on an inode, not on a name: a file that *)
(* is removed while somebody waits for it, or holds it, lives on as an     *)
(* inode without a name while a new one takes its place.  systemctl never  *)
(* removes a lock file; whoever cleans up /run may (Unlink, external).     *)
(***************************************************************************)
EXTENDS Naturals

CONSTANTS Procs,       \* invocations of systemctl that operate on the unit
          Inodes,      \* inodes the lock file can be
          MaxWait,     \* DefaultMaximumTimeout: attempts before Lock gives up
          AllowUnlink, \* does somebody remove lock files?
          None         \* no invocation, no inode

ASSUME WaitlockAssumption ==
    /\ MaxWait \in Nat \ {0}
    /\ AllowUnlink \in BOOLEAN
    /\ None \notin Procs
    /\ None \notin Inodes

VARIABLES
    pc,       \* pc[p]: the next system call of p
    opened,   \* opened[p]: the inode behind p's descriptor (w.opened), or None
    attempt,  \* attempt[p]: loop counter of Lock
    linked,   \* the inode the name of the lock file leads to, or None
    owner,    \* owner[i]: the invocation with the record lock on inode i
    content,  \* content[i]: whose line is written in inode i, or None
    robbed    \* history: p had verified its lock file before it was removed

vars == <<pc, opened, attempt, linked, owner, content, robbed>>

Looping  == {"try", "wait", "verify", "reopen", "write"}
Owning   == {"verify", "write", "held", "release"}
Verified == {"write", "held", "release"}
Labels   == Looping \cup {"idle", "held", "release", "close", "failed"}

Init == /\ pc = [p \in Procs |-> "idle"]
        /\ opened = [p \in Procs |-> None]
        /\ attempt = [p \in Procs |-> 0]
        /\ linked = None
        /\ owner = [i \in Inodes |-> None]
        /\ content = [i \in Inodes |-> None]
        /\ robbed = [p \in Procs |-> FALSE]

Goto(p, l) == pc' = [pc EXCEPT ![p] = l]

-----------------------------------------------------------------------------
(* The file system (external).                                             *)

\* The kernel gives a new file an inode that nobody has open any more.
Unused(i) == i # linked /\ \A q \in Procs : opened[q] # i

\* open(lockfile, O_RDWR|O_CREAT): the inode of that name, or a new empty one.
OpenLockfile(p) ==
    \E i \in Inodes :
        /\ IF linked = None
             THEN Unused(i) /\ content' = [content EXCEPT ![i] = None]
             ELSE i = linked /\ UNCHANGED content
        /\ linked' = i
        /\ opened' = [opened EXCEPT ![p] = i]

\* What the record locks are once p has closed the file or has died: closing
\* any descriptor of a file gives up the locks the process has on it.
OwnerWithout(p) == [i \in Inodes |-> IF owner[i] = p THEN None ELSE owner[i]]

\* Somebody removes the lock file by its name.
Unlink == /\ AllowUnlink
          /\ linked # None
          /\ robbed' = [p \in Procs |->
                           robbed[p] \/ (opened[p] = linked /\ pc[p] \in Verified)]
          /\ linked' = None
          /\ UNCHANGED <<pc, opened, attempt, owner, content>>

-----------------------------------------------------------------------------
(* Lock.                                                                   *)

\* First open; a failure makes Lock return false at once.
Open(p) == /\ pc[p] = "idle"
           /\ attempt' = [attempt EXCEPT ![p] = 0]
           /\ \/ OpenLockfile(p) /\ Goto(p, "try")
              \/ Goto(p, "failed") /\ UNCHANGED <<opened, linked, content>>
           /\ UNCHANGED <<owner, robbed>>

\* Mutant: one attempt too many.
AttemptsLeft_OffByOne(p) == attempt[p] <= MaxWait

AttemptsLeft(p) == attempt[p] < MaxWait

\* Mutant: a shared (read) record lock is asked for, so nobody is ever refused.
SetLk_Shared(p) == /\ pc[p] = "try"
                   /\ AttemptsLeft(p)
                   /\ owner' = [owner EXCEPT ![opened[p]] = p]
                   /\ Goto(p, "verify")
                   /\ UNCHANGED <<opened, attempt, linked, content, robbed>>

\* F_SETLK with F_WRLCK: granted when no other invocation has the inode locked.
SetLk(p) == /\ pc[p] = "try"
            /\ AttemptsLeft(p)
            /\ IF owner[opened[p]] \in {None, p}
                 THEN /\ owner' = [owner EXCEPT ![opened[p]] = p]
                      /\ Goto(p, "verify")
                 ELSE /\ Goto(p, "wait")
                      /\ UNCHANGED owner
            /\ UNCHANGED <<opened, attempt, linked, content, robbed>>

\* After the last attempt Lock returns false; the descriptor stays open.
GiveUp(p) == /\ pc[p] = "try"
             /\ ~ AttemptsLeft(p)
             /\ Goto(p, "failed")
             /\ UNCHANGED <<opened, attempt, linked, owner, content, robbed>>

\* Locked by somebody else: sleep a second, then the next attempt.
Wait(p) == /\ pc[p] = "wait"
           /\ attempt' = [attempt EXCEPT ![p] = @ + 1]
           /\ Goto(p, "try")
           /\ UNCHANGED <<opened, linked, owner, content, robbed>>

\* Mutant: the link count is not looked at.
Verify_Unchecked(p) == /\ pc[p] = "verify"
                       /\ Goto(p, "write")
                       /\ UNCHANGED <<opened, attempt, linked, owner, content, robbed>>

\* fstat: an inode without a name is closed (and so unlocked) again.
Verify(p) == /\ pc[p] = "verify"
             /\ IF opened[p] = linked
                  THEN /\ Goto(p, "write")
                       /\ UNCHANGED <<opened, owner>>
                  ELSE /\ Goto(p, "reopen")
                       /\ opened' = [opened EXCEPT ![p] = None]
                       /\ owner' = OwnerWithout(p)
             /\ UNCHANGED <<attempt, linked, content, robbed>>

\* Mutant: the reopening restarts the loop without counting as an attempt.
Reopen_Uncounted(p) == /\ pc[p] = "reopen"
                       /\ \/ OpenLockfile(p) /\ Goto(p, "try")
                          \/ Goto(p, "failed") /\ UNCHANGED <<opened, linked, content>>
                       /\ UNCHANGED <<attempt, owner, robbed>>

\* The file got deleted: open it anew, which uses up an attempt.
Reopen(p) == /\ pc[p] = "reopen"
             /\ \/ /\ OpenLockfile(p)
                   /\ Goto(p, "try")
                   /\ attempt' = [attempt EXCEPT ![p] = @ + 1]
                \/ /\ Goto(p, "failed")
                   /\ UNCHANGED <<opened, linked, content, attempt>>
             /\ UNCHANGED <<owner, robbed>>

\* The holder leaves its line in the file; Lock returns true.
Write(p) == /\ pc[p] = "write"
            /\ content' = [content EXCEPT ![opened[p]] = p]
            /\ Goto(p, "held")
            /\ UNCHANGED <<opened, attempt, linked, owner, robbed>>

-----------------------------------------------------------------------------
(* Unlock.                                                                 *)

\* The file is emptied first, ...
Truncate(p) == /\ pc[p] = "held"
               /\ content' = [content EXCEPT ![opened[p]] = None]
               /\ Goto(p, "release")
               /\ UNCHANGED <<opened, attempt, linked, owner, robbed>>

\* ... F_SETLK with F_UNLCK releases the record lock, ...
Release(p) == /\ pc[p] = "release"
              /\ owner' = [owner EXCEPT ![opened[p]] = None]
              /\ robbed' = [robbed EXCEPT ![p] = FALSE]
              /\ Goto(p, "close")
              /\ UNCHANGED <<opened, attempt, linked, content>>

\* Mutant: the file is emptied after the record lock is gone.
Close_Truncates(p) == /\ pc[p] = "close"
                      /\ content' = [content EXCEPT ![opened[p]] = None]
                      /\ opened' = [opened EXCEPT ![p] = None]
                      /\ Goto(p, "idle")
                      /\ UNCHANGED <<attempt, linked, owner, robbed>>

\* ... and the descriptor is closed.
Close(p) == /\ pc[p] = "close"
            /\ opened' = [opened EXCEPT ![p] = None]
            /\ Goto(p, "idle")
            /\ UNCHANGED <<attempt, linked, owner, content, robbed>>

\* An invocation whose Lock returned false ends, or any invocation is killed
\* between two system calls: the kernel closes its descriptors, and what it had
\* written in the file stays there.
Exit(p) == /\ pc[p] # "idle"
           /\ opened' = [opened EXCEPT ![p] = None]
           /\ owner' = OwnerWithout(p)
           /\ robbed' = [robbed EXCEPT ![p] = FALSE]
           /\ Goto(p, "idle")
           /\ UNCHANGED <<attempt, linked, content>>

-----------------------------------------------------------------------------

LockStep(p) == \/ SetLk(p)
               \/ GiveUp(p)
               \/ Wait(p)
               \/ Verify(p)
               \/ Reopen(p)
               \/ Write(p)

UnlockStep(p) == \/ Truncate(p)
                 \/ Release(p)
                 \/ Close(p)

Next == \/ \E p \in Procs : Open(p) \/ LockStep(p) \/ UnlockStep(p) \/ Exit(p)
        \/ Unlink

Spec == Init /\ [][Next]_vars

\* No system call of Lock blocks (F_SETLK returns at once, the sleep ends), so
\* an invocation inside Lock is scheduled again; how long a holder stays inside
\* is not assumed to be bounded.
FairSpec == Spec /\ \A p \in Procs : WF_vars(LockStep(p))

-----------------------------------------------------------------------------

TypeOK == /\ pc \in [Procs -> Labels]
          /\ opened \in [Procs -> Inodes \cup {None}]
          /\ attempt \in [Procs -> 0..MaxWait]
          /\ linked \in Inodes \cup {None}
          /\ owner \in [Inodes -> Procs \cup {None}]
          /\ content \in [Inodes -> Procs \cup {None}]
          /\ robbed \in [Procs -> BOOLEAN]

\* "parallel systemctl invocations cannot simultaneously operate on the same
\* unit" (the comment on Waitlock): two invocations are past Lock together only
\* if the lock file was removed under one of them after its link count check.
\* An invocation that slept while the file was replaced is never one of them.
ExclusionUnlessRobbed ==
    \A p, q \in Procs : /\ pc[p] \in Verified
                        /\ pc[q] \in Verified
                        /\ p # q
                        => robbed[p] \/ robbed[q]

\* Unlock empties the file before it releases it, so the line in a file that is
\* held is the holder's: what a waiting invocation reports ("systemctl locked
\* by ...") is never a successor's line wiped by a predecessor's late Unlock.
ContentNamesHolder ==
    \A p \in Procs : pc[p] = "held" => content[opened[p]] = p

\* "blocking up to DefaultMaximumTimeout seconds": Lock always returns, even if
\* the holder never lets go and even if the file is removed again and again.
LockReturns ==
    \A p \in Procs : pc[p] \in Looping ~> pc[p] \notin Looping

-----------------------------------------------------------------------------
(* The lock as the mutex of UnitMutex.                                     *)

phaseBar == [p \in Procs |->
                CASE pc[p] \in Looping \ Verified -> "waiting"
                  [] pc[p] \in Verified -> IF robbed[p] THEN "lost" ELSE "in"
                  [] OTHER -> "out"]

Mutex == INSTANCE UnitMutex WITH phase <- phaseBar, MayLose <- AllowUnlink

\* Lock and Unlock implement the mutual exclusion of UnitMutex: an invocation is
\* inside from its link count check to the release of the record lock, crashes
\* and removed lock files included.
MutexSpec == Mutex!Spec

=============================================================================
