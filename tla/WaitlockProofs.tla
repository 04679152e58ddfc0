---------------------------- MODULE WaitlockProofs ----------------------------
(***************************************************************************)
(* Proofs about Waitlock for any number of invocations, inodes and         *)
(* attempts.  The inductive invariant ties the three views of the lock     *)
(* together: the program counter of an invocation, the record lock in the  *)
(* kernel, and the name in the file system.                                *)
(***************************************************************************)
EXTENDS Waitlock, TLAPS

\* Past the first open and until the last close an invocation has a file open.
FileIsOpen ==
    \A p \in Procs : pc[p] \in Owning \cup {"try", "wait", "close"} => opened[p] \in Inodes

\* An invocation has a record lock exactly while its counter says so, and on
\* the inode it has open.
OwningMeansOwner ==
    \A p \in Procs : pc[p] \in Owning => owner[opened[p]] = p

OwnerMeansOwning ==
    \A p \in Procs, i \in Inodes : owner[i] = p => opened[p] = i /\ pc[p] \in Owning

\* An invocation that has verified its lock file and was not robbed of it has
\* the file open that newcomers open.
VerifiedIsLinked ==
    \A p \in Procs : pc[p] \in Verified /\ ~ robbed[p] => opened[p] = linked

-----------------------------------------------------------------------------


\* One step keeps every variable in its range; attempt stays within MaxWait
\* because the two actions that count it start from a label SetLk leads to, and
\* SetLk asks for an attempt left.
AttemptLeftWhileLooping ==
    \A p \in Procs : pc[p] \in {"wait", "verify", "reopen"} => attempt[p] < MaxWait

TypeInv == TypeOK /\ AttemptLeftWhileLooping /\ FileIsOpen

LEMMA TypeInvStep == TypeInv /\ [Next]_vars => TypeInv'
<1> SUFFICES ASSUME TypeInv, [Next]_vars PROVE TypeInv'
  OBVIOUS
<1> USE WaitlockAssumption
        DEF TypeInv, TypeOK, AttemptLeftWhileLooping, FileIsOpen, Labels, Looping, Owning, Goto
<1>1. ASSUME NEW p \in Procs, Open(p) PROVE TypeInv'
  <2>1. CASE OpenLockfile(p) /\ Goto(p, "try")
    BY <1>1, <2>1 DEF Open, OpenLockfile
  <2>2. CASE Goto(p, "failed") /\ UNCHANGED <<opened, linked, content>>
    BY <1>1, <2>2 DEF Open
  <2> QED BY <1>1, <2>1, <2>2 DEF Open
<1>2. ASSUME NEW p \in Procs, SetLk(p) PROVE TypeInv'
  BY <1>2 DEF SetLk, AttemptsLeft
<1>3. ASSUME NEW p \in Procs, GiveUp(p) PROVE TypeInv'
  BY <1>3 DEF GiveUp
<1>4. ASSUME NEW p \in Procs, Wait(p) PROVE TypeInv'
  BY <1>4 DEF Wait
<1>5. ASSUME NEW p \in Procs, Verify(p) PROVE TypeInv'
  BY <1>5 DEF Verify, OwnerWithout
<1>6. ASSUME NEW p \in Procs, Reopen(p) PROVE TypeInv'
  BY <1>6 DEF Reopen, OpenLockfile
<1>7. ASSUME NEW p \in Procs, Write(p) PROVE TypeInv'
  BY <1>7 DEF Write
<1>8. ASSUME NEW p \in Procs, Truncate(p) PROVE TypeInv'
  BY <1>8 DEF Truncate
<1>9. ASSUME NEW p \in Procs, Release(p) PROVE TypeInv'
  BY <1>9 DEF Release
<1>10. ASSUME NEW p \in Procs, Close(p) PROVE TypeInv'
  BY <1>10 DEF Close
<1>11. ASSUME NEW p \in Procs, Exit(p) PROVE TypeInv'
  BY <1>11 DEF Exit, OwnerWithout
<1>12. ASSUME Unlink PROVE TypeInv'
  BY <1>12 DEF Unlink
<1>13. ASSUME UNCHANGED vars PROVE TypeInv'
  BY <1>13 DEF vars
<1> QED
  BY <1>1, <1>2, <1>3, <1>4, <1>5, <1>6, <1>7, <1>8, <1>9, <1>10, <1>11, <1>12, <1>13
  DEF Next, LockStep, UnlockStep

LEMMA TypeInvInit == Init => TypeInv
BY WaitlockAssumption
DEF Init, TypeInv, TypeOK, AttemptLeftWhileLooping, FileIsOpen, Labels, Looping, Owning

\* Every variable of the lock keeps its declared range; in particular Lock never
\* starts more than DefaultMaximumTimeout attempts, whether they are spent on a
\* busy lock or on reopening a removed file.
THEOREM TypeCorrectness == Spec => []TypeOK
<1>1. TypeInv => TypeOK
  BY DEF TypeInv
<1> QED BY <1>1, TypeInvInit, TypeInvStep, PTL DEF Spec

-----------------------------------------------------------------------------

Inv == /\ TypeInv
       /\ OwningMeansOwner
       /\ OwnerMeansOwning
       /\ VerifiedIsLinked
       /\ ContentNamesHolder

\* At most one invocation owns a given inode, so the others' files differ from
\* the one an owner has open.
LEMMA OwnersDiffer ==
    ASSUME Inv, NEW p \in Procs, NEW q \in Procs,
           pc[p] \in Owning, pc[q] \in Owning, opened[p] = opened[q]
    PROVE  p = q
BY DEF Inv, OwningMeansOwner

LEMMA InvInit == Init => Inv
<1> SUFFICES ASSUME Init PROVE Inv
  OBVIOUS
<1> QED
  BY TypeInvInit, WaitlockAssumption
  DEF Init, Inv, OwningMeansOwner, OwnerMeansOwning, VerifiedIsLinked, ContentNamesHolder,
      Owning, Verified

\* A file that is opened under a fresh inode is nobody's; one that exists is
\* neither emptied nor unlocked by opening it.
LEMMA OpenKeepsInv ==
    ASSUME Inv, NEW p \in Procs, pc[p] \in {"idle", "reopen"}, TypeInv',
           OpenLockfile(p), Goto(p, "try"), UNCHANGED <<owner, robbed>>
    PROVE  Inv'
<1> USE WaitlockAssumption
    DEF Inv, TypeInv, TypeOK, FileIsOpen, Owning, Verified, OpenLockfile, Unused, Goto
<1>1. OwningMeansOwner'
  BY DEF OwningMeansOwner
<1>2. OwnerMeansOwning'
  BY DEF OwnerMeansOwning
<1>3. VerifiedIsLinked'
  BY DEF VerifiedIsLinked
<1>4. ContentNamesHolder'
  BY DEF ContentNamesHolder
<1> QED BY <1>1, <1>2, <1>3, <1>4

LEMMA InvStep == Inv /\ [Next]_vars => Inv'
<1> SUFFICES ASSUME Inv, [Next]_vars PROVE Inv'
  OBVIOUS
<1>0. TypeInv'
  BY TypeInvStep DEF Inv
<1> USE <1>0, WaitlockAssumption
    DEF Inv, TypeInv, TypeOK, FileIsOpen, OwningMeansOwner, OwnerMeansOwning,
        VerifiedIsLinked, ContentNamesHolder, Owning, Verified, Goto
<1>1. ASSUME NEW p \in Procs, Open(p) PROVE Inv'
  <2>1. CASE OpenLockfile(p) /\ Goto(p, "try")
    BY <1>1, <2>1, OpenKeepsInv DEF Open
  <2>2. CASE Goto(p, "failed") /\ UNCHANGED <<opened, linked, content>>
    BY <1>1, <2>2 DEF Open
  <2> QED BY <1>1, <2>1, <2>2 DEF Open
<1>2. ASSUME NEW p \in Procs, SetLk(p) PROVE Inv'
  BY <1>2 DEF SetLk
<1>3. ASSUME NEW p \in Procs, GiveUp(p) PROVE Inv'
  BY <1>3 DEF GiveUp
<1>4. ASSUME NEW p \in Procs, Wait(p) PROVE Inv'
  BY <1>4 DEF Wait
<1>5. ASSUME NEW p \in Procs, Verify(p) PROVE Inv'
  BY <1>5 DEF Verify, OwnerWithout
<1>6. ASSUME NEW p \in Procs, Reopen(p) PROVE Inv'
  <2>1. CASE OpenLockfile(p) /\ Goto(p, "try")
    BY <1>6, <2>1, OpenKeepsInv DEF Reopen
  <2>2. CASE Goto(p, "failed") /\ UNCHANGED <<opened, linked, content, attempt>>
    BY <1>6, <2>2 DEF Reopen
  <2> QED BY <1>6, <2>1, <2>2 DEF Reopen
<1>7. ASSUME NEW p \in Procs, Write(p) PROVE Inv'
  BY <1>7, OwnersDiffer DEF Write
<1>8. ASSUME NEW p \in Procs, Truncate(p) PROVE Inv'
  BY <1>8, OwnersDiffer DEF Truncate
<1>9. ASSUME NEW p \in Procs, Release(p) PROVE Inv'
  BY <1>9, OwnersDiffer DEF Release
<1>10. ASSUME NEW p \in Procs, Close(p) PROVE Inv'
  BY <1>10 DEF Close
<1>11. ASSUME NEW p \in Procs, Exit(p) PROVE Inv'
  BY <1>11 DEF Exit, OwnerWithout
<1>12. ASSUME Unlink PROVE Inv'
  BY <1>12 DEF Unlink
<1>13. ASSUME UNCHANGED vars PROVE Inv'
  BY <1>13 DEF vars
<1> QED
  BY <1>1, <1>2, <1>3, <1>4, <1>5, <1>6, <1>7, <1>8, <1>9, <1>10, <1>11, <1>12, <1>13
  DEF Next, LockStep, UnlockStep

LEMMA InvAlways == Spec => []Inv
BY InvInit, InvStep, PTL DEF Spec

\* Two invocations operate on the unit together only if somebody removed the
\* lock file under one of them after it had checked the link count: the check
\* itself leaves no window, whatever was removed and recreated before it.
THEOREM Exclusion == Spec => []ExclusionUnlessRobbed
<1>1. Inv => ExclusionUnlessRobbed
  BY OwnersDiffer DEF Inv, VerifiedIsLinked, ExclusionUnlessRobbed, Verified, Owning
<1> QED BY <1>1, InvAlways, PTL

\* The line in a lock file that is held is its holder's own: no Unlock of a
\* predecessor and no opening by a newcomer wipes it.
THEOREM ContentIsHolders == Spec => []ContentNamesHolder
<1>1. Inv => ContentNamesHolder
  BY DEF Inv
<1> QED BY <1>1, InvAlways, PTL

-----------------------------------------------------------------------------
(* The lock implements the mutex of UnitMutex.                             *)

\* Only an invocation that is inside can have been robbed.
RobbedIsInside == \A p \in Procs : robbed[p] => pc[p] \in Verified

MutexInv == Inv /\ RobbedIsInside

LEMMA MutexInvInit == Init => MutexInv
BY InvInit DEF Init, MutexInv, RobbedIsInside

LEMMA MutexInvStep == MutexInv /\ [Next]_vars => MutexInv'
<1> SUFFICES ASSUME MutexInv, [Next]_vars PROVE MutexInv'
  OBVIOUS
<1>0. Inv'
  BY InvStep DEF MutexInv
<1> USE <1>0 DEF MutexInv, RobbedIsInside, Inv, TypeInv, TypeOK, Verified, Goto
<1>1. ASSUME NEW p \in Procs, Open(p) \/ LockStep(p) PROVE MutexInv'
  BY <1>1 DEF Open, LockStep, SetLk, GiveUp, Wait, Verify, Reopen, Write
<1>2. ASSUME NEW p \in Procs, UnlockStep(p) \/ Exit(p) PROVE MutexInv'
  BY <1>2 DEF UnlockStep, Truncate, Release, Close, Exit
<1>3. ASSUME Unlink PROVE MutexInv'
  BY <1>3 DEF Unlink
<1>4. ASSUME UNCHANGED vars PROVE MutexInv'
  BY <1>4 DEF vars
<1> QED BY <1>1, <1>2, <1>3, <1>4 DEF Next

\* The phase a label stands for.
PhaseOf(l, r) == CASE l \in Looping \ Verified -> "waiting"
                   [] l \in Verified -> IF r THEN "lost" ELSE "in"
                   [] OTHER -> "out"

\* A jump of p changes the phase of p alone.
LEMMA PhaseStep ==
    ASSUME TypeOK, NEW p \in Procs, NEW l, Goto(p, l), \A q \in Procs \ {p} : robbed'[q] = robbed[q]
    PROVE  /\ phaseBar' = [phaseBar EXCEPT ![p] = PhaseOf(l, robbed'[p])]
           /\ phaseBar[p] = PhaseOf(pc[p], robbed[p])
           /\ PhaseOf(l, robbed'[p]) = phaseBar[p] => phaseBar' = phaseBar
BY DEF Goto, TypeOK, phaseBar, PhaseOf

LEMMA MutexStep ==
    ASSUME MutexInv, [Next]_vars PROVE [Mutex!Next]_phaseBar
<1> DEFINE Stutter == phaseBar' = phaseBar
<1>0. TypeOK
  BY DEF MutexInv, Inv, TypeInv
<1> USE <1>0 DEF PhaseOf, Looping, Verified, Mutex!Move
<1>1. ASSUME NEW p \in Procs, Open(p) PROVE Mutex!Arrive(p) \/ Stutter
  <2>1. CASE Goto(p, "try")
    BY <1>1, <2>1, PhaseStep DEF Open, Mutex!Arrive
  <2>2. CASE Goto(p, "failed")
    BY <1>1, <2>2, PhaseStep DEF Open
  <2> QED BY <1>1, <2>1, <2>2 DEF Open
<1>2. ASSUME NEW p \in Procs, SetLk(p) \/ Wait(p) PROVE Stutter
  <2>1. PICK l \in {"verify", "wait", "try"} : Goto(p, l)
    BY <1>2 DEF SetLk, Wait
  <2> QED BY <1>2, <2>1, PhaseStep DEF SetLk, Wait
<1>3. ASSUME NEW p \in Procs, GiveUp(p) PROVE Mutex!GiveUp(p)
  BY <1>3, PhaseStep DEF GiveUp, Mutex!GiveUp
<1>4. ASSUME NEW p \in Procs, Verify(p) PROVE Mutex!Enter(p) \/ Stutter
  <2>1. CASE opened[p] = linked
    <3>1. ASSUME NEW q \in Procs, phaseBar[q] = "in" PROVE FALSE
      <4>1. pc[q] \in Verified /\ ~ robbed[q]
        BY <3>1 DEF phaseBar
      <4>2. opened[q] = linked
        BY <4>1 DEF MutexInv, Inv, VerifiedIsLinked
      <4>3. p = q
        BY <1>4, <2>1, <4>1, <4>2, OwnersDiffer DEF MutexInv, Verify, Owning
      <4> QED BY <1>4, <4>1, <4>3 DEF Verify
    <3>2. Goto(p, "write") /\ ~ robbed'[p]
      BY <1>4, <2>1 DEF Verify, MutexInv, RobbedIsInside
    <3> QED BY <1>4, <3>1, <3>2, PhaseStep DEF Verify, Mutex!Enter
  <2>2. CASE opened[p] # linked
    BY <1>4, <2>2, PhaseStep DEF Verify
  <2> QED BY <2>1, <2>2
<1>5. ASSUME NEW p \in Procs, Reopen(p) PROVE Mutex!GiveUp(p) \/ Stutter
  <2>1. PICK l \in {"try", "failed"} : Goto(p, l)
    BY <1>5 DEF Reopen
  <2> QED BY <1>5, <2>1, PhaseStep DEF Reopen, Mutex!GiveUp
<1>6. ASSUME NEW p \in Procs, Write(p) \/ Truncate(p) \/ Close(p) PROVE Stutter
  <2>1. PICK l \in {"held", "release", "idle"} : Goto(p, l)
    BY <1>6 DEF Write, Truncate, Close
  <2> QED BY <1>6, <2>1, PhaseStep DEF Write, Truncate, Close
<1>7. ASSUME NEW p \in Procs, Release(p) PROVE Mutex!Leave(p)
  <2>1. /\ Goto(p, "close") /\ pc[p] = "release"
        /\ \A q \in Procs \ {p} : robbed'[q] = robbed[q]
    BY <1>7 DEF Release
  <2>2. phaseBar[p] \in {"in", "lost"} /\ phaseBar' = [phaseBar EXCEPT ![p] = "out"]
    BY <2>1, PhaseStep
  <2> QED BY <2>2 DEF Mutex!Leave
<1>8. ASSUME NEW p \in Procs, Exit(p) PROVE Mutex!Leave(p) \/ Mutex!GiveUp(p) \/ Stutter
  <2>1. Goto(p, "idle") /\ \A q \in Procs \ {p} : robbed'[q] = robbed[q]
    BY <1>8 DEF Exit
  <2> QED BY <2>1, PhaseStep DEF Mutex!Leave, Mutex!GiveUp
<1>9. ASSUME Unlink PROVE (\E p \in Procs : Mutex!Lose(p)) \/ Stutter
  <2>1. CASE \A p \in Procs : robbed'[p] = robbed[p]
    BY <1>9, <2>1 DEF Unlink, phaseBar
  <2>2. ASSUME NEW p \in Procs, robbed'[p] # robbed[p] PROVE Mutex!Lose(p)
    <3>1. opened[p] = linked /\ pc[p] \in Verified /\ ~ robbed[p] /\ robbed'[p]
      BY <1>9, <2>2 DEF Unlink, TypeOK
    <3>2. ASSUME NEW q \in Procs \ {p} PROVE robbed'[q] = robbed[q]
      <4>1. ~ (opened[q] = linked /\ pc[q] \in Verified)
        BY <3>1, OwnersDiffer DEF MutexInv, Owning
      <4> QED BY <1>9, <4>1 DEF Unlink, TypeOK
    <3>3. Goto(p, pc[p]) /\ AllowUnlink
      BY <1>9 DEF Unlink, Goto, TypeOK
    <3> QED BY <3>1, <3>2, <3>3, PhaseStep DEF Mutex!Lose
  <2> QED BY <2>1, <2>2
<1>10. ASSUME UNCHANGED vars PROVE Stutter
  BY <1>10 DEF vars, phaseBar
<1> QED
  BY <1>1, <1>2, <1>3, <1>4, <1>5, <1>6, <1>7, <1>8, <1>9, <1>10
  DEF Next, LockStep, UnlockStep, Mutex!Next

\* Lock and Unlock implement the mutual exclusion of UnitMutex, whichever
\* invocations are killed and wherever, and whatever lock files are removed.
THEOREM RefinesMutex == Spec => MutexSpec
<1>1. Init => Mutex!Init
  BY DEF Init, Mutex!Init, phaseBar, Looping, Verified
<1>2. MutexInv /\ [Next]_vars => [Mutex!Next]_phaseBar
  BY MutexStep
<1> QED
  BY <1>1, <1>2, MutexInvInit, MutexInvStep, PTL DEF Spec, MutexSpec, Mutex!Spec

\* What UnitMutex promises excludes: no two invocations are between Lock and
\* Unlock together, and if no lock file is taken away nobody loses the lock.
THEOREM MutexExcludes == MutexSpec => [](Mutex!MutualExclusion /\ Mutex!NothingLost)
<1> DEFINE MInv == Mutex!TypeOK /\ Mutex!MutualExclusion /\ Mutex!NothingLost
<1>1. Mutex!Init => MInv
  BY DEF Mutex!Init, Mutex!TypeOK, Mutex!MutualExclusion, Mutex!NothingLost, Mutex!Phases
<1>2. MInv /\ [Mutex!Next]_phaseBar => MInv'
  <2> SUFFICES ASSUME MInv, [Mutex!Next]_phaseBar PROVE MInv'
    OBVIOUS
  <2> USE DEF Mutex!TypeOK, Mutex!MutualExclusion, Mutex!NothingLost, Mutex!Phases, Mutex!Move
  <2>1. ASSUME NEW p \in Procs, Mutex!Arrive(p) \/ Mutex!GiveUp(p) PROVE MInv'
    BY <2>1 DEF Mutex!Arrive, Mutex!GiveUp
  <2>2. ASSUME NEW p \in Procs, Mutex!Enter(p) PROVE MInv'
    BY <2>2 DEF Mutex!Enter
  <2>3. ASSUME NEW p \in Procs, Mutex!Lose(p) \/ Mutex!Leave(p) PROVE MInv'
    BY <2>3 DEF Mutex!Lose, Mutex!Leave
  <2>4. ASSUME UNCHANGED phaseBar PROVE MInv'
    BY <2>4
  <2> QED BY <2>1, <2>2, <2>3, <2>4 DEF Mutex!Next
<1> QED BY <1>1, <1>2, PTL DEF MutexSpec, Mutex!Spec

=============================================================================
