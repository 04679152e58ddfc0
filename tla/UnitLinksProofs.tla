--------------------------- MODULE UnitLinksProofs ---------------------------
(***************************************************************************)
(* Proofs about UnitLinks for any number of invocations, folders,          *)
(* directories and preset files: the types, and all the properties that    *)
(* the run unit_links checks.                                              *)
(***************************************************************************)
EXTENDS UnitLinks, TLAPS, WellFoundedInduction

\* What an invocation is doing and where.
ShapeAt(p) ==
    /\ At(p) \in {"mkdir", "lstat", "remove", "symlink"} => inv[p].op = "enable"
    /\ At(p) \in {"readdir", "readlink", "rm"} => inv[p].op = "disable" /\ inv[p].folder \in Folders
    /\ At(p) = "scan" => inv[p].op = "is-enabled"
    /\ At(p) \in {"lstat", "remove", "symlink"} => inv[p].here \in dirs
    /\ At(p) = "rm" => inv[p].here \in Places /\ links[inv[p].here] # "other"

ShapeInv == \A p \in Procs : ShapeAt(p)

\* Links are in directories.
DirsInv == \A l \in Places : links[l] # "none" => l \in dirs

TypeInv == TypeOK /\ ShapeInv /\ DirsInv

\* Places a disable has still to look at.
Later(p)   == {l \in Places : l[1] > inv[p].folder}
Pending(p) == CASE At(p) = "readdir"  -> {l \in Places : l[1] >= inv[p].folder}
                [] At(p) = "readlink" -> inv[p].todo \cup Later(p)
                [] At(p) = "rm"       -> inv[p].todo \cup Later(p) \cup {inv[p].here}
                [] OTHER              -> {}

\* The links of the unit are new, or a disable has still to look at them.
ClearAt(p) == At(p) # "idle" /\ inv[p].op = "disable" =>
                 \A l \in Places : links[l] = "own" => l \in seen[p].new \/ l \in Pending(p)

ClearInv == \A p \in Procs : ClearAt(p)

\* A place that has had a link all the time has one, and is still to be looked at.
AskAt(p) == /\ \A l \in seen[p].steady : links[l] # "none"
            /\ At(p) = "scan" => seen[p].steady \subseteq inv[p].todo
            /\ At(p) = "done" /\ inv[p].op = "is-enabled" =>
                  inv[p].answer \in {"enabled", "masked"} \/ seen[p].steady = {}

AskInv == \A p \in Procs : AskAt(p)

-----------------------------------------------------------------------------

LEMMA FoldersType == Folders \subseteq Nat /\ 1 \in Folders /\ Folders \subseteq 0..NFolders
BY LinksAssumption DEF Folders

LEMMA IdleType == Idle \in Invocation
BY LinksAssumption DEF Idle, Invocation, Labels

\* What is left of an invocation's memory by a step.
LEMMA GoesType ==
    ASSUME TypeOK, NEW p \in Procs, NEW todo, NEW here, NEW l, Goes(p, todo, here, l),
           todo \subseteq Places, here \in Places \/ here = None, l \in Labels
    PROVE  /\ inv' \in [Procs -> Invocation]
           /\ inv'[p].at = l /\ inv'[p].todo = todo /\ inv'[p].here = here
           /\ inv'[p].op = inv[p].op /\ inv'[p].folder = inv[p].folder
           /\ inv'[p].answer = inv[p].answer
           /\ \A q \in Procs \ {p} : inv'[q] = inv[q]
<1>1. inv \in [Procs -> Invocation] /\ inv[p] \in Invocation
  BY DEF TypeOK
<1> DEFINE v == [inv[p] EXCEPT !.todo = todo, !.here = here, !.at = l]
<1>2. /\ v \in Invocation
      /\ v.at = l /\ v.todo = todo /\ v.here = here
      /\ v.op = inv[p].op /\ v.folder = inv[p].folder /\ v.answer = inv[p].answer
  BY <1>1 DEF Invocation
<1>3. inv' = [inv EXCEPT ![p] = v]
  BY DEF Goes
<1> HIDE DEF v
<1> QED BY <1>1, <1>2, <1>3

LEMMA AnswerType ==
    ASSUME TypeOK, NEW p \in Procs, NEW a \in {"enabled", "disabled", "static", "masked"}, Answer(p, a)
    PROVE  /\ inv' \in [Procs -> Invocation]
           /\ inv'[p].at = "done" /\ inv'[p].answer = a /\ inv'[p].op = inv[p].op
           /\ \A q \in Procs \ {p} : inv'[q] = inv[q]
<1>1. inv \in [Procs -> Invocation] /\ inv[p] \in Invocation
  BY DEF TypeOK
<1> DEFINE v == [inv[p] EXCEPT !.answer = a, !.at = "done"]
<1>2. v \in Invocation /\ v.at = "done" /\ v.answer = a /\ v.op = inv[p].op
  BY <1>1 DEF Invocation, Labels
<1>3. inv' = [inv EXCEPT ![p] = v]
  BY DEF Answer
<1> HIDE DEF v
<1> QED BY <1>1, <1>2, <1>3

LEMMA NextFolderType ==
    ASSUME TypeInv, NEW p \in Procs, At(p) = "readlink", inv[p].folder < NFolders,
           inv' = [inv EXCEPT ![p] = [@ EXCEPT !.folder = inv[p].folder + 1, !.at = "readdir"]]
    PROVE  /\ inv' \in [Procs -> Invocation]
           /\ inv'[p].at = "readdir" /\ inv'[p].folder = inv[p].folder + 1
           /\ inv'[p].folder \in Folders /\ inv'[p].op = inv[p].op
           /\ \A q \in Procs \ {p} : inv'[q] = inv[q]
<1>1. inv \in [Procs -> Invocation] /\ inv[p] \in Invocation /\ inv[p].folder \in Folders
  BY DEF TypeInv, TypeOK, ShapeInv, ShapeAt
<1> DEFINE v == [inv[p] EXCEPT !.folder = inv[p].folder + 1, !.at = "readdir"]
<1>2. inv[p].folder + 1 \in Folders
  BY <1>1, LinksAssumption DEF Folders
<1>3. /\ v \in Invocation /\ v.at = "readdir" /\ v.folder = inv[p].folder + 1
      /\ v.op = inv[p].op
  BY <1>1, <1>2, FoldersType DEF Invocation, Labels
<1>4. inv' = [inv EXCEPT ![p] = v]
  OBVIOUS
<1> HIDE DEF v
<1> QED BY <1>1, <1>2, <1>3, <1>4

\* The first folder of some is one of them.
LEMMA FirstFolder == ASSUME NEW S \in SUBSET Folders, S # {} PROVE Min(S) \in S
<1>1. S \subseteq Nat
  BY FoldersType
<1>2. PICK f \in S : \A g \in S : ~ (<<g, f>> \in OpToRel(<, Nat))
  BY <1>1, WFMin, NatLessThanWellFounded
<1>3. ASSUME NEW g \in S PROVE f <= g
  <2>1. OpToRel(<, Nat) = {ss \in Nat \X Nat : ss[1] < ss[2]}
    BY Zenon DEF OpToRel
  <2>2. ~ (g < f)
    BY <1>1, <1>2, <2>1
  <2> QED BY <1>1, <2>2
<1> QED BY <1>3 DEF Min

\* A unit file that is found has a WantedBy= of known directories.
LEMMA ConfType == ASSUME TypeOK PROVE Conf \in Files
<1> DEFINE found == {f \in Folders : files[f].kind # "none"}
<1>1. CASE found = {}
  BY <1>1 DEF Conf, Files
<1>2. CASE found # {}
  <2>1. Min(found) \in Folders
    BY <1>2, FirstFolder
  <2> QED BY <1>2, <2>1 DEF Conf, TypeOK
<1> QED BY <1>1, <1>2

\* What the commands find at first.
LEMMA BeginType ==
    ASSUME TypeOK, NEW p \in Procs, Begin(p)
    PROVE  /\ inv' \in [Procs -> Invocation]
           /\ \A q \in Procs \ {p} : inv'[q] = inv[q]
           /\ \/ /\ inv'[p].at = "mkdir" /\ inv'[p].op = "enable"
                 /\ UNCHANGED seen
              \/ /\ inv'[p].at = "readdir" /\ inv'[p].op = "disable" /\ inv'[p].folder = 1
                 /\ UNCHANGED seen
              \/ /\ inv'[p].op = "is-enabled" /\ Asks(p)
                 /\ \/ inv'[p].at = "scan" /\ inv'[p].todo = Folders \X Common
                    \/ inv'[p].at = "done" /\ inv'[p].answer = "masked"
<1>1. inv \in [Procs -> Invocation]
  BY DEF TypeOK
<1>2. ASSUME NEW force \in BOOLEAN, BeginEnable(p, force)
      PROVE  /\ inv' \in [Procs -> Invocation]
             /\ \A q \in Procs \ {p} : inv'[q] = inv[q]
             /\ inv'[p].at = "mkdir" /\ inv'[p].op = "enable" /\ UNCHANGED seen
  <2> DEFINE v == [Idle EXCEPT !.at = "mkdir", !.op = "enable", !.force = force,
                               !.todo = {1} \X Conf.wants]
  <2>1. {1} \X Conf.wants \subseteq Places
    BY ConfType, FoldersType, <1>2 DEF BeginEnable, Places, Files
  <2>2. v \in Invocation /\ v.at = "mkdir" /\ v.op = "enable"
    BY <2>1, IdleType DEF Invocation, Labels, Ops
  <2>3. inv' = [inv EXCEPT ![p] = v] /\ UNCHANGED seen
    BY <1>2 DEF BeginEnable
  <2> HIDE DEF v
  <2> QED BY <1>1, <2>2, <2>3
<1>3. ASSUME BeginDisable(p)
      PROVE  /\ inv' \in [Procs -> Invocation]
             /\ \A q \in Procs \ {p} : inv'[q] = inv[q]
             /\ inv'[p].at = "readdir" /\ inv'[p].op = "disable" /\ inv'[p].folder = 1
             /\ UNCHANGED seen
  <2> DEFINE v == [Idle EXCEPT !.at = "readdir", !.op = "disable", !.folder = 1]
  <2>1. v \in Invocation /\ v.at = "readdir" /\ v.op = "disable" /\ v.folder = 1
    BY FoldersType, IdleType DEF Invocation, Labels, Ops
  <2>2. inv' = [inv EXCEPT ![p] = v] /\ UNCHANGED seen
    BY <1>3 DEF BeginDisable
  <2> HIDE DEF v
  <2> QED BY <1>1, <2>1, <2>2
<1>4. ASSUME BeginQuery(p)
      PROVE  /\ inv' \in [Procs -> Invocation]
             /\ \A q \in Procs \ {p} : inv'[q] = inv[q]
             /\ inv'[p].op = "is-enabled" /\ Asks(p)
             /\ \/ inv'[p].at = "scan" /\ inv'[p].todo = Folders \X Common
                \/ inv'[p].at = "done" /\ inv'[p].answer = "masked"
  <2>1. CASE Conf.kind = "mask"
    <3> DEFINE v == [Idle EXCEPT !.at = "done", !.op = "is-enabled", !.answer = "masked"]
    <3>1. v \in Invocation /\ v.at = "done" /\ v.op = "is-enabled" /\ v.answer = "masked"
      BY IdleType DEF Invocation, Labels, Ops
    <3>2. inv' = [inv EXCEPT ![p] = v] /\ Asks(p)
      BY <1>4, <2>1 DEF BeginQuery
    <3> HIDE DEF v
    <3> QED BY <1>1, <3>1, <3>2
  <2>2. CASE Conf.kind = "file"
    <3> DEFINE v == [Idle EXCEPT !.at = "scan", !.op = "is-enabled", !.wants = Conf.wants,
                                 !.todo = Folders \X Common]
    <3>1. Folders \X Common \subseteq Places /\ Conf.wants \subseteq Dirs
      BY ConfType, LinksAssumption DEF Places, Files
    <3>2. /\ v \in Invocation /\ v.at = "scan" /\ v.op = "is-enabled"
          /\ v.todo = Folders \X Common
      BY <3>1, IdleType DEF Invocation, Labels, Ops
    <3>3. inv' = [inv EXCEPT ![p] = v] /\ Asks(p)
      BY <1>4, <2>2 DEF BeginQuery
    <3> HIDE DEF v
    <3> QED BY <1>1, <3>2, <3>3
  <2> QED BY <1>4, <2>1, <2>2 DEF BeginQuery
<1> QED BY <1>2, <1>3, <1>4 DEF Begin

LEMMA IdleStep ==
    ASSUME TypeOK, NEW p \in Procs, inv' = [inv EXCEPT ![p] = Idle]
    PROVE  /\ inv' \in [Procs -> Invocation]
           /\ inv'[p].at = "idle" /\ inv'[p].op = "none"
           /\ \A q \in Procs \ {p} : inv'[q] = inv[q]
<1>1. inv \in [Procs -> Invocation] /\ Idle.at = "idle" /\ Idle.op = "none"
  BY DEF TypeOK, Idle
<1> QED BY <1>1, IdleType

LEMMA Memory ==
    ASSUME TypeOK, NEW p \in Procs
    PROVE  /\ inv[p].todo \subseteq Places /\ inv[p].here \in Places \cup {None}
           /\ inv[p].folder \in 0..NFolders
           /\ inv[p].op \in {"none", "enable", "disable", "is-enabled"} /\ inv[p].at \in Labels
BY DEF TypeOK, Invocation, Ops

LEMMA VanishesType ==
    ASSUME TypeOK, NEW l, Vanishes(l)
    PROVE  seen' \in [Procs -> [new : SUBSET Places, steady : SUBSET Places]]
BY DEF Vanishes, TypeOK

\* It is enough to look at the invocation that has made the step.
LEMMA ShapeStep ==
    ASSUME TypeInv, NEW p \in Procs, \A q \in Procs \ {p} : inv'[q] = inv[q],
           dirs \subseteq dirs', \A l \in Places : links'[l] = "other" => links[l] = "other",
           ShapeAt(p)'
    PROVE  ShapeInv'
BY DEF TypeInv, ShapeInv, ShapeAt, At

\* In most steps nothing but the invocation's memory changes of what matters here.
LEMMA MemoryStep ==
    ASSUME TypeInv, NEW p \in Procs, inv' \in [Procs -> Invocation],
           \A q \in Procs \ {p} : inv'[q] = inv[q], ShapeAt(p)', UNCHANGED <<world, links, dirs>>,
           promised' \subseteq Places, torn' \subseteq Places,
           seen' \in [Procs -> [new : SUBSET Places, steady : SUBSET Places]]
    PROVE  TypeInv'
<1>1. ShapeInv'
  BY ShapeStep
<1> QED BY <1>1 DEF TypeInv, TypeOK, DirsInv, world

LEMMA TypeInvInit == Init => TypeInv
<1> SUFFICES ASSUME Init PROVE TypeInv
  OBVIOUS
<1>1. inv \in [Procs -> Invocation] /\ \A p \in Procs : At(p) = "idle"
  BY IdleType DEF Init, At, Idle
<1>2. TypeOK
  BY <1>1, LinksAssumption DEF Init, TypeOK
<1>3. ShapeInv /\ DirsInv
  BY <1>1 DEF Init, ShapeInv, ShapeAt, DirsInv
<1> QED BY <1>2, <1>3 DEF TypeInv

LEMMA TypeInvStep == TypeInv /\ [Next]_vars => TypeInv'
<1> SUFFICES ASSUME TypeInv, [Next]_vars PROVE TypeInv'
  OBVIOUS
<1> USE DEF Labels
<1>0. TypeOK /\ ShapeInv /\ DirsInv
  BY DEF TypeInv
<1>1. CASE UNCHANGED vars
  BY <1>1 DEF vars, world, TypeInv, TypeOK, ShapeInv, ShapeAt, DirsInv, At
<1>2. ASSUME NEW p \in Procs, Begin(p) PROVE TypeInv'
  <2>1. seen' \in [Procs -> [new : SUBSET Places, steady : SUBSET Places]]
    <3>1. {l \in Folders \X Common : links[l] # "none"} \subseteq Places
      BY LinksAssumption DEF Places
    <3>2. UNCHANGED seen \/ Asks(p)
      BY <1>0, <1>2, BeginType
    <3>3. CASE Asks(p)
      BY <1>0, <3>1, <3>3 DEF TypeOK, Asks
    <3> QED BY <1>0, <3>2, <3>3 DEF TypeOK
  <2>2. ShapeAt(p)'
    BY <1>0, <1>2, BeginType, FoldersType DEF ShapeAt, At
  <2> QED BY <1>0, <1>2, <2>1, <2>2, BeginType, MemoryStep DEF TypeOK, Begin
<1>3. ASSUME NEW p \in Procs, End(p) \/ Crash(p) PROVE TypeInv'
  <2>1. /\ inv' \in [Procs -> Invocation] /\ inv'[p].at = "idle"
        /\ \A q \in Procs \ {p} : inv'[q] = inv[q]
    BY <1>0, <1>3, IdleStep DEF End, Crash
  <2>2. seen' \in [Procs -> [new : SUBSET Places, steady : SUBSET Places]]
    BY <1>0, <1>3 DEF TypeOK, End, Crash
  <2>3. torn' \subseteq Places
    <3>1. At(p) = "symlink" => inv[p].here \in Places
      BY <1>0 DEF ShapeInv, ShapeAt, TypeOK
    <3> QED BY <1>0, <1>3, <3>1 DEF TypeOK, End, Crash
  <2> QED BY <1>0, <1>3, <2>1, <2>2, <2>3, MemoryStep DEF TypeOK, End, Crash, ShapeAt, At
<1>4. ASSUME NEW p \in Procs, Mkdir(p) PROVE TypeInv'
  <2>1. PICK l \in inv[p].todo : Goes(p, inv[p].todo \ {l}, l, "lstat") /\ dirs' = dirs \cup {l}
    BY <1>4 DEF Mkdir
  <2>2. l \in Places /\ inv[p].todo \ {l} \subseteq Places
    BY <1>0, Memory
  <2>3. /\ inv' \in [Procs -> Invocation] /\ \A q \in Procs \ {p} : inv'[q] = inv[q]
        /\ inv'[p].at = "lstat" /\ inv'[p].op = inv[p].op /\ inv'[p].here = l
    <3> DEFINE todo == inv[p].todo \ {l}
    <3>1. todo \in SUBSET Places /\ Goes(p, todo, l, "lstat")
      BY <2>1, <2>2
    <3> HIDE DEF todo
    <3> QED BY <1>0, <2>2, <3>1, GoesType
  <2>4. ShapeInv'
    BY <1>0, <1>4, <2>1, <2>3, ShapeStep DEF Mkdir, ShapeInv, ShapeAt, At
  <2> QED BY <1>0, <1>4, <2>1, <2>2, <2>3, <2>4 DEF TypeInv, TypeOK, DirsInv, Mkdir, world
<1>5. ASSUME NEW p \in Procs, MkdirFails(p) \/ EnableEnds(p) PROVE TypeInv'
  <2>1. PICK todo \in SUBSET Places, here \in Places \cup {None}, l \in {"mkdir", "done"} :
                Goes(p, todo, here, l)
    <3>1. CASE MkdirFails(p)
      <4>1. PICK k \in inv[p].todo : Goes(p, inv[p].todo \ {k}, None, "mkdir")
        BY <3>1 DEF MkdirFails
      <4>2. inv[p].todo \ {k} \in SUBSET Places
        BY <1>0, Memory
      <4> QED BY <4>1, <4>2
    <3>2. CASE EnableEnds(p)
      BY <1>0, <3>2, Memory DEF EnableEnds, Goto
    <3> QED BY <1>5, <3>1, <3>2
  <2>2. /\ inv' \in [Procs -> Invocation] /\ \A q \in Procs \ {p} : inv'[q] = inv[q]
        /\ inv'[p].at \in {"mkdir", "done"} /\ inv'[p].op = inv[p].op
    BY <1>0, <2>1, GoesType
  <2>3. ShapeAt(p)'
    BY <1>0, <1>5, <2>2 DEF MkdirFails, EnableEnds, ShapeInv, ShapeAt, At
  <2> QED BY <1>0, <1>5, <2>2, <2>3, MemoryStep DEF TypeOK, MkdirFails, EnableEnds
<1>6. ASSUME NEW p \in Procs, Lstat(p) PROVE TypeInv'
  <2>1. PICK here \in Places \cup {None}, l \in {"symlink", "remove", "mkdir"} :
                /\ Goes(p, inv[p].todo, here, l)
                /\ l # "mkdir" => here = inv[p].here
    BY <1>0, <1>6, Memory DEF Lstat, Goto, Leave
  <2>2. /\ inv' \in [Procs -> Invocation] /\ \A q \in Procs \ {p} : inv'[q] = inv[q]
        /\ inv'[p].at \in {"symlink", "remove", "mkdir"} /\ inv'[p].op = inv[p].op
        /\ inv'[p].at # "mkdir" => inv'[p].here = inv[p].here
    BY <1>0, <2>1, Memory, GoesType
  <2>3. ShapeAt(p)'
    BY <1>0, <1>6, <2>2 DEF Lstat, ShapeInv, ShapeAt, At
  <2>4. inv[p].here \in Places
    BY <1>0, <1>6 DEF Lstat, ShapeInv, ShapeAt, TypeOK
  <2> QED BY <1>0, <1>6, <2>2, <2>3, <2>4, MemoryStep DEF TypeOK, Lstat
<1>7. ASSUME NEW p \in Procs, Remove(p) PROVE TypeInv'
  <2>1. inv[p].here \in Places /\ inv[p].here \in dirs /\ inv[p].op = "enable"
    BY <1>0, <1>7 DEF Remove, ShapeInv, ShapeAt, TypeOK
  <2>2. /\ inv' \in [Procs -> Invocation] /\ \A q \in Procs \ {p} : inv'[q] = inv[q]
        /\ inv'[p].at = "symlink" /\ inv'[p].op = "enable" /\ inv'[p].here = inv[p].here
    BY <1>0, <1>7, <2>1, Memory, GoesType DEF Remove, Goto
  <2>3. /\ links' \in [Places -> Links]
        /\ \A l \in Places : links'[l] # "none" => links'[l] = links[l]
    BY <1>0, <1>7, <2>1 DEF Remove, TypeOK, Links
  <2>4. seen' \in [Procs -> [new : SUBSET Places, steady : SUBSET Places]]
    BY <1>0, <1>7, VanishesType DEF Remove, TypeOK
  <2>5. ShapeInv'
    BY <1>7, <2>1, <2>2, <2>3, ShapeStep DEF Remove, ShapeAt, At
  <2> QED BY <1>0, <1>7, <2>2, <2>3, <2>4, <2>5 DEF TypeInv, TypeOK, DirsInv, Remove, world
<1>8. ASSUME NEW p \in Procs, Symlink(p) PROVE TypeInv'
  <2>1. inv[p].here \in Places /\ inv[p].here \in dirs /\ inv[p].op = "enable"
    BY <1>0, <1>8 DEF Symlink, ShapeInv, ShapeAt, TypeOK
  <2>2. /\ inv' \in [Procs -> Invocation] /\ \A q \in Procs \ {p} : inv'[q] = inv[q]
        /\ inv'[p].at = "mkdir" /\ inv'[p].op = "enable"
    BY <1>0, <1>8, <2>1, Memory, GoesType DEF Symlink, Leave
  <2>3. /\ links' \in [Places -> Links]
        /\ \A l \in Places : links'[l] = links[l] \/ (l \in dirs /\ links'[l] = "own")
    BY <1>0, <1>8, <2>1 DEF Symlink, TypeOK, Links
  <2>4. seen' \in [Procs -> [new : SUBSET Places, steady : SUBSET Places]]
    <3>1. CASE links[inv[p].here] = "none"
      <4> DEFINE w(q) == [seen[q] EXCEPT !.new = IF inv[q].op = "disable"
                                                   THEN seen[q].new \cup {inv[p].here}
                                                   ELSE seen[q].new]
      <4>1. ASSUME NEW q \in Procs PROVE w(q) \in [new : SUBSET Places, steady : SUBSET Places]
        BY <1>0, <2>1 DEF TypeOK
      <4>2. seen' = [q \in Procs |-> w(q)]
        BY <1>8, <3>1 DEF Symlink
      <4> HIDE DEF w
      <4> QED BY <4>1, <4>2
    <3>2. CASE links[inv[p].here] # "none"
      BY <1>0, <1>8, <3>2 DEF Symlink, TypeOK
    <3> QED BY <3>1, <3>2
  <2>5. ShapeInv'
    BY <1>8, <2>2, <2>3, ShapeStep DEF Symlink, ShapeAt, At
  <2> QED BY <1>0, <1>8, <2>1, <2>2, <2>3, <2>4, <2>5 DEF TypeInv, TypeOK, DirsInv, Symlink, world
<1>9. ASSUME NEW p \in Procs, SymlinkFails(p) PROVE TypeInv'
  <2>1. inv[p].here \in Places /\ inv[p].op = "enable"
    BY <1>0, <1>9 DEF SymlinkFails, ShapeInv, ShapeAt, TypeOK
  <2>2. /\ inv' \in [Procs -> Invocation] /\ \A q \in Procs \ {p} : inv'[q] = inv[q]
        /\ inv'[p].at = "mkdir" /\ inv'[p].op = "enable"
    BY <1>0, <1>9, <2>1, Memory, GoesType DEF SymlinkFails, Leave
  <2> QED BY <1>0, <1>9, <2>1, <2>2, MemoryStep DEF TypeOK, SymlinkFails, ShapeAt, At
<1>10. ASSUME NEW p \in Procs, ReadDir(p) PROVE TypeInv'
  <2>1. /\ inv' \in [Procs -> Invocation] /\ \A q \in Procs \ {p} : inv'[q] = inv[q]
        /\ inv'[p].at = "readlink" /\ inv'[p].op = inv[p].op /\ inv'[p].folder = inv[p].folder
    <3>1. dirs \cap ({inv[p].folder} \X Dirs) \in SUBSET Places
      BY <1>0 DEF TypeOK
    <3> QED BY <1>0, <1>10, <3>1, GoesType DEF ReadDir
  <2>2. ShapeAt(p)'
    BY <1>0, <1>10, <2>1 DEF ReadDir, ShapeInv, ShapeAt, At
  <2> QED BY <1>0, <1>10, <2>1, <2>2, MemoryStep DEF TypeOK, ReadDir
<1>11. ASSUME NEW p \in Procs, ReadLink(p) PROVE TypeInv'
  <2>1. PICK l \in inv[p].todo :
           \/ links[l] = "own" /\ Goes(p, inv[p].todo \ {l}, l, "rm")
           \/ Goes(p, inv[p].todo \ {l}, None, "readlink")
    BY <1>11 DEF ReadLink
  <2>2. l \in Places /\ inv[p].todo \ {l} \subseteq Places
    BY <1>0, Memory
  <2>3. /\ inv' \in [Procs -> Invocation] /\ \A q \in Procs \ {p} : inv'[q] = inv[q]
        /\ inv'[p].at \in {"readlink", "rm"}
        /\ inv'[p].op = inv[p].op /\ inv'[p].folder = inv[p].folder
        /\ inv'[p].at = "rm" => inv'[p].here = l /\ links[l] = "own"
    <3> DEFINE todo == inv[p].todo \ {l}
    <3>0. todo \in SUBSET Places
      BY <2>2
    <3>1. CASE links[l] = "own" /\ Goes(p, todo, l, "rm")
      <4> HIDE DEF todo
      <4> QED BY <1>0, <2>2, <3>0, <3>1, GoesType
    <3>2. CASE Goes(p, todo, None, "readlink")
      <4> HIDE DEF todo
      <4> QED BY <1>0, <3>0, <3>2, GoesType
    <3> QED BY <2>1, <3>1, <3>2
  <2>4. ShapeAt(p)'
    BY <1>0, <1>11, <2>2, <2>3 DEF ReadLink, ShapeInv, ShapeAt, At
  <2> QED BY <1>0, <1>11, <2>3, <2>4, MemoryStep DEF TypeOK, ReadLink
<1>12. ASSUME NEW p \in Procs, FolderDone(p) PROVE TypeInv'
  <2>1. /\ inv' \in [Procs -> Invocation] /\ \A q \in Procs \ {p} : inv'[q] = inv[q]
        /\ \/ inv'[p].at = "readdir" /\ inv'[p].folder \in Folders /\ inv'[p].op = inv[p].op
           \/ inv'[p].at = "done"
    <3>1. CASE inv[p].folder < NFolders
      BY <1>0, <1>12, <3>1, NextFolderType DEF FolderDone
    <3>2. CASE ~ (inv[p].folder < NFolders)
      BY <1>0, <1>12, <3>2, Memory, GoesType DEF FolderDone, Goto
    <3> QED BY <3>1, <3>2
  <2>2. ShapeAt(p)'
    BY <1>0, <1>12, <2>1 DEF FolderDone, ShapeInv, ShapeAt, At
  <2> QED BY <1>0, <1>12, <2>1, <2>2, MemoryStep DEF TypeOK, FolderDone
<1>13. ASSUME NEW p \in Procs, Rm(p) PROVE TypeInv'
  <2>1. inv[p].here \in Places /\ inv[p].op = "disable" /\ inv[p].folder \in Folders
    BY <1>0, <1>13 DEF Rm, ShapeInv, ShapeAt, TypeOK
  <2>2. /\ inv' \in [Procs -> Invocation] /\ \A q \in Procs \ {p} : inv'[q] = inv[q]
        /\ inv'[p].at = "readlink" /\ inv'[p].op = inv[p].op /\ inv'[p].folder = inv[p].folder
    BY <1>0, <1>13, <2>1, Memory, GoesType DEF Rm, Leave
  <2>3. /\ links' \in [Places -> Links]
        /\ \A l \in Places : links'[l] # "none" => links'[l] = links[l]
    BY <1>0, <1>13, <2>1 DEF Rm, TypeOK, Links
  <2>4. seen' \in [Procs -> [new : SUBSET Places, steady : SUBSET Places]]
    <3>1. CASE Vanishes(inv[p].here)
      BY <1>0, <3>1, VanishesType
    <3>2. CASE seen' = [seen EXCEPT ![p].new = @ \cup {inv[p].here}]
      BY <1>0, <2>1, <3>2 DEF TypeOK
    <3> QED BY <1>13, <3>1, <3>2 DEF Rm
  <2>5. ShapeInv'
    BY <1>13, <2>1, <2>2, <2>3, ShapeStep DEF Rm, ShapeAt, At
  <2> QED BY <1>0, <1>13, <2>2, <2>3, <2>4, <2>5 DEF TypeInv, TypeOK, DirsInv, Rm, world
<1>14. ASSUME NEW p \in Procs, QueryStep(p) PROVE TypeInv'
  <2>1. /\ inv' \in [Procs -> Invocation] /\ \A q \in Procs \ {p} : inv'[q] = inv[q]
        /\ inv'[p].at \in {"scan", "done"} /\ inv'[p].op = inv[p].op
    <3>1. CASE Scan(p)
      BY <1>0, <3>1, Memory, GoesType, AnswerType DEF Scan
    <3>2. CASE ScanEnds(p)
      <4>1. \E a \in {"enabled", "disabled", "static", "masked"} : Answer(p, a)
        BY <3>2 DEF ScanEnds
      <4> QED BY <1>0, <4>1, AnswerType
    <3> QED BY <1>14, <3>1, <3>2 DEF QueryStep
  <2>2. ShapeAt(p)'
    BY <1>0, <1>14, <2>1 DEF QueryStep, Scan, ScanEnds, ShapeInv, ShapeAt, At
  <2> QED BY <1>0, <1>14, <2>1, <2>2, MemoryStep DEF TypeOK, QueryStep, Scan, ScanEnds
<1> QED
  BY <1>1, <1>2, <1>3, <1>4, <1>5, <1>6, <1>7, <1>8, <1>9, <1>10, <1>11, <1>12, <1>13, <1>14
     DEF Next, EnableStep, DisableStep

\* The types; who works on a link has its directory, and what a disable removes is
\* not what somebody else had put there.
THEOREM TypeCorrectness == Spec => []TypeOK
<1>1. Spec => []TypeInv
  BY TypeInvInit, TypeInvStep, PTL DEF Spec
<1>2. TypeInv => TypeOK
  BY DEF TypeInv
<1> QED BY <1>1, <1>2, PTL

-----------------------------------------------------------------------------

Step(p) == Begin(p) \/ EnableStep(p) \/ DisableStep(p) \/ QueryStep(p) \/ End(p) \/ Crash(p)

\* What a step of one invocation does to what the others remember: their memory
\* stays, a new link is noted for every disable, and a place that becomes empty is
\* struck out of what has had a link all the time.
LEMMA Frame ==
    ASSUME TypeInv, NEW p \in Procs, Step(p)
    PROVE  /\ \A q \in Procs \ {p} : /\ inv'[q] = inv[q]
                                   /\ seen[q].new \subseteq seen'[q].new
                                   /\ seen'[q].steady \subseteq seen[q].steady
           /\ \A l \in Places : links'[l] = "own" /\ links[l] # "own" =>
                 At(p) = "symlink" /\ \A q \in Procs : inv[q].op = "disable" => l \in seen'[q].new
           /\ \A l \in Places : links[l] # "none" /\ links'[l] = "none" =>
                 At(p) \in {"remove", "rm"} /\ \A q \in Procs : l \notin seen'[q].steady
<1>0. /\ inv \in [Procs -> Invocation] /\ links \in [Places -> Links]
      /\ seen \in [Procs -> [new : SUBSET Places, steady : SUBSET Places]]
  BY DEF TypeInv, TypeOK
<1>1. CASE Begin(p)
  BY <1>0, <1>1, BeginType DEF TypeInv, Begin, Asks
<1>2. CASE End(p) \/ Crash(p)
  BY <1>0, <1>2 DEF End, Crash
<1>3. CASE Mkdir(p) \/ MkdirFails(p) \/ EnableEnds(p) \/ Lstat(p) \/ SymlinkFails(p)
  BY <1>0, <1>3 DEF Mkdir, MkdirFails, EnableEnds, Lstat, SymlinkFails, Goto, Leave, Goes
<1>4. CASE Remove(p)
  BY <1>0, <1>4 DEF Remove, Vanishes, Goto, Goes
<1>5. CASE Symlink(p)
  <2>1. At(p) = "symlink" /\ \A q \in Procs \ {p} : inv'[q] = inv[q]
    BY <1>0, <1>5 DEF Symlink, Leave, Goes
  <2>2. CASE links[inv[p].here] = "none"
    <3>1. \A l \in Places : links'[l] = links[l] \/ (l = inv[p].here /\ links'[l] = "own")
      BY <1>0, <1>5, <2>2 DEF Symlink
    <3>2. \A q \in Procs : /\ seen'[q].steady = seen[q].steady
                           /\ seen[q].new \subseteq seen'[q].new
                           /\ inv[q].op = "disable" => inv[p].here \in seen'[q].new
      BY <1>0, <1>5, <2>2 DEF Symlink
    <3>3. ASSUME NEW l \in Places, links'[l] = "own", links[l] # "own"
          PROVE  \A q \in Procs : inv[q].op = "disable" => l \in seen'[q].new
      BY <3>1, <3>2, <3>3
    <3>4. ASSUME NEW l \in Places, links[l] # "none" PROVE links'[l] # "none"
      BY <3>1, <3>4
    <3> QED BY <2>1, <3>2, <3>3, <3>4
  <2>3. CASE links[inv[p].here] # "none"
    <3>1. links' = links /\ seen' = seen
      BY <1>5, <2>3 DEF Symlink
    <3> QED BY <2>1, <3>1
  <2> QED BY <2>2, <2>3
<1>6. CASE ReadDir(p) \/ ReadLink(p) \/ FolderDone(p)
  BY <1>0, <1>6 DEF ReadDir, ReadLink, FolderDone, Goto, Goes
<1>7. CASE Rm(p)
  BY <1>0, <1>7 DEF Rm, Vanishes, Leave, Goes
<1>8. CASE QueryStep(p)
  BY <1>0, <1>8 DEF QueryStep, Scan, ScanEnds, Answer, Goes
<1> QED BY <1>1, <1>2, <1>3, <1>4, <1>5, <1>6, <1>7, <1>8 DEF Step, EnableStep, DisableStep

\* The command of an invocation stays the same while it runs.
LEMMA OpStays ==
    ASSUME TypeOK, NEW p \in Procs, EnableStep(p) \/ DisableStep(p) \/ QueryStep(p)
    PROVE  inv'[p].op = inv[p].op
<1>1. ASSUME NEW todo, NEW here, NEW l, Goes(p, todo, here, l) PROVE inv'[p].op = inv[p].op
  BY <1>1 DEF TypeOK, Invocation, Goes
<1>2. ASSUME NEW a, Answer(p, a) PROVE inv'[p].op = inv[p].op
  BY <1>2 DEF TypeOK, Invocation, Answer
<1>3. CASE Mkdir(p) \/ MkdirFails(p)
  BY <1>1, <1>3 DEF Mkdir, MkdirFails
<1>4. CASE EnableEnds(p) \/ Lstat(p) \/ Remove(p) \/ Symlink(p) \/ SymlinkFails(p)
  BY <1>1, <1>4 DEF EnableEnds, Lstat, Remove, Symlink, SymlinkFails, Goto, Leave
<1>5. CASE QueryStep(p)
  BY <1>1, <1>2, <1>5 DEF QueryStep, Scan, ScanEnds
<1>6. CASE DisableStep(p)
  <2>1. CASE FolderDone(p) /\ inv[p].folder < NFolders
    <3> DEFINE v == [inv[p] EXCEPT !.folder = inv[p].folder + 1, !.at = "readdir"]
    <3>1. inv \in [Procs -> Invocation] /\ inv' = [inv EXCEPT ![p] = v]
      BY <2>1 DEF FolderDone, TypeOK
    <3>2. v.op = inv[p].op
      BY <3>1 DEF Invocation
    <3> HIDE DEF v
    <3> QED BY <3>1, <3>2
  <2>2. CASE FolderDone(p) /\ ~ (inv[p].folder < NFolders)
    BY <1>1, <2>2 DEF FolderDone, Goto
  <2>3. CASE ReadDir(p) \/ ReadLink(p) \/ Rm(p)
    BY <1>1, <2>3 DEF ReadDir, ReadLink, Rm, Leave
  <2> QED BY <1>6, <2>1, <2>2, <2>3 DEF DisableStep
<1> QED BY <1>3, <1>4, <1>5, <1>6 DEF EnableStep

\* Nothing but a question adds to the places that have had a link all the time.
LEMMA SteadyShrinks ==
    ASSUME TypeOK, NEW p \in Procs, EnableStep(p) \/ DisableStep(p)
    PROVE  seen'[p].steady \subseteq seen[p].steady
<1>1. CASE Remove(p)
  BY <1>1 DEF Remove, Vanishes, TypeOK
<1>2. CASE Symlink(p)
  BY <1>2 DEF Symlink, TypeOK
<1>3. CASE Rm(p)
  BY <1>3 DEF Rm, Vanishes, TypeOK
<1>4. CASE UNCHANGED seen
  BY <1>4
<1> QED BY <1>1, <1>2, <1>3, <1>4
        DEF EnableStep, DisableStep, Mkdir, MkdirFails, EnableEnds, Lstat, SymlinkFails, ReadDir,
            ReadLink, FolderDone

LEMMA Steps == ASSUME [Next]_vars PROVE UNCHANGED vars \/ \E p \in Procs : Step(p)
BY DEF Next, Step

\* A place that was promised keeps its link, or somebody is about to make it.
LEMMA LinkStaysStep == TypeInv /\ LinkStays /\ [Next]_vars => LinkStays'
<1> SUFFICES ASSUME TypeInv, LinkStays, [Next]_vars PROVE LinkStays'
  OBVIOUS
<1>0. TypeOK /\ ShapeInv
  BY DEF TypeInv
<1>1. CASE UNCHANGED vars
  BY <1>1 DEF vars, LinkStays, At
<1>2. ASSUME NEW p \in Procs, Step(p) PROVE LinkStays'
  <2>0. \A q \in Procs \ {p} : inv'[q] = inv[q]
    BY <1>2, Frame
  <2>1. CASE At(p) # "symlink" /\ UNCHANGED <<links, promised, torn>>
    BY <2>0, <2>1 DEF LinkStays, At
  <2>2. CASE Crash(p)
    BY <2>0, <2>2 DEF Crash, LinkStays, At
  <2>3. CASE Lstat(p)
    BY <2>0, <2>3 DEF Lstat, LinkStays, At
  <2>4. CASE Remove(p)
    <3>1. inv'[p].at = "symlink" /\ inv'[p].here = inv[p].here
      BY <1>0, <2>4, Memory, GoesType DEF Remove, Goto, Labels
    <3>2. inv[p].here \in Places /\ UNCHANGED <<promised, torn>> /\ At(p) = "remove"
      BY <1>0, <2>4 DEF Remove, ShapeInv, ShapeAt, TypeOK
    <3>3. ASSUME NEW l \in promised, l # inv[p].here PROVE links'[l] = links[l]
      BY <1>0, <2>4, <3>2, <3>3 DEF Remove, TypeOK
    <3>4. ASSUME NEW l \in promised, l = inv[p].here, links'[l] = "none"
          PROVE  At(p)' = "symlink" /\ inv'[p].here = l
      BY <3>1, <3>4 DEF At
    <3> QED BY <2>0, <3>2, <3>3, <3>4 DEF LinkStays, At
  <2>5. CASE Symlink(p)
    <3>1. inv[p].here \in Places /\ links'[inv[p].here] # "none"
      BY <1>0, <2>5 DEF Symlink, ShapeInv, ShapeAt, TypeOK
    <3>2. /\ promised' \subseteq promised \cup {inv[p].here}
          /\ torn \subseteq torn' \cup {inv[p].here}
          /\ \A l \in Places \ {inv[p].here} : links'[l] = links[l]
      BY <1>0, <2>5 DEF Symlink, TypeOK
    <3>3. promised' \subseteq Places
      BY <1>0, <3>1, <3>2 DEF TypeOK
    <3> QED BY <1>2, <2>0, <3>1, <3>2, <3>3 DEF LinkStays, At
  <2>6. CASE SymlinkFails(p)
    BY <2>0, <2>6 DEF SymlinkFails, LinkStays, At
  <2>7. CASE Rm(p)
    <3>1. inv[p].here \in Places /\ At(p) = "rm"
      BY <1>0, <2>7 DEF Rm, ShapeInv, ShapeAt, TypeOK
    <3>2. torn' = torn /\ \A l \in promised' : l \in promised /\ links'[l] = links[l]
      BY <1>0, <2>7, <3>1 DEF Rm, TypeOK
    <3> QED BY <2>0, <3>1, <3>2 DEF LinkStays, At
  <2>8. CASE Begin(p) \/ End(p) \/ Mkdir(p) \/ MkdirFails(p) \/ EnableEnds(p)
             \/ ReadDir(p) \/ ReadLink(p) \/ FolderDone(p) \/ QueryStep(p)
    BY <2>1, <2>8 DEF Begin, End, Mkdir, MkdirFails, EnableEnds, ReadDir, ReadLink, FolderDone,
                      QueryStep, Scan, ScanEnds
  <2> QED BY <1>2, <2>2, <2>3, <2>4, <2>5, <2>6, <2>7, <2>8 DEF Step, EnableStep, DisableStep
<1> QED BY <1>1, <1>2, Steps

\* Where an enable has found or made a link, it stays until a disable removes it.
THEOREM LinksStay == Spec => []LinkStays
<1>1. Init => LinkStays
  BY DEF Init, LinkStays
<1>2. Spec => []TypeInv
  BY TypeInvInit, TypeInvStep, PTL DEF Spec
<1> QED BY <1>1, <1>2, LinkStaysStep, PTL DEF Spec

-----------------------------------------------------------------------------

\* A disable that has looked at a folder has left no link there but new ones.
LEMMA ClearStep == TypeInv /\ ClearInv /\ [Next]_vars => ClearInv'
<1> SUFFICES ASSUME TypeInv, ClearInv, [Next]_vars PROVE ClearInv'
  OBVIOUS
<1>0. TypeOK /\ ShapeInv /\ DirsInv
  BY DEF TypeInv
<1>1. CASE UNCHANGED vars
  BY <1>1 DEF vars, ClearInv, ClearAt, Pending, Later, At
<1>2. ASSUME NEW p \in Procs, Step(p) PROVE ClearInv'
  <2>1. ASSUME NEW q \in Procs \ {p} PROVE ClearAt(q)'
    <3>1. inv'[q] = inv[q] /\ seen[q].new \subseteq seen'[q].new
      BY <1>2, Frame
    <3>2. Pending(q)' = Pending(q)
      BY <3>1 DEF Pending, Later, At
    <3>3. ASSUME NEW l \in Places, links'[l] = "own", inv[q].op = "disable"
          PROVE  links[l] = "own" \/ l \in seen'[q].new
      BY <1>2, <3>3, Frame
    <3> QED BY <3>1, <3>2, <3>3 DEF ClearInv, ClearAt, At
  <2>2. ClearAt(p)'
    <3>1. CASE Begin(p)
      <4>1. CASE inv'[p].at = "readdir" /\ inv'[p].folder = 1
        <5>1. Pending(p)' = Places
          BY <4>1 DEF Pending, At, Places, Folders
        <5> QED BY <5>1 DEF ClearAt
      <4>2. CASE inv'[p].op # "disable"
        BY <4>2 DEF ClearAt
      <4> QED BY <1>0, <3>1, <4>1, <4>2, BeginType
    <3>2. CASE End(p) \/ Crash(p)
      BY <1>0, <3>2, IdleStep DEF End, Crash, ClearAt, At
    <3>3. CASE EnableStep(p)
      <4>1. inv[p].op = "enable"
        BY <1>0, <3>3 DEF EnableStep, Mkdir, MkdirFails, EnableEnds, Lstat, Remove, Symlink, SymlinkFails,
                          ShapeInv, ShapeAt
      <4>2. inv'[p].op = inv[p].op
        BY <1>0, <3>3, OpStays DEF EnableStep
      <4> QED BY <4>1, <4>2 DEF ClearAt
    <3>4. CASE ReadDir(p)
      <4> DEFINE todo == dirs \cap ({inv[p].folder} \X Dirs)
      <4>1. inv'[p].at = "readlink" /\ inv'[p].todo = todo /\ inv'[p].folder = inv[p].folder
        <5>1. todo \subseteq Places /\ Goes(p, todo, None, "readlink")
          BY <1>0, <3>4 DEF ReadDir, TypeOK
        <5> QED BY <1>0, <5>1, GoesType DEF Labels
      <4>2. ASSUME NEW l \in Places, links[l] = "own", l[1] >= inv[p].folder
            PROVE  l \in Pending(p)'
        <5>1. l \in dirs /\ inv[p].folder \in Folders
          BY <1>0, <3>4, <4>2 DEF DirsInv, ReadDir, ShapeInv, ShapeAt
        <5>2. PICK f \in Folders, d \in Dirs : l = <<f, d>>
          BY DEF Places
        <5>3. CASE f = inv[p].folder
          <6>1. l \in todo
            BY <5>1, <5>2, <5>3
          <6> QED BY <4>1, <6>1 DEF Pending, At
        <5>4. CASE f # inv[p].folder
          <6>1. l[1] > inv[p].folder
            <7>1. l[1] = f
              BY <5>2
            <7>2. f \in Nat /\ inv[p].folder \in Nat
              BY <5>1, <5>2, FoldersType
            <7>3. f >= inv[p].folder
              BY <4>2, <7>1
            <7>4. f > inv[p].folder
              BY <5>4, <7>2, <7>3
            <7> QED BY <7>1, <7>4
          <6> QED BY <4>1, <6>1 DEF Pending, Later, At
        <5> QED BY <5>3, <5>4
      <4> QED BY <3>4, <4>1, <4>2, <1>0 DEF ReadDir, ClearInv, ClearAt, Pending, At, ShapeInv, ShapeAt
    <3>5. CASE ReadLink(p)
      <4>1. PICK k \in inv[p].todo :
               \/ links[k] = "own" /\ Goes(p, inv[p].todo \ {k}, k, "rm")
               \/ links[k] # "own" /\ Goes(p, inv[p].todo \ {k}, None, "readlink")
        BY <3>5 DEF ReadLink
      <4>2. k \in Places /\ inv[p].todo \ {k} \subseteq Places
        BY <1>0, Memory
      <4>3. /\ inv'[p].todo = inv[p].todo \ {k} /\ inv'[p].folder = inv[p].folder
            /\ \/ inv'[p].at = "rm" /\ inv'[p].here = k
               \/ inv'[p].at = "readlink" /\ links[k] # "own"
        BY <1>0, <4>1, <4>2, GoesType DEF Labels
      <4>4. ASSUME NEW l \in Places, links[l] = "own", l \in Pending(p) PROVE l \in Pending(p)'
        BY <3>5, <4>3, <4>4 DEF ReadLink, Pending, Later, At
      <4> QED BY <1>0, <3>5, <4>4 DEF ReadLink, ClearInv, ClearAt, At, ShapeInv, ShapeAt
    <3>6. CASE FolderDone(p)
      <4>1. inv[p].folder \in Folders /\ inv[p].op = "disable" /\ Pending(p) = Later(p)
        BY <1>0, <3>6 DEF FolderDone, ShapeInv, ShapeAt, Pending, At
      <4>2. CASE inv[p].folder < NFolders
        <5>1. inv'[p].at = "readdir" /\ inv'[p].folder = inv[p].folder + 1
          BY <3>6, <4>2, NextFolderType DEF FolderDone
        <5>2. Later(p) \subseteq Pending(p)'
          BY <4>1, <5>1, FoldersType DEF Later, Pending, At, Places
        <5> QED BY <3>6, <4>1, <5>2 DEF FolderDone, ClearInv, ClearAt, At
      <4>3. CASE ~ (inv[p].folder < NFolders)
        <5>1. Later(p) = {}
          BY <4>1, <4>3, LinksAssumption DEF Later, Places, Folders
        <5> QED BY <3>6, <4>1, <5>1 DEF FolderDone, ClearInv, ClearAt, At
      <4> QED BY <4>2, <4>3
    <3>7. CASE Rm(p)
      <4>1. /\ inv'[p].at = "readlink" /\ inv'[p].todo = inv[p].todo
            /\ inv'[p].folder = inv[p].folder
        BY <1>0, <3>7, Memory, GoesType DEF Rm, Leave, Labels
      <4>2. inv[p].here \in Places /\ inv[p].op = "disable"
        BY <1>0, <3>7 DEF Rm, ShapeInv, ShapeAt, TypeOK
      <4>3. /\ seen[p].new \subseteq seen'[p].new
            /\ \A l \in Places : links'[l] = "own" => links[l] = "own"
            /\ links'[inv[p].here] = "own" => inv[p].here \in seen'[p].new
        BY <1>0, <3>7, <4>2 DEF Rm, Vanishes, TypeOK
      <4>4. Pending(p) = Pending(p)' \cup {inv[p].here}
        BY <3>7, <4>1 DEF Rm, Pending, Later, At
      <4> QED BY <3>7, <4>2, <4>3, <4>4 DEF Rm, ClearInv, ClearAt, At
    <3>8. CASE QueryStep(p)
      <4>1. inv[p].op = "is-enabled"
        BY <1>0, <3>8 DEF QueryStep, Scan, ScanEnds, ShapeInv, ShapeAt
      <4>2. inv'[p].op = inv[p].op
        BY <1>0, <3>8, OpStays
      <4> QED BY <4>1, <4>2 DEF ClearAt
    <3> QED BY <1>2, <3>1, <3>2, <3>3, <3>4, <3>5, <3>6, <3>7, <3>8 DEF Step, DisableStep
  <2> QED BY <2>1, <2>2 DEF ClearInv
<1> QED BY <1>1, <1>2, Steps

\* A disable that comes to its end leaves no link of the unit but new ones.
THEOREM DisableLeavesNothing == Spec => []DisableClears
<1>1. Init => ClearInv
  BY DEF Init, ClearInv, ClearAt, At, Idle
<1>2. Spec => []TypeInv
  BY TypeInvInit, TypeInvStep, PTL DEF Spec
<1>3. ClearInv => DisableClears
  BY DEF ClearInv, ClearAt, DisableClears, Pending, At
<1> QED BY <1>1, <1>2, <1>3, ClearStep, PTL DEF Spec

-----------------------------------------------------------------------------

\* is-enabled has not passed over a place that has had a link all the time.
LEMMA AskStep == TypeInv /\ AskInv /\ [Next]_vars => AskInv'
<1> SUFFICES ASSUME TypeInv, AskInv, [Next]_vars PROVE AskInv'
  OBVIOUS
<1>0. TypeOK /\ ShapeInv
  BY DEF TypeInv
<1>1. CASE UNCHANGED vars
  BY <1>1 DEF vars, AskInv, AskAt, At
<1>2. ASSUME NEW p \in Procs, Step(p) PROVE AskInv'
  <2>0. ASSUME NEW q \in Procs, seen'[q].steady \subseteq seen[q].steady,
               NEW l \in seen'[q].steady
        PROVE  links'[l] # "none"
    <3>1. l \in Places /\ links[l] # "none"
      BY <1>0, <2>0 DEF AskInv, AskAt, TypeOK
    <3> QED BY <1>2, <2>0, <3>1, Frame
  <2>1. ASSUME NEW q \in Procs \ {p} PROVE AskAt(q)'
    <3>1. inv'[q] = inv[q] /\ seen'[q].steady \subseteq seen[q].steady
      BY <1>2, Frame
    <3> QED BY <2>0, <3>1 DEF AskInv, AskAt, At
  <2>2. AskAt(p)'
    <3>1. CASE Begin(p)
      <4>1. CASE seen' = seen /\ inv'[p].at \in {"mkdir", "readdir"}
        BY <2>0, <4>1 DEF AskAt, At
      <4>2. CASE Asks(p) /\ inv'[p].op = "is-enabled"
        <5>1. /\ seen'[p].steady = {l \in Folders \X Common : links[l] # "none"}
              /\ links' = links
          BY <1>0, <3>1, <4>2 DEF Asks, Begin, TypeOK
        <5> QED BY <1>0, <3>1, <4>2, <5>1, BeginType DEF AskAt, At
      <4> QED BY <1>0, <3>1, <4>1, <4>2, BeginType
    <3>2. CASE End(p) \/ Crash(p)
      <4>1. inv'[p].at = "idle"
        BY <1>0, <3>2, IdleStep DEF End, Crash
      <4>2. seen'[p].steady = {}
        BY <1>0, <3>2 DEF End, Crash, TypeOK
      <4> QED BY <4>1, <4>2 DEF AskAt, At
    <3>3. CASE EnableStep(p) \/ DisableStep(p)
      <4>1. inv[p].op \in {"enable", "disable"}
        BY <1>0, <3>3 DEF EnableStep, DisableStep, Mkdir, MkdirFails, EnableEnds, Lstat, Remove, Symlink,
                          SymlinkFails, ReadDir, ReadLink, FolderDone, Rm, ShapeInv, ShapeAt
      <4>2. inv'[p].op = inv[p].op
        BY <1>0, <3>3, OpStays
      <4>3. inv'[p].at # "scan"
        BY <1>2, <4>1, <4>2, TypeInvStep DEF TypeInv, ShapeInv, ShapeAt, At
      <4>4. seen'[p].steady \subseteq seen[p].steady
        BY <1>0, <3>3, SteadyShrinks
      <4> QED BY <2>0, <4>1, <4>2, <4>3, <4>4 DEF AskAt, At
    <3>4. CASE Scan(p)
      <4>1. PICK l \in inv[p].todo :
               IF links[l] # "none" THEN Answer(p, "enabled")
                                    ELSE Goes(p, inv[p].todo \ {l}, None, "scan")
        BY <3>4 DEF Scan
      <4>2. inv[p].todo \subseteq Places /\ seen' = seen /\ At(p) = "scan"
        BY <1>0, <3>4, Memory DEF Scan
      <4>3. CASE links[l] # "none"
        BY <1>0, <2>0, <4>1, <4>2, <4>3, AnswerType DEF AskAt, At
      <4>4. CASE links[l] = "none"
        <5>1. inv'[p].at = "scan" /\ inv'[p].todo = inv[p].todo \ {l}
          BY <1>0, <4>1, <4>2, <4>4, GoesType DEF Labels
        <5>2. l \notin seen[p].steady /\ seen[p].steady \subseteq inv[p].todo
          BY <4>2, <4>4 DEF AskInv, AskAt
        <5> QED BY <2>0, <4>2, <5>1, <5>2 DEF AskAt, At
      <4> QED BY <4>3, <4>4
    <3>5. CASE ScanEnds(p)
      <4>1. seen[p].steady = {} /\ seen' = seen
        BY <3>5 DEF ScanEnds, AskInv, AskAt
      <4>2. inv'[p].at = "done"
        <5>1. PICK a : Answer(p, a)
          BY <3>5 DEF ScanEnds
        <5> QED BY <1>0, <5>1 DEF Answer, TypeOK, Invocation
      <4> QED BY <2>0, <4>1, <4>2 DEF AskAt, At
    <3> QED BY <1>2, <3>1, <3>2, <3>3, <3>4, <3>5 DEF Step, QueryStep
  <2> QED BY <2>1, <2>2 DEF AskInv
<1> QED BY <1>1, <1>2, Steps

\* is-enabled does not miss a link in the .wants directory of a common target that was
\* there all the time it looked.
THEOREM AnswersAreTrue == Spec => []AnswersTruly
<1>1. Init => AskInv
  BY DEF Init, AskInv, AskAt, At, Idle
<1>2. Spec => []TypeInv
  BY TypeInvInit, TypeInvStep, PTL DEF Spec
<1>3. AskInv => AnswersTruly
  BY DEF AskInv, AskAt, AnswersTruly
<1> QED BY <1>1, <1>2, <1>3, AskStep, PTL DEF Spec

\* What somebody else had put in the place of a link is removed by --force only.
THEOREM OthersStay == Spec => ForeignStays
<1> DEFINE Stays == \A l \in Places : links[l] = "other" /\ links'[l] # "other" =>
                       \E p \in Procs : At(p) = "remove" /\ inv[p].here = l
<1>1. ASSUME TypeInv, [Next]_vars PROVE [Stays]_vars
  <2>1. ASSUME NEW p \in Procs, Step(p) PROVE Stays
    <3>0. TypeOK /\ ShapeInv
      BY <1>1 DEF TypeInv
    <3>1. CASE Remove(p)
      BY <3>0, <3>1 DEF Remove, ShapeInv, ShapeAt, TypeOK
    <3>2. CASE Symlink(p)
      BY <3>0, <3>2 DEF Symlink, ShapeInv, ShapeAt, TypeOK
    <3>3. CASE Rm(p)
      BY <3>0, <3>3 DEF Rm, ShapeInv, ShapeAt, TypeOK
    <3>4. CASE links' = links
      BY <3>4
    <3> QED BY <2>1, <3>1, <3>2, <3>3, <3>4
            DEF Step, Begin, End, Crash, EnableStep, DisableStep, QueryStep, Mkdir, MkdirFails,
                EnableEnds, Lstat, SymlinkFails, ReadDir, ReadLink, FolderDone, Scan, ScanEnds
  <2> QED BY <1>1, <2>1, Steps
<1>2. Spec => []TypeInv
  BY TypeInvInit, TypeInvStep, PTL DEF Spec
<1> QED BY <1>1, <1>2, PTL DEF Spec, ForeignStays

=============================================================================
