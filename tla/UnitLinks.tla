------------------------------ MODULE UnitLinks ------------------------------
(***************************************************************************)
(* enable, disable, preset and is-enabled of one unit: EnableModules,      *)
(* DisableModules, PresetModules and EnabledFrom of                        *)
(* internal/systemctl/systemctl.go, with the folders they look through     *)
(* (internal/units/unitfiles.go) and the preset files (conf/preset.go).    *)
(*                                                                         *)
(* What is enabled is kept in symlinks, in the directories <target>.wants  *)
(* and <target>.requires of the unit folders.  None of these commands      *)
(* takes the unit's lock, so one system call is one action.  The order in  *)
(* which the directories of a folder are visited is left open.             *)
(***************************************************************************)
EXTENDS Naturals, FiniteSets, FiniteSetsExt

CONSTANTS
    Procs,        \* invocations of systemctl
    NFolders,     \* the unit folders, and the preset folders, in their precedence
    Dirs,         \* names of wants and requires directories
    Common,       \* those of them that belong to AllCommonTargets
    NPresets,     \* the names of preset files, in their order
    None,         \* no place
    InitFiles,    \* what the folders may have of the unit at first,
    InitLinks,    \* and which links are there,
    InitPresets,  \* and what the preset files may say
    Crashes,      \* may invocations be killed?
    Failures      \* may a system call that changes a folder fail?

Folders == 1..NFolders
Places  == Folders \X Dirs \* where a link of the unit may be

\* A unit file: absent, a link to /dev/null, or there, with WantedBy=.
Files == [kind : {"none", "mask", "file"}, wants : SUBSET Dirs]

\* What is found where a link may be: nothing, a link to the unit file, or
\* something else of that name.
Links == {"none", "own", "other"}

\* What a preset file has for the unit: it is not there, no line matches, or the
\* first line that matches is an enable or disable line.
Rules   == {"absent", "silent", "enable", "disable"}
Presets == [Folders \X (1..NPresets) -> Rules]

ASSUME LinksAssumption ==
    /\ NFolders \in Nat \ {0} /\ NPresets \in Nat
    /\ Common \subseteq Dirs
    /\ None \notin Places
    /\ InitFiles \subseteq [Folders -> Files]
    /\ InitLinks \subseteq [Places -> Links]
    /\ InitPresets \subseteq Presets
    /\ {Crashes, Failures} \subseteq BOOLEAN

VARIABLES
    inv,      \* inv[p]: what invocation p has in memory
    files,    \* files[f]: the unit file in folder f; the links may be of an
              \* earlier one, with another WantedBy=
    links,    \* links[l]: what is at place l
    dirs,     \* the directories that exist
    presets,  \* what the preset files say
    promised, \* history: places where an enable has found or made a link,
              \* and no disable has removed it
    torn,     \* history: places where an enable failed, or was killed, before
              \* it could make the link
    seen      \* history: seen[p].new, places where a link was made since the
              \* disable p began, or could not be removed by it; seen[p].steady,
              \* common places that have had a link ever since p began to ask

vars  == <<inv, files, links, dirs, presets, promised, torn, seen>>
world == <<files, presets>>

Ops    == {"enable", "disable", "is-enabled"}
Labels == {"idle", "mkdir", "lstat", "remove", "symlink", "readdir", "readlink", "rm", "scan",
           "done"}

Invocation == [at : Labels, op : Ops \cup {"none"}, force : BOOLEAN, wants : SUBSET Dirs,
               todo : SUBSET Places, here : Places \cup {None}, folder : 0..NFolders,
               answer : {"none", "enabled", "disabled", "static", "masked"}]

Idle == [at |-> "idle", op |-> "none", force |-> FALSE, wants |-> {}, todo |-> {},
         here |-> None, folder |-> 0, answer |-> "none"]

At(p) == inv[p].at

Goes(p, todo, here, l) ==
    inv' = [inv EXCEPT ![p] = [@ EXCEPT !.todo = todo, !.here = here, !.at = l]]

Goto(p, l)   == Goes(p, inv[p].todo, inv[p].here, l)
Leave(p, l)  == Goes(p, inv[p].todo, None, l)
Answer(p, a) == inv' = [inv EXCEPT ![p] = [@ EXCEPT !.answer = a, !.at = "done"]]

-----------------------------------------------------------------------------
(* What an invocation reads at first.                                      *)

\* The index of unit files: the first folder that has the unit wins.
Conf == LET found == {f \in Folders : files[f].kind # "none"}
        IN  IF found = {} THEN [kind |-> "none", wants |-> {}] ELSE files[Min(found)]

\* A preset file hides those of its name in later folders.  The first file, by
\* name, that has a rule for the unit decides.
Rule(n) == LET found == {f \in Folders : presets[f, n] # "absent"}
           IN  IF found = {} THEN "silent" ELSE presets[Min(found), n]

PresetOf == LET ruling == {n \in 1..NPresets : Rule(n) # "silent"}
            IN  IF ruling = {} THEN "silent" ELSE Rule(Min(ruling))

Init == /\ inv = [p \in Procs |-> Idle]
        /\ files \in InitFiles
        /\ links \in InitLinks
        /\ dirs = {l \in Places : links[l] # "none"}
        /\ presets \in InitPresets
        /\ promised = {}
        /\ torn = {}
        /\ seen = [p \in Procs |-> [new |-> {}, steady |-> {}]]

\* History: a question is asked.
Asks(p) == seen' = [seen EXCEPT ![p].steady = {l \in Folders \X Common : links[l] # "none"}]

\* An invocation for a unit that is not found, masked, or without WantedBy= where
\* that is needed, does nothing and is left out.
BeginEnable(p, force) ==
    /\ Conf.kind = "file" /\ Conf.wants # {}
    /\ UNCHANGED seen
    /\ inv' = [inv EXCEPT ![p] = [Idle EXCEPT !.at = "mkdir", !.op = "enable", !.force = force,
                                              !.todo = {1} \X Conf.wants]]

BeginDisable(p) ==
    /\ Conf.kind = "file"
    /\ UNCHANGED seen
    /\ inv' = [inv EXCEPT ![p] = [Idle EXCEPT !.at = "readdir", !.op = "disable", !.folder = 1]]

\* Mutant: only the folder that enable uses is looked at.
BeginQuery_First(p) ==
    /\ \/ /\ Conf.kind = "mask"
          /\ inv' = [inv EXCEPT ![p] = [Idle EXCEPT !.at = "done", !.op = "is-enabled",
                                                    !.answer = "masked"]]
       \/ /\ Conf.kind = "file"
          /\ inv' = [inv EXCEPT ![p] = [Idle EXCEPT !.at = "scan", !.op = "is-enabled",
                                                    !.wants = Conf.wants, !.todo = {1} \X Common]]
    /\ Asks(p)

BeginQuery(p) ==
    /\ \/ /\ Conf.kind = "mask"
          /\ inv' = [inv EXCEPT ![p] = [Idle EXCEPT !.at = "done", !.op = "is-enabled",
                                                    !.answer = "masked"]]
       \/ /\ Conf.kind = "file"
          /\ inv' = [inv EXCEPT ![p] = [Idle EXCEPT !.at = "scan", !.op = "is-enabled",
                                                    !.wants = Conf.wants, !.todo = Folders \X Common]]
    /\ Asks(p)

\* preset is an enable or a disable, as the rules have it; --preset-mode may
\* forbid one of them.
Begin(p) == /\ At(p) = "idle"
            /\ \/ \E force \in BOOLEAN : BeginEnable(p, force)
               \/ BeginDisable(p)
               \/ BeginQuery(p)
               \/ \E mode \in {"all", "enable", "disable"}, force \in BOOLEAN :
                     \/ PresetOf = "enable" /\ mode # "disable" /\ BeginEnable(p, force)
                     \/ PresetOf = "disable" /\ mode # "enable" /\ BeginDisable(p)
            /\ UNCHANGED <<world, links, dirs, promised, torn>>

End(p) == /\ At(p) = "done"
          /\ inv' = [inv EXCEPT ![p] = Idle]
          /\ seen' = [seen EXCEPT ![p] = [new |-> {}, steady |-> {}]]
          /\ UNCHANGED <<world, links, dirs, promised, torn>>

-----------------------------------------------------------------------------
(* enable.                                                                 *)

Mkdir(p) == /\ At(p) = "mkdir"
            /\ \E l \in inv[p].todo :
                  /\ Goes(p, inv[p].todo \ {l}, l, "lstat")
                  /\ dirs' = dirs \cup {l}
            /\ UNCHANGED <<world, links, promised, torn, seen>>

MkdirFails(p) == /\ Failures
                 /\ At(p) = "mkdir"
                 /\ \E l \in inv[p].todo \ dirs : Goes(p, inv[p].todo \ {l}, None, "mkdir")
                 /\ UNCHANGED <<world, links, dirs, promised, torn, seen>>

EnableEnds(p) == /\ At(p) = "mkdir"
                 /\ inv[p].todo = {}
                 /\ Goto(p, "done")
                 /\ UNCHANGED <<world, links, dirs, promised, torn, seen>>

Lstat(p) == /\ At(p) = "lstat"
            /\ IF links[inv[p].here] = "none"
                 THEN Goto(p, "symlink") /\ UNCHANGED promised
                 ELSE IF inv[p].force
                 THEN Goto(p, "remove") /\ UNCHANGED promised
                 ELSE Leave(p, "mkdir") /\ promised' = promised \cup {inv[p].here}
            /\ UNCHANGED <<world, links, dirs, torn, seen>>

\* History: no place that is empty now has had a link all the time.
Vanishes(l) == seen' = [q \in Procs |-> [seen[q] EXCEPT !.steady = @ \ {l}]]

\* Mutant: after the removal of what was there the next target is gone to.
Remove_Continues(p) == /\ At(p) = "remove"
                       /\ links' = [links EXCEPT ![inv[p].here] = "none"]
                       /\ Vanishes(inv[p].here)
                       /\ Leave(p, "mkdir")
                       /\ UNCHANGED <<world, dirs, promised, torn>>

\* --force.  An error of Remove is not looked at.
Remove(p) == /\ At(p) = "remove"
             /\ \/ /\ links' = [links EXCEPT ![inv[p].here] = "none"]
                   /\ Vanishes(inv[p].here)
                \/ Failures /\ UNCHANGED <<links, seen>>
             /\ Goto(p, "symlink")
             /\ UNCHANGED <<world, dirs, promised, torn>>

Symlink(p) == /\ At(p) = "symlink"
              /\ LET l == inv[p].here
                 IN  IF links[l] = "none"
                     THEN /\ links' = [links EXCEPT ![l] = "own"]
                          /\ seen' = [q \in Procs |-> [seen[q] EXCEPT !.new = IF inv[q].op = "disable"
                                                                              THEN @ \cup {l} ELSE @]]
                          /\ promised' = promised \cup {l}
                          /\ torn' = torn \ {l}
                     ELSE UNCHANGED <<links, seen, promised, torn>> \* "file exists"
              /\ Leave(p, "mkdir")
              /\ UNCHANGED <<world, dirs>>

SymlinkFails(p) == /\ Failures
                   /\ At(p) = "symlink"
                   /\ torn' = torn \cup {inv[p].here}
                   /\ Leave(p, "mkdir")
                   /\ UNCHANGED <<world, links, dirs, promised, seen>>

-----------------------------------------------------------------------------
(* disable.                                                                *)

\* Mutant: the directories are those that WantedBy= names.
ReadDir_Wanted(p) ==
    /\ At(p) = "readdir"
    /\ Goes(p, dirs \cap ({inv[p].folder} \X Conf.wants), None, "readlink")
    /\ UNCHANGED <<world, links, dirs, promised, torn, seen>>

ReadDir(p) ==
    /\ At(p) = "readdir"
    /\ Goes(p, dirs \cap ({inv[p].folder} \X Dirs), None, "readlink")
    /\ UNCHANGED <<world, links, dirs, promised, torn, seen>>

\* Mutant: where the link leads to is not looked at.
ReadLink_Any(p) ==
    /\ At(p) = "readlink"
    /\ \E l \in inv[p].todo :
          IF links[l] # "none" THEN Goes(p, inv[p].todo \ {l}, l, "rm")
                               ELSE Goes(p, inv[p].todo \ {l}, None, "readlink")
    /\ UNCHANGED <<world, links, dirs, promised, torn, seen>>

ReadLink(p) ==
    /\ At(p) = "readlink"
    /\ \E l \in inv[p].todo :
          IF links[l] = "own" THEN Goes(p, inv[p].todo \ {l}, l, "rm")
                               ELSE Goes(p, inv[p].todo \ {l}, None, "readlink")
    /\ UNCHANGED <<world, links, dirs, promised, torn, seen>>

\* Mutant: one folder too many.
FolderDone_TooFar(p) ==
    /\ At(p) = "readlink"
    /\ inv[p].todo = {}
    /\ IF inv[p].folder <= NFolders
         THEN inv' = [inv EXCEPT ![p] = [@ EXCEPT !.folder = inv[p].folder + 1, !.at = "readdir"]]
         ELSE Goto(p, "done")
    /\ UNCHANGED <<world, links, dirs, promised, torn, seen>>

FolderDone(p) ==
    /\ At(p) = "readlink"
    /\ inv[p].todo = {}
    /\ IF inv[p].folder < NFolders
         THEN inv' = [inv EXCEPT ![p] = [@ EXCEPT !.folder = inv[p].folder + 1, !.at = "readdir"]]
         ELSE Goto(p, "done")
    /\ UNCHANGED <<world, links, dirs, promised, torn, seen>>

\* What is there now is removed, whatever was read.  Errors are not looked at.
Rm(p) == /\ At(p) = "rm"
         /\ LET l == inv[p].here
            IN  \/ /\ links' = [links EXCEPT ![l] = "none"]
                   /\ Vanishes(l)
                   /\ promised' = promised \ {l}
                \/ /\ Failures
                   /\ seen' = [seen EXCEPT ![p].new = @ \cup {l}]
                   /\ UNCHANGED <<links, promised>>
         /\ Leave(p, "readlink")
         /\ UNCHANGED <<world, dirs, torn>>

-----------------------------------------------------------------------------
(* is-enabled.                                                             *)

Scan(p) == /\ At(p) = "scan"
           /\ \E l \in inv[p].todo :
                 IF links[l] # "none" THEN Answer(p, "enabled")
                                      ELSE Goes(p, inv[p].todo \ {l}, None, "scan")
           /\ UNCHANGED <<world, links, dirs, promised, torn, seen>>

ScanEnds(p) ==
    /\ At(p) = "scan"
    /\ inv[p].todo = {}
    /\ Answer(p, CASE PresetOf = "enable"  -> "enabled"
                   [] PresetOf = "disable" -> "disabled"
                   [] OTHER -> IF inv[p].wants = {} THEN "static" ELSE "disabled")
    /\ UNCHANGED <<world, links, dirs, promised, torn, seen>>

-----------------------------------------------------------------------------
(* Invocations are killed (external).                                      *)

Crash(p) == /\ Crashes
            /\ At(p) # "idle"
            /\ inv' = [inv EXCEPT ![p] = Idle]
            /\ torn' = IF At(p) = "symlink" THEN torn \cup {inv[p].here} ELSE torn
            /\ seen' = [seen EXCEPT ![p] = [new |-> {}, steady |-> {}]]
            /\ UNCHANGED <<world, links, dirs, promised>>

-----------------------------------------------------------------------------

EnableStep(p)  == Mkdir(p) \/ MkdirFails(p) \/ EnableEnds(p) \/ Lstat(p) \/ Remove(p)
                  \/ Symlink(p) \/ SymlinkFails(p)
DisableStep(p) == ReadDir(p) \/ ReadLink(p) \/ FolderDone(p) \/ Rm(p)
QueryStep(p)   == Scan(p) \/ ScanEnds(p)

Next == \E p \in Procs : Begin(p) \/ EnableStep(p) \/ DisableStep(p) \/ QueryStep(p)
                         \/ End(p) \/ Crash(p)

Spec == Init /\ [][Next]_vars

-----------------------------------------------------------------------------

TypeOK == /\ inv \in [Procs -> Invocation]
          /\ files \in [Folders -> Files]
          /\ links \in [Places -> Links]
          /\ dirs \subseteq Places
          /\ presets \in Presets
          /\ promised \subseteq Places
          /\ torn \subseteq Places
          /\ seen \in [Procs -> [new : SUBSET Places, steady : SUBSET Places]]

\* Where an enable has found or made a link, it stays until a disable removes it,
\* however many enables, forced or not, run at the same time.  The exception is
\* between the Remove and the Symlink of --force, and where an invocation was
\* killed, or its Symlink failed, right there.
LinkStays ==
    \A l \in promised : links[l] = "none" =>
        l \in torn \/ \E p \in Procs : At(p) = "symlink" /\ inv[p].here = l

\* A disable that comes to its end leaves no link to the unit that an enable has
\* not made in the meantime, in whatever folder and for whatever target, also when
\* WantedBy= has changed since the link was made.
DisableClears ==
    \A p \in Procs : At(p) = "done" /\ inv[p].op = "disable" =>
        {l \in Places : links[l] = "own"} \subseteq seen[p].new

\* is-enabled does not miss a link in the .wants directory of a common target that was
\* there all the time it looked.  It looks nowhere else: not in .requires directories,
\* which the comment at systemctl.go:920 names, and not below other targets.
AnswersTruly ==
    \A p \in Procs : At(p) = "done" /\ inv[p].op = "is-enabled" =>
        inv[p].answer \in {"enabled", "masked"} \/ seen[p].steady = {}

\* What somebody else had put in the place of a link, before any of these commands
\* ran, is removed by --force only.  (What is put there between the Readlink and the
\* Remove of a disable is removed by that, and is not considered here.)
ForeignStays ==
    [][\A l \in Places : links[l] = "other" /\ links'[l] # "other" =>
          \E p \in Procs : At(p) = "remove" /\ inv[p].here = l]_vars

=============================================================================
