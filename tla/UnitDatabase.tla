----------------------------- MODULE UnitDatabase -----------------------------
(***************************************************************************)
(* From the names on a command line to loaded units: the scans of the unit *)
(* folders, MatchUnits and GetConf of internal/units/unitfiles.go.  Every  *)
(* invocation scans anew.  One action is the scan of a folder, the look at *)
(* one name for a match, or the loading of one unit.                       *)
(*                                                                         *)
(* A name is what ParseUnit makes of it: prefix, instance and suffix.  Of  *)
(* names that begin with "." or "@" it makes nothing; they are left out,   *)
(* and so are names of files with "@" and without a suffix.                *)
(***************************************************************************)
EXTENDS Naturals, Sequences, FiniteSets, SequencesExt

CONSTANTS
    Layouts, \* what the unit folders and the init folder may hold: see "layout"
    Calls,   \* the arguments of a command line: sequences of arguments
    Place,   \* Place[n]: the place of name n among all names, sorted
    None

\* An instance of "none" is a name without "@", one of "" a template's.
Name(prefix, instance, suffix) == [prefix |-> prefix, instance |-> instance, suffix |-> suffix]
Service(prefix)  == Name(prefix, "none", "service")
Template(prefix) == Name(prefix, "", "service")

\* An argument has a name too, with or without a suffix; a pattern matches others.
Argument(name, matches) == [name |-> name, matches |-> matches]

ASSUME DatabaseAssumption ==
    /\ \A l \in Layouts : /\ Len(l.folders) \in Nat /\ DOMAIN l.folders = 1..Len(l.folders)
                          /\ \A i \in 1..Len(l.folders) :
                               \A n \in l.folders[i] : n = Name(n.prefix, n.instance, n.suffix)
    /\ \A c \in Calls : /\ Len(c) \in Nat /\ DOMAIN c = 1..Len(c)
                        /\ \A i \in 1..Len(c) :
                             LET n == c[i].name IN n = Name(n.prefix, n.instance, n.suffix)

VARIABLES
    layout,   \* layout.folders[i]: names in unit folder i; layout.init: prefixes in the init folder
    called,   \* the arguments
    scan,     \* the folder that is scanned next
    files,    \* fileForUnit: a folder for every name found, as a function
    matching, \* names that are still to be looked at: "files", "items" with "@", "scripts";
              \* the "item" in hand, and the "argument" it is compared with next
    matched,  \* the units, in the order they are worked on
    confs,    \* loadedUnitConf and loadedSysvConf: the name each loaded file has
    worked    \* history: the units worked on, with name and file of the conf

databaseVars == <<layout, called, scan, files, matching, matched, confs, worked>>
command      == <<layout, called>>

SysvNames == {Service(p) : p \in layout.init}

DatabaseInit ==
    /\ layout \in Layouts
    /\ called \in Calls
    /\ scan = 1
    /\ files = <<>>
    /\ matching = [files |-> {}, items |-> {}, item |-> None, argument |-> Len(called) + 1,
                   scripts |-> SysvNames]
    /\ matched = <<>>
    /\ confs = <<>>
    /\ worked = <<>>

With(f, x, y) == [z \in DOMAIN f \cup {x} |-> IF z = x THEN y ELSE f[z]]

Scanned          == scan > Len(layout.folders)
FilesMatched     == Scanned /\ matching.files = {}
TemplatesMatched == FilesMatched /\ matching.items = {} /\ matching.argument > Len(called)
AllMatched       == TemplatesMatched /\ matching.scripts = {}

\* ScanUnitFiles: a name that was found in an earlier folder stays there.
ScanFolder ==
    /\ ~ Scanned
    /\ LET here == layout.folders[scan]
       IN  files' = [n \in DOMAIN files \cup here |-> IF n \in DOMAIN files THEN files[n] ELSE scan]
    /\ matching' = [matching EXCEPT !.files = {n \in DOMAIN files' : n.suffix # ""},
                                    !.items = {n \in DOMAIN files' : n.instance # "none"}]
    /\ scan' = scan + 1
    /\ UNCHANGED <<command, matched, confs, worked>>

\* A pattern, the name itself, or the name without ".service".
Matches(argument, name) ==
    \/ name \in argument.matches
    \/ argument.name.suffix = "" /\ name = [argument.name EXCEPT !.suffix = "service"]

\* Without arguments everything matches.
MatchesAny(n) == called = <<>> \/ \E i \in DOMAIN called : Matches(called[i], n)

\* MatchUnits: what is there already is not added again.
Added(n) == IF Contains(matched, n) THEN matched ELSE Append(matched, n)

Foremost(n, names) == n \in names /\ \A m \in names : Place[n] <= Place[m]

\* MatchUnitFiles goes through the sorted names; those without a suffix are left out.
MatchUnitFile ==
    /\ Scanned
    /\ \E n \in matching.files :
          /\ Foremost(n, matching.files)
          /\ matched' = IF MatchesAny(n) THEN Added(n) ELSE matched
          /\ matching' = [matching EXCEPT !.files = @ \ {n}]
    /\ UNCHANGED <<command, scan, files, confs, worked>>

\* MatchUnitTemplates goes through the names with "@" in the order of a map, and for
\* each through the arguments: the item becomes an instance for one of its prefix.
TakeItem ==
    /\ FilesMatched /\ matching.argument > Len(called)
    /\ \E item \in matching.items :
          matching' = [matching EXCEPT !.items = @ \ {item}, !.item = item, !.argument = 1]
    /\ UNCHANGED <<command, scan, files, matched, confs, worked>>

Asks(argument, item) == argument.name.instance # "none" /\ argument.name.prefix = item.prefix
Asked(argument, item) == [item EXCEPT !.instance = argument.name.instance]

MatchUnitTemplate ==
    /\ matching.argument <= Len(called)
    /\ LET argument == called[matching.argument]
       IN  matched' = IF Asks(argument, matching.item) THEN Added(Asked(argument, matching.item))
                      ELSE matched
    /\ matching' = [matching EXCEPT !.argument = @ + 1]
    /\ UNCHANGED <<command, scan, files, confs, worked>>

\* MatchSysvFiles.
MatchSysvFile ==
    /\ TemplatesMatched
    /\ \E n \in matching.scripts :
          /\ Foremost(n, matching.scripts)
          /\ matched' = IF MatchesAny(n) THEN Added(n) ELSE matched
          /\ matching' = [matching EXCEPT !.scripts = @ \ {n}]
    /\ UNCHANGED <<command, scan, files, confs, worked>>

\* LoadUnitConf: the file, and the name a conf has that is loaded already.
NameIn(path, unit) == IF path \in DOMAIN confs THEN confs[path] ELSE unit

\* Mutant: the conf of a template keeps its first name.
TemplateName_Kept(path, unit) == NameIn(path, unit)

\* LoadUnitTemplateConf: the loaded template gets the name of the instance.
TemplateName(path, unit) == unit

\* LoadConf, GetConf: the unit's own file, the file of its template, an init script, or a
\* conf of its name without a file.
Loaded(u) ==
    LET template == Template(u.prefix)
        path     == IF u \in DOMAIN files THEN <<files[u], u>>
                    ELSE IF u.instance # "none" /\ template \in DOMAIN files
                    THEN <<files[template], template>>
                    ELSE IF u \in SysvNames THEN <<0, u>> ELSE None
    IN  [unit |-> u, path |-> path,
         name |-> IF path = None THEN u
                  ELSE IF path[1] > 0 /\ path[2] # u THEN TemplateName(path, u) ELSE NameIn(path, u)]

\* The next unit is loaded and worked on.
Work ==
    /\ AllMatched
    /\ Len(worked) < Len(matched)
    /\ LET work == Loaded(matched[Len(worked) + 1])
       IN  /\ confs' = IF work.path = None THEN confs ELSE With(confs, work.path, work.name)
           /\ worked' = Append(worked, work)
    /\ UNCHANGED <<command, scan, files, matching, matched>>

DatabaseNext == ScanFolder \/ MatchUnitFile \/ TakeItem \/ MatchUnitTemplate \/ MatchSysvFile \/ Work

DatabaseSpec == DatabaseInit /\ [][DatabaseNext]_databaseVars

-----------------------------------------------------------------------------

WorkDone     == AllMatched /\ Len(worked) = Len(matched)
DatabaseEnds == <>WorkDone

Found == UNION {layout.folders[i] : i \in DOMAIN layout.folders}

DatabaseTypeOK ==
    /\ scan \in 1..(Len(layout.folders) + 1)
    /\ DOMAIN files \subseteq Found /\ \A n \in DOMAIN files : n \in layout.folders[files[n]]
    /\ matching.files \cup matching.items \subseteq DOMAIN files /\ matching.scripts \subseteq SysvNames
    /\ matching.argument \in 1..(Len(called) + 1)
    /\ matching.argument <= Len(called) => matching.item \in DOMAIN files
    /\ Len(worked) <= Len(matched)
    /\ \A path \in DOMAIN confs : path[2] \in Found \cup SysvNames

\* The file that is read for a unit, if any: the first one of its name in the unit
\* folders, or of the service template with its prefix, or an init script.
FirstFile(names) ==
    LET at == {i \in DOMAIN layout.folders : names \cap layout.folders[i] # {}}
    IN  CHOOSE path \in {<<i, n>> : i \in at, n \in names} :
           /\ path[2] \in layout.folders[path[1]]
           /\ \A i \in at : path[1] <= i

FileOf(u) == CASE u \in Found                  -> FirstFile({u})
               [] u \notin Found /\ u.instance # "none" /\ Template(u.prefix) \in Found
                                               -> FirstFile({Template(u.prefix)})
               [] OTHER -> IF u \in SysvNames THEN <<0, u>> ELSE None

\* A template that is worked on after its instances has the name of one of them.  An
\* argument with its prefix can bring this about that does not match it, as one with
\* another suffix.
AfterInstances(u) ==
    u.instance = "" /\ \E i \in DOMAIN called : /\ called[i].name.instance = ""
                                                /\ called[i].name.prefix = u.prefix
                                                /\ ~ Matches(called[i], u)

\* Whatever arguments, folders and templates have in common: a command works once
\* on each unit that an argument names or matches and that has a file, under that
\* unit's name (its status and lock files are named so) and from that file, and on
\* no unit whose name, or prefix and instance, no argument has.
EveryNamedUnitOnce ==
    WorkDone =>
      /\ IsInjective(matched)
      /\ \A i \in DOMAIN matched :
            /\ worked[i].unit = matched[i] /\ worked[i].path = FileOf(matched[i])
            /\ worked[i].name = matched[i] \/ AfterInstances(matched[i])
      /\ \A u \in Found \cup SysvNames :
            u.suffix # "" /\ MatchesAny(u) => Contains(matched, u)
      /\ \A i \in DOMAIN called :
            LET u == [called[i].name EXCEPT !.suffix = "service"]
            IN  called[i].name.instance # "none" /\ Template(u.prefix) \in Found
                  => Contains(matched, u)
      /\ \A i \in DOMAIN matched :
            called # <<>> =>
              \E j \in DOMAIN called : \/ Matches(called[j], matched[i])
                                       \/ /\ called[j].name.prefix = matched[i].prefix
                                          /\ called[j].name.instance = matched[i].instance

=============================================================================
