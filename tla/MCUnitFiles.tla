------------------------------ MODULE MCUnitFiles ------------------------------
(***************************************************************************)
(* UnitFiles for TLC.  In a behaviour N units with any After= and Before=  *)
(* are sorted, or the dependencies of a unit are listed, or the files of a *)
(* unit are read, or an environment is built, or the arguments of a        *)
(* command line are matched; the other modules are at their end from the   *)
(* start.                                                                  *)
(***************************************************************************)
EXTENDS UnitFiles

CONSTANT Parts \* the modules that are run

-----------------------------------------------------------------------------
(* The units that are listed.                                              *)

\* Nothing, an option, or an entry of a folder together with an option that stops
\* the walk.  The root may be wanted, also by itself.
Pairs == {{}, {"Wants"}, {".wants", "Conflicts"}}
TheDeclarable == {f \in [Units -> [Units -> Pairs]] :
                     /\ \A u \in Units : f[u][Root] \in {{}, {"Wants"}}
                     /\ \A u \in Units \ {Root} : f[u][u] = {}}

-----------------------------------------------------------------------------
(* The files that are read: any unit file of three lines beside a file     *)
(* that includes itself, and some unit files with drop-ins in two folders. *)

Other       == <<0, "other">>
TheDropIns  == <<"a", "b">>
TheIncluded == {Other}

x == Assign("x", FALSE)
S == Header("S")
TheLines == {S, x, Assign("x", TRUE), Assign("y", FALSE), Reset("x"), Blank, Comment(TRUE),
             Unclosed, Bad, Include(Other)}
UpTo(n) == UNION {[1..k -> TheLines] : k \in 0..n}

SelfIncluding == <<x, Include(Other), x>>

FirstA == {Missing, <<x>>, <<S, Reset("x"), x>>, <<S, Assign("x", TRUE), Comment(TRUE), S>>}
Short  == {Missing, <<>>, <<S, x>>, <<S, Assign("x", TRUE)>>, <<S, Include(Other), Bad>>}

TheFiles(main, firstA, secondA, secondB, other) ==
    [p \in Paths |-> CASE p = Unit -> main
                            [] p = <<1, "a">> -> firstA
                            [] p = <<2, "a">> -> secondA
                            [] p = <<1, "b">> -> Missing
                            [] p = <<2, "b">> -> secondB
                            [] p = Other      -> other]

TheTexts ==
    {TheFiles(main, Missing, Missing, Missing, SelfIncluding) : main \in UpTo(3)} \cup
    {TheFiles(main, firstA, secondA, secondB, other) :
        main \in Short, firstA \in FirstA, secondA \in Short,
        secondB \in {Missing, <<S, Reset("x")>>},
        other \in {Missing, SelfIncluding, <<S, Assign("x", TRUE)>>}}

-----------------------------------------------------------------------------
(* The environments that are built.                                        *)

w            == Text("w")
Pair(n, v)   == << <<n, v>> >>
Plain(n, v)  == << <<n, v, <<>> >> >>
Quoted(n, v) == << <<"B", <<w>>, <<n, v>> >> >>

TheGivens ==
    [environ : {<<>>, Pair("A", <<w>>)},
     unit : {<<>>, Pair("A", <<w>>), Pair("A", <<Braced("B")>>), Pair("LANG", <<Braced("A"), Braced("PATH")>>),
             Pair("A", <<Braced("LANG"), Braced("A")>>) \o Pair("LANG", <<w>>),
             Pair("B", <<Braced("LANG")>>) \o Pair("LANG", <<w>>)},
     files : {a1 \o a2 : a1 \in {<<>>, Plain("A", <<Braced("A")>>), Plain("A", <<Braced("B"), w>>),
                                 Plain("A", <<Simple("A"), Braced("PATH")>>),
                                 Plain("A", <<Braced("A"), Braced("B")>>)},
                         a2 \in {Plain("B", <<Braced("A")>>), Plain("PATH", <<w, Braced("PATH")>>),
                                 Quoted("A", <<w>>)}},
     extra : {<<>>, <<[file |-> FALSE, pairs |-> Pair("B", <<w>>)],
                      [file |-> TRUE, lines |-> Plain("A", <<Braced("B")>>)]>>},
     locale : {<<>>, Plain("LANG", <<w>>)},
     directories : {<<>>},
     keepVars : BOOLEAN]
    \cup
    \* A is the variable of a directory of the service, too.
    [environ : {Pair("A", <<w>>)},
     unit : {<<>>, Pair("A", <<Braced("B")>>), Pair("PATH", <<Braced("A")>>)},
     files : {<<>>, Plain("A", <<Braced("A")>>) \o Plain("B", <<Braced("A"), w>>)},
     extra : {<<>>},
     locale : {<<>>, Plain("A", <<>>)},
     directories : {Pair("A", <<w, w>>)},
     keepVars : BOOLEAN]

-----------------------------------------------------------------------------
(* The folders that are searched, and the command lines.                   *)

plain    == Name("f", "none", "service")
template == Name("f", "", "service")
socket   == Name("f", "", "socket")
instance == Name("f", "a", "service")
script   == Name("g", "none", "service")
readme   == Name("r", "none", "")

ThePlaces == (plain :> 1) @@ (template :> 2) @@ (socket :> 3) @@ (instance :> 4) @@ (script :> 5) @@ (readme :> 6)

TheLayouts == {[folders |-> <<one, two>>, init |-> init] :
                  one \in SUBSET {plain, template, instance, readme},
                  two \in SUBSET {plain, template, socket}, init \in {{}, {"f", "g"}}}

\* f, f.service, f@a, f@b.service, f@.service, f@.timer, f@* and *.
short   == Argument(Name("f", "none", ""), {})
long    == Argument(plain, {plain})
a1      == Argument(Name("f", "a", ""), {})
b1      == Argument(Name("f", "b", "service"), {Name("f", "b", "service")})
itself  == Argument(template, {template})
timer   == Argument(Name("f", "", "timer"), {})
several == Argument(Name("f", "*", ""), {template, instance, socket})
every   == Argument(Name("*", "none", ""), {plain, template, instance, socket, script, readme})

TheCalls == {<<>>, <<short, long>>, <<long, a1>>, <<a1, b1>>, <<itself, b1, a1>>,
             <<b1, timer>>, <<itself, b1, timer>>, <<several>>, <<every, a1>>}

-----------------------------------------------------------------------------

SortOnly == "sort" \in Parts /\ SortInit
NoSort   == /\ after = [i \in Items |-> {}] /\ before = after
            /\ rank = [i \in Items |-> 0] /\ a = N + 1 /\ b = 1
            /\ changed = FALSE /\ pass = 1 /\ result = [i \in Items |-> i]

ListingOnly == "listing" \in Parts /\ Init
NoListing   == /\ declared = [u \in Units |-> [d \in Units |-> {}]] /\ loaded = {}
               /\ call = {} /\ stack = <<>> /\ listed = {} /\ expanded = {}

FileOnly == "file" \in Parts /\ FileInit
NoFile   == /\ text = [p \in Paths |-> Missing] /\ masked = TRUE
            /\ todo = <<>> /\ readers = <<>> /\ conf = [k \in Keys |-> <<>>]

EnvironmentOnly == "environment" \in Parts /\ EnvironmentInit
NoEnvironment   == /\ given = [environ |-> <<>>, unit |-> <<>>, files |-> <<>>, extra |-> <<>>,
                               locale |-> <<>>, directories |-> <<>>, keepVars |-> TRUE]
                   /\ queue = <<>>
                   /\ env = "PATH" :> <<Text(DefaultPath)>> @@ "LANG" :> <<>>
                   /\ made = [n \in DOMAIN env |-> Def(IF n = "PATH" THEN "default" ELSE "set", n, env[n])]
                   /\ expanding = Idle

DatabaseOnly == "database" \in Parts /\ DatabaseInit
NoDatabase   == /\ layout = [folders |-> <<>>, init |-> {}] /\ called = <<>> /\ scan = 1 /\ files = <<>>
                /\ matching = [files |-> {}, items |-> {}, item |-> None, argument |-> 1, scripts |-> {}]
                /\ matched = <<>> /\ confs = <<>> /\ worked = <<>>

MCInit == \/ SortOnly /\ NoListing /\ NoFile /\ NoEnvironment /\ NoDatabase
          \/ NoSort /\ ListingOnly /\ NoFile /\ NoEnvironment /\ NoDatabase
          \/ NoSort /\ NoListing /\ FileOnly /\ NoEnvironment /\ NoDatabase
          \/ NoSort /\ NoListing /\ NoFile /\ EnvironmentOnly /\ NoDatabase
          \/ NoSort /\ NoListing /\ NoFile /\ NoEnvironment /\ DatabaseOnly

MCNext == \/ SortNext /\ UNCHANGED <<vars, fileVars, environmentVars, databaseVars>>
          \/ Next /\ UNCHANGED <<sortVars, fileVars, environmentVars, databaseVars>>
          \/ FileNext /\ UNCHANGED <<sortVars, vars, environmentVars, databaseVars>>
          \/ EnvironmentNext /\ UNCHANGED <<sortVars, vars, fileVars, databaseVars>>
          \/ DatabaseNext /\ UNCHANGED <<sortVars, vars, fileVars, environmentVars>>

MCVars == <<sortVars, vars, fileVars, environmentVars, databaseVars>>
MCSpec == MCInit /\ [][MCNext]_MCVars /\ WF_MCVars(MCNext)

=============================================================================
