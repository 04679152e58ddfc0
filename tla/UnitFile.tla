------------------------------- MODULE UnitFile -------------------------------
(***************************************************************************)
(* How a unit file and its drop-ins are read: LoadUnitConf and             *)
(* FindDropInFiles of internal/units/unitfiles.go, ReadUnitFile, Set and   *)
(* Get of internal/conf/confdata.go.  One action is one line of a file,    *)
(* the opening of a file or its end; readers of included files are stacked *)
(* on the reader that includes them.                                       *)
(*                                                                         *)
(* A line is kept as what the parser tells of it.  A value is the place it *)
(* was written at: the file and its first and last line.                   *)
(***************************************************************************)
EXTENDS Integers, Sequences, FiniteSets, SequencesExt

CONSTANTS
    Folders,   \* number of unit folders; the first that has a drop-in counts
    DropIns,   \* names of drop-ins, in the order of the names
    Included,  \* other files that lines may include
    Sections, Options,
    Texts,     \* what the files may contain: functions from Paths to texts or Missing
    Missing,   \* no such file
    MaxOpen    \* files a process may have open

Unit  == <<0, "unit">>
Paths == {Unit} \cup ((1..Folders) \X Range(DropIns)) \cup Included

\* The lines.  "joins": the line ends in a backslash; an empty line has no text at all.
Blank         == [kind |-> "blank", joins |-> FALSE]
Comment(j)    == [kind |-> "comment", joins |-> j]
Header(s)     == [kind |-> "header", section |-> s, joins |-> FALSE]
Unclosed      == [kind |-> "unclosed", joins |-> FALSE]
Assign(o, j)  == [kind |-> "assign", option |-> o, joins |-> j]
Reset(o)      == [kind |-> "reset", option |-> o, joins |-> FALSE]
Include(path) == [kind |-> "include", path |-> path, joins |-> FALSE]
Bad           == [kind |-> "bad", joins |-> FALSE]

Lines == {Blank, Unclosed, Bad} \cup {Comment(j) : j \in BOOLEAN} \cup {Header(s) : s \in Sections}
           \cup {Assign(o, j) : o \in Options, j \in BOOLEAN} \cup {Reset(o) : o \in Options}
           \cup {Include(path) : path \in Paths}

ASSUME UnitFileAssumption ==
    /\ Folders \in Nat /\ DropIns \in Seq(Range(DropIns)) /\ "GLOBAL" \in Sections
    /\ MaxOpen \in Nat \ {0}
    /\ \A t \in Texts : /\ DOMAIN t = Paths
                        /\ \A path \in Paths : t[path] = Missing \/ t[path] \in Seq(Lines)

VARIABLES
    text,    \* text[path]: the lines of a file
    masked,  \* is the unit file a link to /dev/null?
    todo,    \* files that LoadUnitConf has still to read
    readers, \* the calls of ReadUnitFile in progress
    conf     \* conf[section, option]: the values, in order

fileVars == <<text, masked, todo, readers, conf>>
fileInput == <<text, masked>>

Keys == Sections \X Options

\* FindDropInFiles: of the drop-ins with one name, the one in the first folder.
DropInFile(name) ==
    LET found == {f \in 1..Folders : text[<<f, name>>] # Missing}
    IN  IF found = {} THEN <<>> ELSE << <<CHOOSE f \in found : \A g \in found : f <= g, name>> >>

ReadOrder ==
    IF masked THEN <<>>
    ELSE <<Unit>> \o FlattenSeq([i \in DOMAIN DropIns |-> DropInFile(DropIns[i])])

FileInit == /\ text \in Texts
            /\ masked \in BOOLEAN
            /\ todo = ReadOrder
            /\ readers = <<>>
            /\ conf = [k \in Keys |-> <<>>]

Reader(path) == [path |-> path, next |-> 1, section |-> "GLOBAL",
                 option |-> "", from |-> 0]  \* the assignment that goes on, if from > 0

Innermost == readers[Len(readers)]
Outer     == SubSeq(readers, 1, Len(readers) - 1)
AtLine(kind) == /\ readers # <<>>
                /\ Innermost.next <= Len(text[Innermost.path])
                /\ kind = IF Innermost.from > 0 THEN "continued" ELSE text[Innermost.path][Innermost.next].kind
Line      == text[Innermost.path][Innermost.next]

Passed(reader) == Append(Outer, [reader EXCEPT !.next = Innermost.next + 1])

\* Set: an assignment is appended to the values, an empty one takes them away.
WithValue(option, from, to) ==
    [conf EXCEPT ![<<Innermost.section, option>>] = Append(@, [path |-> Innermost.path, from |-> from, to |-> to])]

\* Mutant: a file that cannot be opened is tried again.
OpenNext_Retries ==
    /\ readers = <<>> /\ todo # <<>>
    /\ readers' = IF text[Head(todo)] = Missing THEN <<>> ELSE <<Reader(Head(todo))>>
    /\ todo' = IF text[Head(todo)] = Missing THEN todo ELSE Tail(todo)
    /\ UNCHANGED <<fileInput, conf>>

\* The next file of the list; one that cannot be opened is passed over.
OpenNext ==
    /\ readers = <<>> /\ todo # <<>>
    /\ readers' = IF text[Head(todo)] = Missing THEN <<>> ELSE <<Reader(Head(todo))>>
    /\ todo' = Tail(todo)
    /\ UNCHANGED <<fileInput, conf>>

\* Blank lines, comments, and headers without a bracket at the end.
PassOver ==
    /\ \E kind \in {"blank", "comment", "unclosed"} : AtLine(kind)
    /\ readers' = Passed(Innermost)
    /\ UNCHANGED <<fileInput, todo, conf>>

EnterSection ==
    /\ AtLine("header")
    /\ readers' = Passed([Innermost EXCEPT !.section = Line.section])
    /\ UNCHANGED <<fileInput, todo, conf>>

ReadAssign ==
    /\ AtLine("assign")
    /\ IF Line.joins
       THEN /\ readers' = Passed([Innermost EXCEPT !.option = Line.option, !.from = Innermost.next])
            /\ conf' = conf
       ELSE /\ readers' = Passed(Innermost)
            /\ conf' = WithValue(Line.option, Innermost.next, Innermost.next)
    /\ UNCHANGED <<fileInput, todo>>

ReadReset ==
    /\ AtLine("reset")
    /\ readers' = Passed(Innermost)
    /\ conf' = [conf EXCEPT ![<<Innermost.section, Line.option>>] = <<>>]
    /\ UNCHANGED <<fileInput, todo>>

\* A line of an assignment that goes on, whatever it says.  The text is cut at
\* its end before the look for a backslash: an empty line does not end it.
ReadContinued ==
    /\ AtLine("continued")
    /\ IF Line.joins \/ Line.kind = "blank"
       THEN /\ readers' = Passed(Innermost)
            /\ conf' = conf
       ELSE /\ readers' = Passed([Innermost EXCEPT !.from = 0])
            /\ conf' = WithValue(Innermost.option, Innermost.from, Innermost.next)
    /\ UNCHANGED <<fileInput, todo>>

\* A file that cannot be opened ends all the readers with an error.
ReadInclude ==
    /\ AtLine("include")
    /\ readers' = IF text[Line.path] = Missing \/ Len(readers) = MaxOpen THEN <<>>
                  ELSE Append(Passed(Innermost), Reader(Line.path))
    /\ UNCHANGED <<fileInput, todo, conf>>

\* So does a line that is none of these; what was read before it stays.
ReadBad ==
    /\ AtLine("bad")
    /\ readers' = <<>>
    /\ UNCHANGED <<fileInput, todo, conf>>

\* Mutant: an assignment that goes on at the end of its file is lost.
FileEnds_Loses ==
    /\ readers # <<>>
    /\ Innermost.next > Len(text[Innermost.path])
    /\ readers' = Outer
    /\ UNCHANGED <<fileInput, todo, conf>>

\* The end of a file is the end of an assignment too.
FileEnds ==
    /\ readers # <<>>
    /\ Innermost.next > Len(text[Innermost.path])
    /\ readers' = Outer
    /\ conf' = IF Innermost.from > 0 THEN WithValue(Innermost.option, Innermost.from, Innermost.next - 1) ELSE conf
    /\ UNCHANGED <<fileInput, todo>>

FileNext == \/ OpenNext \/ PassOver \/ EnterSection \/ ReadAssign \/ ReadReset
            \/ ReadContinued \/ ReadInclude \/ ReadBad \/ FileEnds

FileSpec == FileInit /\ [][FileNext]_fileVars

\* Loading is sequential code.
FileFairSpec == FileSpec /\ WF_fileVars(FileNext)

-----------------------------------------------------------------------------

AllRead == readers = <<>> /\ todo = <<>>

\* Get: the first of the values counts, or else the default.
Get(section, option, default) ==
    IF conf[<<section, option>>] = <<>> THEN default ELSE conf[<<section, option>>][1]

Value == [path : Paths, from : Nat \ {0}, to : Nat \ {0}]

\* Types.
FileTypeOK == /\ DOMAIN text = Paths /\ masked \in BOOLEAN
              /\ todo \in Seq(Paths)
              /\ readers \in Seq([path : Paths, next : Nat \ {0}, section : Sections,
                                  option : Options \cup {""}, from : Nat])
              /\ conf \in [Keys -> Seq(Value)]

(***************************************************************************)
(* The meaning of a file, told from its text as a whole.                   *)
(***************************************************************************)

\* start[i]: the line at which the assignment started that goes on after line i, or 0.
\* It goes on after a line that ends in a backslash, and after no other.
Start(path) ==
    LET t == text[path]
        start[i \in 0..Len(t)] ==
          IF i = 0 THEN 0
          ELSE IF start[i - 1] > 0
          THEN IF t[i].joins THEN start[i - 1] ELSE 0
          ELSE IF t[i].kind = "assign" /\ t[i].joins THEN i ELSE 0
    IN  start

\* Line i is a line of its own, not part of an assignment.
OwnLine(path, i) == Start(path)[i - 1] = 0

SectionAt(path, i) ==
    LET headers == {h \in 1..(i - 1) : text[path][h].kind = "header" /\ OwnLine(path, h)}
    IN  IF headers = {} THEN "GLOBAL"
        ELSE text[path][CHOOSE h \in headers : \A g \in headers : g <= h].section

\* The last line of the assignment at line i.
EndOf(path, i) ==
    LET ends == {j \in i..Len(text[path]) : Start(path)[j] = 0}
    IN  IF ends = {} THEN Len(text[path]) ELSE CHOOSE j \in ends : \A k \in ends : j <= k

\* What lines do to the values of an option: whether those from before stay, and what
\* comes after them.  They are ok if they can be read to their end.
Effect == [keeps : BOOLEAN, adds : Seq(Value), ok : BOOLEAN]

Nothing       == [keeps |-> TRUE, adds |-> <<>>, ok |-> TRUE]
Failure       == [keeps |-> TRUE, adds |-> <<>>, ok |-> FALSE]
Taking        == [keeps |-> FALSE, adds |-> <<>>, ok |-> TRUE]
Adding(value) == [keeps |-> TRUE, adds |-> <<value>>, ok |-> TRUE]

Then(e, f) == IF ~ e.ok THEN e
              ELSE [keeps |-> e.keeps /\ f.keeps,
                    adds  |-> IF f.keeps THEN e.adds \o f.adds ELSE f.adds,
                    ok    |-> f.ok]

\* A file that is given up leaves the next one alone.
Ended(e) == [keeps |-> e.keeps, adds |-> e.adds, ok |-> TRUE]

\* InTurn(effects)[i]: those from the i-th on.
InTurn(effects) ==
    LET from[i \in 1..(Len(effects) + 1)] ==
          IF i > Len(effects) THEN Nothing ELSE Then(effects[i], from[i + 1])
    IN  from

\* What line i does to the values of option k; included tells of the files.
LineEffect(k, path, i, included) ==
    LET line == text[path][i]
        about == k = <<SectionAt(path, i), line.option>>
    IN  IF ~ OwnLine(path, i) THEN Nothing
        ELSE CASE line.kind = "include" -> included[line.path]
               [] line.kind = "bad" -> Failure
               [] line.kind = "reset" -> IF about THEN Taking ELSE Nothing
               [] line.kind = "assign" ->
                    IF about THEN Adding([path |-> path, from |-> i, to |-> EndOf(path, i)]) ELSE Nothing
               [] OTHER -> Nothing

LinesInTurn(k, path, included) ==
    InTurn([i \in DOMAIN text[path] |-> LineEffect(k, path, i, included)])

\* What a file does, with those it includes; open is the number of files one may open.
FileEffects(k) ==
    LET effects[open \in 0..MaxOpen] ==
          [path \in Paths |-> IF open = 0 \/ text[path] = Missing THEN Failure
                              ELSE LinesInTurn(k, path, effects[open - 1])[1]]
    IN  effects

FilesInTurn(k) ==
    InTurn([i \in DOMAIN ReadOrder |-> Ended(FileEffects(k)[MaxOpen][ReadOrder[i]])])

\* No empty line comes after one that ends in a backslash.  ReadUnitFile does not end
\* the assignment there, and takes the line after it, be it a header, for a part of it.
NoEmptyLineJoined ==
    \A path \in Paths : text[path] # Missing =>
       \A i \in DOMAIN text[path] : text[path][i].kind = "blank" => OwnLine(path, i)

\* Of files where no empty line comes in an assignment: every option has the values
\* that were written for it in the files and since it was last taken away, in the
\* order of the files and lines; a line counts once, for the section of the last
\* header above it in its own file, and a file that ends in the midst of an
\* assignment, or is given up, leaves the next one alone and loses nothing.
ConfIsAsWritten == AllRead /\ NoEmptyLineJoined => \A k \in Keys : conf[k] = FilesInTurn(k)[1].adds

\* Loading ends, also when a file includes itself.
LoadEnds == <>AllRead

\* "Drop-in files: .conf overrides in <unit>.d/ directories": what a drop-in says
\* last of an option is what the program goes by.
DropInsOverride ==
    AllRead => \A s \in Sections, o \in Options :
               LET values == conf[<<s, o>>]
               IN  values # <<>> /\ values[Len(values)].path \in (1..Folders) \X Range(DropIns)
                     => Get(s, o, "") = values[Len(values)]

=============================================================================
