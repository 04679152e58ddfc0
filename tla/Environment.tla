------------------------------ MODULE Environment ------------------------------
(***************************************************************************)
(* The environment a service is started with: buildServiceEnv of           *)
(* internal/systemctl/systemctl_exec.go with GetEnv and ExpandEnv of       *)
(* internal/units/unitfiles.go and ExtendExecEnv of                        *)
(* internal/systemctl/systemctl.go.  One action is one definition, or one  *)
(* round of the expansion of a value.                                      *)
(*                                                                         *)
(* A value is a sequence of tokens: text, $NAME and ${NAME}, set apart by  *)
(* characters that no name has.                                            *)
(***************************************************************************)
EXTENDS Naturals, Sequences, FiniteSets, SequencesExt

CONSTANTS
    Names,     \* the variables, finitely many, "PATH" among them
    Words,     \* pieces of text, the default path among them
    Locale,    \* those that ResetLocale lists
    MaxRounds, \* ExpandVarsMaxDepth
    Givens     \* what may be given: what is written in the sources, and
               \* ExpandKeepVars: does a reference to nothing stay?

VARIABLES
    given,    \* what is written in the sources, and keepVars
    queue,    \* definitions that have still to be made
    env,      \* the variables so far; their names are its domain
    made,     \* history: made[n] is the definition that variable n has its value from
    expanding \* the value in the work, and the number of its rounds

environmentVars == <<given, queue, env, made, expanding>>

DefaultPath == "/bin"

Text(w)   == [kind |-> "text", name |-> w]
Simple(n) == [kind |-> "simple", name |-> n]
Braced(n) == [kind |-> "braced", name |-> n]

Token == [kind : {"text"}, name : Words] \cup [kind : {"simple", "braced"}, name : Names]

Def(how, name, value) == [how |-> how, name |-> name, value |-> value]
Definition == [how : {"set", "default", "expand"}, name : Names, value : Seq(Token)]

Set(pairs)    == [i \in DOMAIN pairs |-> Def("set", pairs[i][1], pairs[i][2])]
Expand(pairs) == [i \in DOMAIN pairs |-> Def("expand", pairs[i][1], pairs[i][2])]

\* ReadEnvFile: a line <<name, value, quoted>>.  The expressions for quoted values
\* match anywhere in the line: NAME='...' in a value is taken for the line itself.
ReadEnvFile(lines) ==
    [i \in DOMAIN lines |-> IF lines[i][3] = <<>> THEN <<lines[i][1], lines[i][2]>>
                            ELSE lines[i][3]]

\* An extra variable is read from a file, or as Environment= is.
ReadExtra(extra) == IF extra.file THEN Expand(ReadEnvFile(extra.lines)) ELSE Set(extra.pairs)

\* Mutant: EnvironmentFile= is read before Environment=.
GetEnv_UnitLast(g) == Set(g.environ) \o Expand(ReadEnvFile(g.files)) \o Set(g.unit)
                        \o FlattenSeq([i \in DOMAIN g.extra |-> ReadExtra(g.extra[i])])

\* GetEnv: the own environment, Environment=, EnvironmentFile= and the command line.
GetEnv(g) == Set(g.environ) \o Set(g.unit) \o Expand(ReadEnvFile(g.files))
               \o FlattenSeq([i \in DOMAIN g.extra |-> ReadExtra(g.extra[i])])

\* ExtendExecEnv.
ExtendExecEnv(g) == <<Def("default", "PATH", <<Text(DefaultPath)>>)>>
                      \o SetToSeq({Def("set", n, <<>>) : n \in Locale})
                      \o Set(ReadEnvFile(g.locale))

\* buildServiceEnv; the last are the names of the directories of the service.
BuildServiceEnv(g) == GetEnv(g) \o ExtendExecEnv(g) \o Set(g.directories)

ASSUME EnvironmentAssumption ==
    /\ "PATH" \in Names /\ DefaultPath \in Words /\ IsFiniteSet(Names) /\ Locale \subseteq Names
    /\ MaxRounds \in Nat \ {0}
    /\ \A g \in Givens :
          /\ {Set(g.environ), Set(g.unit), Expand(ReadEnvFile(g.files)), Set(ReadEnvFile(g.locale)),
              Set(g.directories)} \subseteq Seq(Definition)
          /\ DOMAIN g.extra = 1..Len(g.extra) /\ Len(g.extra) \in Nat
          /\ \A i \in 1..Len(g.extra) : ReadExtra(g.extra[i]) \in Seq(Definition)

Idle == [value |-> <<>>, round |-> 0]

EnvironmentInit ==
    /\ given \in Givens
    /\ queue = BuildServiceEnv(given)
    /\ env = <<>> /\ made = <<>>
    /\ expanding = Idle

\* What stands for a reference.
ValueOf(t) == IF t.name \in DOMAIN env THEN env[t.name]
              ELSE IF given.keepVars THEN <<t>> ELSE <<>>

\* All tokens of a kind are replaced at a time.
Replaced(kind, value) ==
    FlattenSeq([i \in DOMAIN value |-> IF value[i].kind = kind THEN ValueOf(value[i]) ELSE <<value[i]>>])

Defined(f, name, value) == [n \in DOMAIN f \cup {name} |-> IF n = name THEN value ELSE f[n]]

\* The next definition makes its variable.
Make(value) == /\ env' = Defined(env, Head(queue).name, value)
               /\ made' = Defined(made, Head(queue).name, Head(queue))

Define ==
    /\ queue # <<>>
    /\ Head(queue).how \in {"set", "default"}
    /\ IF Head(queue).how = "default" /\ Head(queue).name \in DOMAIN env
         THEN UNCHANGED <<env, made>>
         ELSE Make(Head(queue).value)
    /\ queue' = Tail(queue)
    /\ UNCHANGED <<given, expanding>>

\* ExpandEnv: $NAME is replaced once.
BeginExpand ==
    /\ queue # <<>> /\ Head(queue).how = "expand" /\ expanding = Idle
    /\ expanding' = [value |-> Replaced("simple", Head(queue).value), round |-> 1]
    /\ UNCHANGED <<given, queue, env, made>>

\* Mutant: one round only.
Round_Once ==
    /\ expanding.round > 0
    /\ Make(Replaced("braced", expanding.value))
    /\ queue' = Tail(queue)
    /\ expanding' = Idle
    /\ given' = given

\* ${NAME} is replaced until nothing changes, or the rounds are used up.
Round ==
    /\ expanding.round > 0
    /\ LET next == Replaced("braced", expanding.value)
       IN  IF next = expanding.value \/ expanding.round = MaxRounds
           THEN /\ Make(next)
                /\ queue' = Tail(queue)
                /\ expanding' = Idle
           ELSE /\ expanding' = [value |-> next, round |-> expanding.round + 1]
                /\ UNCHANGED <<env, made, queue>>
    /\ given' = given

EnvironmentNext == Define \/ BeginExpand \/ Round

EnvironmentSpec == EnvironmentInit /\ [][EnvironmentNext]_environmentVars

\* A value is computed by sequential code.
EnvironmentFairSpec == EnvironmentSpec /\ WF_environmentVars(EnvironmentNext)

-----------------------------------------------------------------------------

EnvironmentTypeOK ==
    /\ queue \in Seq(Definition)
    /\ DOMAIN env \subseteq Names /\ made \in [DOMAIN env -> Definition]
    /\ \A n \in DOMAIN env : env[n] \in Seq(Token)
    /\ expanding.value \in Seq(Token) /\ expanding.round \in 0..MaxRounds

EnvironmentEnds == <>(queue = <<>>)

(***************************************************************************)
(* The meaning of a value, told without rounds.                            *)
(***************************************************************************)

References(value) == {value[i].name : i \in {j \in DOMAIN value : value[j].kind = "braced"}}

\* The variables a value needs, at any depth.
Needs(value) ==
    LET step(ns) == ns \cup UNION {References(env[n]) : n \in ns \cap DOMAIN env}
        needs[k \in 0..Cardinality(Names)] ==
            IF k = 0 THEN References(value) ELSE step(needs[k - 1])
    IN  needs[Cardinality(Names)]

\* A variable that needs itself has no meaning.
Circular(n) == n \in DOMAIN env /\ n \in Needs(env[n])

\* A value with something in the place of each reference.
Put(value, of) ==
    FlattenSeq([i \in DOMAIN value |-> IF value[i].kind = "braced" THEN of[value[i].name]
                                       ELSE <<value[i]>>])

\* What stands for a variable that is not there.
Unset(n) == IF given.keepVars THEN <<Braced(n)>> ELSE <<>>

\* What the variables mean, if a chain of references has k of them at most.
Meanings ==
    LET meaning[k \in 0..Cardinality(Names)] ==
            [n \in Names |-> IF n \notin DOMAIN env THEN Unset(n)
                             ELSE IF k = 0 THEN <<>> ELSE Put(env[n], meaning[k - 1])]
    IN  meaning

\* A value with the meaning of each variable in its place.
Meaning(value) == Put(value, Meanings[Cardinality(Names)])

\* ExpandEnv replaces every ${NAME} of a value, and those of what they stand for, at
\* any depth, unless there is a circle among them or there are more variables than
\* rounds.  A $NAME of the value itself is replaced too, before them and once: one in
\* the value of a variable stays what it is (unitfiles.go:931).
ExpansionIsFull ==
    [][ expanding # Idle /\ expanding' = Idle
          => LET value == Replaced("simple", Head(queue).value)
             IN  (\A n \in Needs(value) : ~ Circular(n)) /\ Cardinality(Names) <= MaxRounds
                   => env'[Head(queue).name] = Meaning(value) ]_environmentVars

\* What a source says last of a variable.
LastOf(defs, n) ==
    LET about == {i \in DOMAIN defs : defs[i].name = n}
    IN  IF about = {} THEN Def("none", n, <<>>)
        ELSE defs[CHOOSE i \in about : \A j \in about : j <= i]

\* The sources of a variable, from the weakest to the strongest: the default path, the
\* environment systemctl was called with, Environment=, EnvironmentFile=, the extra
\* variables of the command line, the reset of the locale, locale.conf, and the
\* directories of the service.
WeakestFirst(n) ==
    (IF n = "PATH" THEN <<Def("default", n, <<Text(DefaultPath)>>)>> ELSE <<>>)
      \o Set(given.environ) \o Set(given.unit) \o Expand(ReadEnvFile(given.files))
      \o FlattenSeq([i \in DOMAIN given.extra |-> ReadExtra(given.extra[i])])
      \o (IF n \in Locale THEN <<Def("set", n, <<>>)>> ELSE <<>>)
      \o Set(ReadEnvFile(given.locale)) \o Set(given.directories)

\* A variable is made by the last word of the strongest source that names it, however
\* the definitions of buildServiceEnv replace and leave what is there: it has that
\* value, or what the value was expanded to when its turn came (ExpansionIsFull).
StrongestSourceCounts ==
    queue = <<>> =>
      \A n \in Names :
         LET def == LastOf(WeakestFirst(n), n)
         IN  /\ n \in DOMAIN env <=> def.how # "none"
             /\ n \in DOMAIN env => made[n] = def /\ (def.how # "expand" => env[n] = def.value)

=============================================================================
