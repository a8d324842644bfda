-------------------------------- MODULE Options --------------------------------
(***************************************************************************)
(* The parser of the command line, cxxopts: options are defined one by     *)
(* one, then the arguments are read from left to right, moved forward in   *)
(* argv when they are left over, then the defaults are filled in, and at   *)
(* last what follows "--" is read.  An argument is taken apart into its    *)
(* dashes, the letters behind them, what follows an equals sign, and more  *)
(* words behind delimiters; a text is what an option gets, an argument as  *)
(* a whole or the part of it behind the equals sign.                       *)
(***************************************************************************)
EXTENDS Naturals, Sequences, SequencesExt

CONSTANTS
    Letters,       \* of names and texts
    Arguments,     \* what may be written on the command line
    MaxArguments,  \* bounds how many of them are
    Setups         \* the options and settings a program asks for

VARIABLES
    setup,     \* the setup of this program
    pc,        \* the place in the parser
    names,     \* Options::m_options: the option behind each name
    argv,      \* from argv[1] on
    argc,
    nextKeep,
    result,    \* ParseResult, with current and the exception thrown
    given      \* history: the command line as it was

vars == <<setup, pc, names, argv, argc, nextKeep, result, given>>

\* The words behind the first delimiter are letters only.
Texts == [dashes : 0 .. 2, name : Seq(Letters), eq : BOOLEAN, text : Seq(Letters),
          more : Seq(Seq(Letters))]

\* An option has at most one default and one implicit value.
AtMostOne == {s \in Seq(Texts) : Len(s) <= 1}
OptionDetails == [short : Seq(Letters), long : Seq(Letters), type : {"string", "list", "bool"},
                  default : AtMostOne, implicit : AtMostOne]

ASSUME OptionsAssumption ==
    /\ MaxArguments \in Nat
    /\ {"t", "f"} \subseteq Letters
    /\ Arguments \subseteq Texts
    /\ \A s \in Setups : /\ s.options \in Seq(OptionDetails)
                         /\ s.positional \in Seq(Seq(Letters))
                         /\ s.unrecognised \in BOOLEAN

Argument(dashes, name) ==
    [dashes |-> dashes, name |-> name, eq |-> FALSE, text |-> <<>>, more |-> <<>>]
Word(letters) == Argument(0, letters)

\* What follows the equals sign of an argument.
Behind(a) == [Word(a.text) EXCEPT !.more = a.more]

Truthy == {Word(<<"t">>), Word(<<"1">>)}
Falsy == {Word(<<"f">>)}
True == Word(<<"t">>)
False == Word(<<"f">>)

\* cxxopts::value<T>(), with default_value and implicit_value as sequences of
\* at most one text; a bool has both.
String(short, long, default) ==
    [short |-> short, long |-> long, type |-> "string", default |-> default, implicit |-> <<>>]
Bool(short, long) ==
    [short |-> short, long |-> long, type |-> "bool", default |-> <<False>>, implicit |-> <<True>>]
List(short, long, default) ==
    [short |-> short, long |-> long, type |-> "list", default |-> default, implicit |-> <<>>]

\* The options of the client, "f,torrentFile" and "o,outputDirectory".
ClientSetup ==
    [options |-> <<String(<<"f">>, <<"t", "F">>, <<>>),
                   String(<<"o">>, <<"o", "D">>, <<Word(<<"r">>)>>)>>,
     positional |-> <<>>, unrecognised |-> FALSE]

OptionSet == DOMAIN setup.options
Detail(o) == setup.options[o]
HasImplicit(o) == Detail(o).implicit # <<>>
HasDefault(o) == Detail(o).default # <<>>
IsContainer(o) == Detail(o).type = "list"
Known(name) == name \in DOMAIN names

\* The exceptions of the library are all OptionExceptions, which main catches
\* around parse, but not around add_options.
SpecErrors == {"option_exists", "invalid_option_format"}
ParseErrors == {"option_syntax", "option_not_exists", "missing_argument",
                "option_requires_argument", "argument_incorrect_type"}

-----------------------------------------------------------------------------
(* option_matcher; every other argument is no flag, and a name holds no     *)
(* delimiter.                                                              *)

IsTerminator(a) == a.dashes = 2 /\ a.name = <<>> /\ ~a.eq /\ a.more = <<>>
IsLong(a)       == a.dashes = 2 /\ Len(a.name) > 1 /\ (a.eq \/ a.more = <<>>)
IsShorts(a)     == a.dashes = 1 /\ Len(a.name) > 0 /\ ~a.eq /\ a.more = <<>>
IsFlag(a)       == IsLong(a) \/ IsShorts(a)
IsWrong(a)      == ~IsFlag(a) /\ a.dashes > 0 /\ a # Argument(1, <<>>)

-----------------------------------------------------------------------------
Init ==
    /\ setup \in Setups
    /\ given \in UNION {[1 .. n -> Arguments] : n \in 0 .. MaxArguments}
    /\ pc = "define"
    /\ names = <<>>
    /\ argv = given
    /\ argc = Len(given) + 1
    /\ nextKeep = 1
    /\ result = [defined |-> 0, current |-> 1, next |-> 1, sequential |-> <<>>,
                 error |-> "none", count |-> [o \in OptionSet |-> 0],
                 default |-> [o \in OptionSet |-> FALSE],
                 value |-> [o \in OptionSet |-> <<>>]]

Throw(r, error) == [r EXCEPT !.error = error]

\* OptionAdder: a long name of one letter is the short one.  The short name
\* is entered before it turns out that the long one exists.
NamesOf(d) == {d.short, d.long} \ {<<>>}
Malformed(d) == NamesOf(d) = {} \/ (d.short # <<>> /\ Len(d.long) = 1)

\* A name that is there keeps its option.
Entered(found, o) ==
    [name \in DOMAIN names \union found |-> IF Known(name) THEN names[name] ELSE o]

AddOption ==
    /\ pc = "define" /\ result.defined < Len(setup.options)
    /\ LET o == result.defined + 1
           d == Detail(o)
           taken == NamesOf(d) \intersect DOMAIN names
       IN \/ /\ Malformed(d)
             /\ result' = Throw(result, "invalid_option_format")
             /\ pc' = "thrown" /\ UNCHANGED names
          \/ /\ ~Malformed(d) /\ taken = {}
             /\ names' = Entered(NamesOf(d), o)
             /\ result' = [result EXCEPT !.defined = o]
             /\ pc' = pc
          \/ /\ ~Malformed(d) /\ taken # {}
             /\ names' = Entered({d.short} \ {<<>>}, o)
             /\ result' = Throw(result, "option_exists")
             /\ pc' = "thrown"
    /\ UNCHANGED <<setup, argv, argc, nextKeep, given>>

StartParse ==
    /\ pc = "define" /\ result.defined = Len(setup.options)
    /\ pc' = "arguments"
    /\ UNCHANGED <<setup, names, argv, argc, nextKeep, result, given>>

-----------------------------------------------------------------------------
\* The words a vector gets from a text: those between its delimiters, without
\* the last one when nothing is left for it.  An empty text has none.
Words(text) ==
    LET all == <<[text EXCEPT !.more = <<>>]>>
                 \o [i \in DOMAIN text.more |-> Word(text.more[i])]
    IN  IF Last(all) = Word(<<>>) THEN Front(all) ELSE all

\* parse_value: a vector goes on with what it has.
Stored(o, old, text) ==
    CASE Detail(o).type = "list"   -> old \o Words(text)
      [] Detail(o).type = "string" -> <<text>>
      [] Detail(o).type = "bool"   -> <<IF text \in Truthy THEN True ELSE False>>

Refuses(o, text) == Detail(o).type = "bool" /\ text \notin Truthy \union Falsy

\* OptionValue
WithValue(r, o, text) == [r EXCEPT !.count[o] = @ + 1, !.value[o] = Stored(o, @, text)]
WithDefault(r, o) ==
    LET text == Head(Detail(o).default)
        q == [r EXCEPT !.default[o] = TRUE]
    IN  IF Refuses(o, text) THEN Throw(q, "argument_incorrect_type")
        ELSE [q EXCEPT !.value[o] = Stored(o, @, text)]

ParseOption(r, o, text) ==
    IF Refuses(o, text) THEN Throw(r, "argument_incorrect_type")
    ELSE [WithValue(r, o, text) EXCEPT !.sequential = Append(@, <<o, text>>)]

\* Mutant of CheckedParseArg: the next argument is used up for every option.
CheckedParseArgAlways(r, o) ==
    IF r.current + 1 >= argc THEN Throw(r, "missing_argument")
    ELSE [ParseOption(r, o, IF HasImplicit(o) THEN Head(Detail(o).implicit)
                                              ELSE argv[r.current + 1])
          EXCEPT !.current = @ + 1]

\* The value of an option is implied, or it is the next argument, whatever
\* that looks like.
CheckedParseArg(r, o) ==
    IF HasImplicit(o) THEN ParseOption(r, o, Head(Detail(o).implicit))
    ELSE IF r.current + 1 >= argc THEN Throw(r, "missing_argument")
    ELSE [ParseOption(r, o, argv[r.current + 1]) EXCEPT !.current = @ + 1]

\* Mutant of Letter: only the last letter can go without a value.
LetterAnyhow(r, letters, i) ==
    LET name == <<letters[i]>> IN
    IF r.error # "none" THEN r
    ELSE IF ~Known(name) THEN IF setup.unrecognised THEN r ELSE Throw(r, "option_not_exists")
    ELSE IF i = Len(letters) THEN CheckedParseArg(r, names[name])
    ELSE ParseOption(r, names[name], True)

\* Only the last letter behind one dash can have a value of its own.
Letter(r, letters, i) ==
    LET name == <<letters[i]>> IN
    IF r.error # "none" THEN r
    ELSE IF ~Known(name) THEN IF setup.unrecognised THEN r ELSE Throw(r, "option_not_exists")
    ELSE IF i = Len(letters) THEN CheckedParseArg(r, names[name])
    ELSE IF HasImplicit(names[name])
         THEN ParseOption(r, names[name], Head(Detail(names[name]).implicit))
    ELSE Throw(r, "option_requires_argument")

ParseLetters(r, letters) ==
    LET after[i \in 0 .. Len(letters)] == IF i = 0 THEN r ELSE Letter(after[i - 1], letters, i)
    IN  after[Len(letters)]

\* consume_positional goes to the first positional option from next on that
\* does not exist, takes many texts, or has none yet.
Places(r) ==
    {i \in r.next .. Len(setup.positional) :
        LET name == setup.positional[i]
        IN Known(name) => IsContainer(names[name]) \/ r.count[names[name]] = 0}

Consumed(r) == Places(r) # {}

ConsumePositional(r, a) ==
    LET i == Min(Places(r))
        name == setup.positional[i]
    IN IF ~Consumed(r) THEN [r EXCEPT !.next = Len(setup.positional) + 1]
       ELSE IF ~Known(name) THEN Throw(r, "option_not_exists")
       ELSE [ParseOption(r, names[name], a)
             EXCEPT !.next = IF IsContainer(names[name]) THEN i ELSE i + 1]

-----------------------------------------------------------------------------
(* ParseResult::parse                                                      *)

Reading == pc = "arguments" /\ result.current # argc
This == argv[result.current]

\* The parser goes on with the next argument, or has thrown.
Proceed(r) ==
    /\ result' = IF r.error = "none" THEN [r EXCEPT !.current = @ + 1] ELSE r
    /\ pc' = IF r.error = "none" THEN pc ELSE "thrown"

Keep == argv' = [argv EXCEPT ![nextKeep] = This] /\ nextKeep' = nextKeep + 1
KeepNothing == UNCHANGED <<argv, nextKeep>>

Terminator ==
    /\ Reading /\ IsTerminator(This)
    /\ result' = [result EXCEPT !.current = @ + 1]
    /\ pc' = "defaults"
    /\ UNCHANGED <<setup, names, argv, argc, nextKeep, given>>

NoFlag ==
    /\ Reading /\ ~IsTerminator(This) /\ ~IsFlag(This)
    /\ \/ /\ IsWrong(This) /\ ~setup.unrecognised
          /\ Proceed(Throw(result, "option_syntax")) /\ KeepNothing
       \/ /\ ~IsWrong(This) \/ setup.unrecognised
          /\ Proceed(ConsumePositional(result, This))
          /\ IF Consumed(result) THEN KeepNothing ELSE Keep
    /\ UNCHANGED <<setup, names, argc, given>>

ShortOptions ==
    /\ Reading /\ IsShorts(This)
    /\ Proceed(ParseLetters(result, This.name))
    /\ UNCHANGED <<setup, names, argv, argc, nextKeep, given>>

UnknownLongOption ==
    /\ Reading /\ IsLong(This) /\ ~Known(This.name)
    /\ IF setup.unrecognised
       THEN Proceed(result) /\ Keep
       ELSE Proceed(Throw(result, "option_not_exists")) /\ KeepNothing
    /\ UNCHANGED <<setup, names, argc, given>>

\* Mutant of LongOption: the argument behind a value given by = is skipped.
LongOptionSkips ==
    /\ Reading /\ IsLong(This) /\ Known(This.name)
    /\ LET o == names[This.name]
       IN Proceed(IF This.eq
                  THEN [ParseOption(result, o, Behind(This)) EXCEPT !.current = @ + 1]
                  ELSE CheckedParseArg(result, o))
    /\ UNCHANGED <<setup, names, argv, argc, nextKeep, given>>

LongOption ==
    /\ Reading /\ IsLong(This) /\ Known(This.name)
    /\ LET o == names[This.name]
       IN Proceed(IF This.eq THEN ParseOption(result, o, Behind(This))
                             ELSE CheckedParseArg(result, o))
    /\ UNCHANGED <<setup, names, argv, argc, nextKeep, given>>

EndOfArguments ==
    /\ pc = "arguments" /\ result.current = argc
    /\ pc' = "defaults"
    /\ UNCHANGED <<setup, names, argv, argc, nextKeep, result, given>>

\* Mutant of WantsDefault: defaults are for options that were used.
WantsDefaultUsed(r, o) == HasDefault(o) /\ r.count[o] # 0 /\ ~r.default[o]

\* The loop meets an option once under each of its names, in an order that only
\* tells which wrong default throws first.
WantsDefault(r, o) == HasDefault(o) /\ r.count[o] = 0 /\ ~r.default[o]

WithDefaults(r) ==
    LET after[i \in 0 .. 2 * Len(setup.options)] ==
          LET o == (i + 1) \div 2 IN
          IF i = 0 THEN r
          ELSE IF after[i - 1].error = "none" /\ WantsDefault(after[i - 1], o)
               THEN WithDefault(after[i - 1], o)
          ELSE after[i - 1]
    IN  after[2 * Len(setup.options)]

Defaults ==
    /\ pc = "defaults"
    /\ result' = WithDefaults(result)
    /\ pc' = IF WithDefaults(result).error = "none" THEN "rest" ELSE "thrown"
    /\ UNCHANGED <<setup, names, argv, argc, nextKeep, given>>

\* What follows "--" is positional; without it nothing is left here.
ConsumeRest ==
    /\ pc = "rest" /\ result.current < argc /\ Consumed(result)
    /\ Proceed(ConsumePositional(result, This))
    /\ UNCHANGED <<setup, names, argv, argc, nextKeep, given>>

KeepRest ==
    /\ pc = "rest" /\ (result.current = argc \/ ~Consumed(result))
    /\ argc' = nextKeep + argc - result.current
    /\ argv' = [i \in DOMAIN argv |->
                  IF i \in nextKeep .. argc' - 1
                  THEN argv[i + result.current - nextKeep] ELSE argv[i]]
    /\ nextKeep' = argc'
    /\ pc' = "parsed"
    /\ UNCHANGED <<setup, names, result, given>>

-----------------------------------------------------------------------------
(* main                                                                    *)

\* An exception thrown while the options are defined is not caught.
Catch ==
    /\ pc = "thrown"
    /\ pc' = IF result.defined < Len(setup.options) THEN "terminated" ELSE "usage"
    /\ UNCHANGED <<setup, names, argv, argc, nextKeep, result, given>>

CountOf(name) == IF Known(name) THEN result.count[names[name]] ELSE 0

\* as<string>() of an option without a value throws std::domain_error, which
\* is not caught.
HasValue(name) == Known(name) /\ result.value[names[name]] # <<>>

\* Without a torrent file there is nothing to do.
UseResult ==
    /\ pc = "parsed" /\ setup = ClientSetup
    /\ pc' = IF CountOf(<<"t", "F">>) = 0 THEN "idle"
             ELSE IF HasValue(<<"f">>) /\ HasValue(<<"o">>) THEN "construct"
             ELSE "terminated"
    /\ UNCHANGED <<setup, names, argv, argc, nextKeep, result, given>>

Parse ==
    \/ Terminator \/ NoFlag \/ ShortOptions \/ UnknownLongOption \/ LongOption
    \/ EndOfArguments \/ Defaults \/ ConsumeRest \/ KeepRest

Next == AddOption \/ StartParse \/ Parse \/ Catch \/ UseResult

Spec == Init /\ [][Next]_vars

-----------------------------------------------------------------------------
(* What a command line means, by the place of each argument                *)

LastPlace == Len(given)

NamesIn(a) == IF IsShorts(a) THEN {<<a.name[i]>> : i \in DOMAIN a.name} ELSE {a.name}

TakesNext(a) ==
    LET name == IF IsShorts(a) THEN <<Last(a.name)>> ELSE a.name
    IN IsFlag(a) /\ ~a.eq /\ Known(name) /\ ~HasImplicit(names[name])

\* An argument is the value of the one before it, unless that is a value.
IsValue[p \in 0 .. LastPlace] == p > 1 /\ ~IsValue[p - 1] /\ TakesNext(given[p - 1])

\* The place of the "--" that ends the options.
End == Min({p \in 1 .. LastPlace : IsTerminator(given[p]) /\ ~IsValue[p]} \union {LastPlace + 1})

IsOption(p) == p < End /\ ~IsValue[p] /\ IsFlag(given[p])
IsFree(p) == p > End \/ (p < End /\ ~IsValue[p] /\ ~IsFlag(given[p]))

Unclear(p) ==
    LET a == given[p]
    IN \/ p < End /\ IsFree(p) /\ IsWrong(a) /\ ~setup.unrecognised
       \/ /\ IsOption(p)
          /\ \/ ~setup.unrecognised /\ \E name \in NamesIn(a) : ~Known(name)
             \/ TakesNext(a) /\ p = LastPlace
             \/ IsShorts(a) /\ \E i \in 1 .. Len(a.name) - 1 :
                    Known(<<a.name[i]>>) /\ ~HasImplicit(names[<<a.name[i]>>])

\* What the option of that name is set to by the argument at p.
Setting(name, p) ==
    LET implicit == Detail(names[name]).implicit
    IN <<names[name], IF given[p].eq THEN Behind(given[p])
                      ELSE IF implicit # <<>> THEN Head(implicit) ELSE given[p + 1]>>

FlagsAt(p) ==
    LET a == given[p]
    IN IF IsShorts(a) THEN [i \in 1 .. Len(a.name) |-> <<a.name[i]>>] ELSE <<a.name>>

\* The options an argument sets, each with its text.
Flagged(p) ==
    LET flags == FlagsAt(p)
        upTo[i \in 0 .. Len(flags)] ==
            IF i = 0 THEN <<>>
            ELSE IF Known(flags[i]) THEN Append(upTo[i - 1], Setting(flags[i], p))
            ELSE upTo[i - 1]
    IN  upTo[Len(flags)]

\* The positional options that can still take a text.
Open(before) ==
    {i \in DOMAIN setup.positional :
        LET name == setup.positional[i]
        IN Known(name) => \/ IsContainer(names[name])
                          \/ \A k \in DOMAIN before : before[k][1] # names[name]}

Positional(before, p) ==
    LET name == setup.positional[Min(Open(before))]
    IN IF Open(before) = {} \/ ~Known(name) THEN <<>> ELSE <<<<names[name], given[p]>>>>

\* What the arguments up to a place have set, from left to right.
Settings[p \in 0 .. LastPlace] ==
    IF p = 0 THEN <<>>
    ELSE Settings[p - 1] \o
           (IF IsOption(p) /\ ~Unclear(p) THEN Flagged(p)
            ELSE IF IsFree(p) THEN Positional(Settings[p - 1], p) ELSE <<>>)

IsFaulty(p) ==
    \/ Unclear(p)
    \/ IsFree(p) /\ Open(Settings[p - 1]) # {}
                 /\ ~Known(setup.positional[Min(Open(Settings[p - 1]))])
    \/ \E k \in DOMAIN Settings[p] : Refuses(Settings[p][k][1], Settings[p][k][2])

IsLeftOver(p) ==
    \/ IsFree(p) /\ Settings[p] = Settings[p - 1]
    \/ IsOption(p) /\ IsLong(given[p]) /\ ~Known(given[p].name)

\* What is left over of the arguments up to a place.
LeftOver[p \in 0 .. LastPlace] ==
    IF p = 0 THEN <<>>
    ELSE IF IsLeftOver(p) THEN Append(LeftOver[p - 1], given[p])
    ELSE LeftOver[p - 1]

\* The texts that the settings have for an option.
TextsOf(o, settings) ==
    LET upTo[k \in 0 .. Len(settings)] ==
          IF k = 0 THEN <<>>
          ELSE IF settings[k][1] = o THEN Append(upTo[k - 1], settings[k][2])
          ELSE upTo[k - 1]
    IN  upTo[Len(settings)]

\* The default is there for options that nothing before "--" has set.
DefaultOf(o) == IF TextsOf(o, Settings[End - 1]) = <<>> THEN Detail(o).default ELSE <<>>

\* A default that the option does not take.
HasWrongDefault(o) == DefaultOf(o) # <<>> /\ Refuses(o, Head(DefaultOf(o)))

\* The words of several texts, one after the other.
AllWords(texts) ==
    LET upTo[k \in 0 .. Len(texts)] ==
          IF k = 0 THEN <<>> ELSE upTo[k - 1] \o Words(texts[k])
    IN  upTo[Len(texts)]

ValueOf(o) ==
    LET texts == DefaultOf(o) \o TextsOf(o, Settings[LastPlace])
    IN IF IsContainer(o) THEN AllWords(texts)
       ELSE IF texts = <<>> THEN <<>> ELSE Stored(o, <<>>, Last(texts))

IsAmbiguous ==
    \E o \in OptionSet : \/ Malformed(Detail(o))
                         \/ \E other \in OptionSet \ {o} :
                               NamesOf(Detail(o)) \intersect NamesOf(Detail(other)) # {}

\* What there is to complain about.
IsMistaken ==
    \/ IsAmbiguous
    \/ \E p \in 1 .. LastPlace : IsFaulty(p)
    \/ \E o \in OptionSet : HasWrongDefault(o)

-----------------------------------------------------------------------------
(* Properties                                                              *)

Parsed == pc \in {"parsed", "idle", "construct"}

\* The places in argv stay in bounds: what is kept never overtakes what is
\* read, and the loop that ends at argc does not step over it.
TypeOK ==
    /\ pc \in {"define", "arguments", "defaults", "rest", "parsed", "thrown",
               "usage", "idle", "construct", "terminated"}
    /\ 1 <= nextKeep /\ nextKeep <= argc /\ argc <= Len(given) + 1
    /\ result.current <= Len(given) + 1
    /\ ~Parsed => nextKeep <= result.current
    /\ Len(argv) = Len(given)
    /\ result.error \in SpecErrors \union ParseErrors \union {"none"}
    /\ \A o \in OptionSet : ~IsContainer(o) => Len(result.value[o]) <= 1

\* After a parse every option has the texts that the arguments meant for it by
\* their places, or its default, a list the words of all of them; the uses are
\* in their order, and argv holds the texts that no option took and the long
\* options that are not known, in their order.  Letters that are not known are
\* dropped.
MeansArguments ==
    Parsed =>
        /\ result.sequential = Settings[LastPlace]
        /\ \A o \in OptionSet : /\ result.count[o] = Len(TextsOf(o, Settings[LastPlace]))
                                /\ result.value[o] = ValueOf(o)
        /\ SubSeq(argv, 1, argc - 1) = LeftOver[LastPlace]

\* An exception means that two options have the same name, that some argument
\* makes no sense at its place, or that an option which nothing before "--" has
\* set does not take its default; otherwise there is none.
FailsForAReason ==
    /\ Parsed => ~IsMistaken
    /\ pc \in {"thrown", "usage", "terminated"} => IsMistaken

\* On no command line does the client end by an exception of its options: its
\* definitions are in order, and what it reads of the result is there.
ClientServed == setup = ClientSetup => pc # "terminated"
=============================================================================
