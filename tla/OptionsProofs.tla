----------------------------- MODULE OptionsProofs -----------------------------
(***************************************************************************)
(* The parser of the command line gives every argument its meaning: what   *)
(* it has read of argv, from left to right and while it moves arguments,   *)
(* agrees after every argument with what the arguments up to there mean by *)
(* their places.                                                           *)
(***************************************************************************)
EXTENDS Options, Induction, SequenceTheorems, FiniteSetTheorems

-----------------------------------------------------------------------------
(* The invariant                                                           *)

Errors == SpecErrors \union ParseErrors \union {"none"}

\* An option with a text for it.
Uses == OptionSet \X Texts

Results == [defined : Nat, current : Nat \ {0}, next : Nat \ {0}, sequential : Seq(Uses),
            error : Errors, count : [OptionSet -> Nat], default : [OptionSet -> BOOLEAN],
            value : [OptionSet -> Seq(Texts)]]

\* The options 1 .. n are in names, and nothing else.
Named(n) ==
    /\ \A o \in 1 .. n : /\ ~Malformed(Detail(o))
                         /\ \A name \in NamesOf(Detail(o)) : Known(name) /\ names[name] = o
    /\ \A name \in DOMAIN names : names[name] \in 1 .. n /\ name \in NamesOf(Detail(names[name]))

FreshResult(n) ==
    [defined |-> n, current |-> 1, next |-> 1, sequential |-> <<>>,
     error |-> "none", count |-> [o \in OptionSet |-> 0],
     default |-> [o \in OptionSet |-> FALSE], value |-> [o \in OptionSet |-> <<>>]]

Defining ==
    /\ result.defined \in 0 .. Len(setup.options)
    /\ Named(result.defined)
    /\ result = FreshResult(result.defined)
    /\ argv = given /\ argc = LastPlace + 1 /\ nextKeep = 1

\* A result agrees with what was set, and so do its positional options: those
\* that were passed cannot take a text any more.
Matches(r, settings) ==
    /\ r.error = "none"
    /\ r.sequential = settings
    /\ \A o \in OptionSet : r.count[o] = Len(TextsOf(o, settings))
    /\ \A i \in DOMAIN setup.positional : i < r.next => i \notin Open(settings)
    /\ \A k \in DOMAIN settings : ~Refuses(settings[k][1], settings[k][2])

ValueFrom(o, texts) ==
    IF IsContainer(o) THEN AllWords(texts)
    ELSE IF texts = <<>> THEN <<>> ELSE Stored(o, <<>>, Last(texts))

\* The values are made of the texts in D and of those that were set.
Values(r, settings, D) ==
    \A o \in OptionSet : r.value[o] = ValueFrom(o, D[o] \o TextsOf(o, settings))

NoDefaults == [o \in OptionSet |-> <<>>]
AllDefaults == [o \in OptionSet |-> DefaultOf(o)]

\* What was left over before the place c is at the start of argv, and what is
\* to be read is untouched.
Kept(v, keep, c) ==
    /\ keep \in 1 .. c
    /\ v \in Seq(Texts) /\ Len(v) = LastPlace
    /\ Len(LeftOver[c - 1]) = keep - 1
    /\ \A i \in 1 .. keep - 1 : v[i] = LeftOver[c - 1][i]
    /\ \A i \in c .. LastPlace : v[i] = given[i]

\* The arguments before the current one are read.
ReadBefore(r, v, keep, D) ==
    LET c == r.current
    IN  /\ c \in 1 .. LastPlace + 1
        /\ Matches(r, Settings[c - 1])
        /\ Values(r, Settings[c - 1], D)
        /\ \A p \in 1 .. c - 1 : ~IsFaulty(p)
        /\ Kept(v, keep, c)

\* An argument is read that is no value of the one before it.
Ahead(c) == End >= c /\ (c <= LastPlace => ~IsValue[c])

NoneDefault == \A o \in OptionSet : ~result.default[o]

InArguments ==
    /\ ReadBefore(result, argv, nextKeep, NoDefaults) /\ argc = LastPlace + 1
    /\ NoneDefault
    /\ Ahead(result.current)

InDefaults ==
    /\ ReadBefore(result, argv, nextKeep, NoDefaults) /\ argc = LastPlace + 1
    /\ NoneDefault
    /\ result.current = LastPlace + 1 \/ End < result.current
    /\ Settings[result.current - 1] = Settings[End - 1]

InRest ==
    /\ ReadBefore(result, argv, nextKeep, AllDefaults) /\ argc = LastPlace + 1
    /\ result.current = LastPlace + 1 \/ End < result.current

AllRead ==
    /\ Matches(result, Settings[LastPlace])
    /\ Values(result, Settings[LastPlace], AllDefaults)
    /\ \A p \in 1 .. LastPlace : ~IsFaulty(p)
    /\ SubSeq(argv, 1, argc - 1) = LeftOver[LastPlace]

\* The options are defined, as a whole and without mistake.
Defined == result.defined = Len(setup.options) /\ Named(Len(setup.options))

Sensible == pc \in {"arguments", "defaults", "rest", "parsed", "idle", "construct"}

\* Every option that was not set takes its default.
DefaultsFit == \A o \in OptionSet : ~HasWrongDefault(o)

\* No option but a list has more than one text, and the places are places of
\* the command line or the one behind it.
Lengths(r) == \A o \in OptionSet : ~IsContainer(o) => Len(r.value[o]) <= 1

InBounds(r, v, keep, c) ==
    /\ Lengths(r)
    /\ v \in Seq(Texts) /\ Len(v) = LastPlace
    /\ keep \in 1 .. c /\ c \in 1 .. LastPlace + 1
    /\ r.current <= LastPlace + 1

OptionsInv ==
    /\ pc \in {"define", "arguments", "defaults", "rest", "parsed", "thrown",
               "usage", "idle", "construct", "terminated"}
    /\ setup \in Setups /\ given \in Seq(Texts)
    /\ result \in Results
    /\ pc = "define" => Defining
    /\ Sensible => Defined
    /\ pc = "arguments" => InArguments
    /\ pc = "defaults" => InDefaults
    /\ pc = "rest" => InRest
    /\ Parsed => AllRead
    /\ pc = "rest" \/ Parsed => DefaultsFit
    /\ pc \in {"thrown", "usage"} => IsMistaken
    /\ pc = "thrown" => result.defined = Len(setup.options) \/ IsAmbiguous
    /\ pc = "terminated" => IsAmbiguous
    /\ pc \in {"parsed", "idle", "construct", "thrown", "usage", "terminated"} =>
          InBounds(result, argv, nextKeep, argc)
    /\ pc \in {"thrown", "usage", "terminated"} => nextKeep <= result.current

-----------------------------------------------------------------------------
(* The definitions                                                         *)

LEMMA MinOf ==
  ASSUME NEW S, S \subseteq Nat, S # {}
  PROVE  Min(S) \in S /\ \A i \in S : Min(S) <= i
<1>1. PICK least \in S : \A k \in S : ~(<<k, least>> \in OpToRel(<, Nat))
  BY WFMin, NatLessThanWellFounded
<1>2. \A k \in S : least <= k
  <2> SUFFICES ASSUME NEW k \in S
               PROVE  least <= k
    OBVIOUS
  <2>1. k \in Nat /\ least \in Nat
    OBVIOUS
  <2>2. ~(k < least)
    BY <1>1, <2>1 DEF OpToRel
  <2> QED
    BY <2>1, <2>2
<1> QED
  BY <1>2 DEF Min

\* A program that has defined its options, and a command line.
Context ==
    /\ setup \in Setups /\ given \in Seq(Texts)
    /\ Named(Len(setup.options))

LEMMA Shapes ==
  ASSUME setup \in Setups
  PROVE  /\ Len(setup.options) \in Nat
         /\ OptionSet = 1 .. Len(setup.options)
         /\ \A o \in OptionSet : Detail(o) \in OptionDetails
         /\ setup.positional \in Seq(Seq(Letters))
         /\ setup.unrecognised \in BOOLEAN
<1>1. setup.options \in Seq(OptionDetails)
  BY OptionsAssumption
<1>2. setup.positional \in Seq(Seq(Letters)) /\ setup.unrecognised \in BOOLEAN
  BY OptionsAssumption
<1> QED
  BY <1>1, <1>2 DEF OptionSet, Detail

LEMMA OneText ==
  ASSUME NEW d \in OptionDetails
  PROVE  /\ d.default # <<>> => Head(d.default) \in Texts /\ d.default = <<Head(d.default)>>
         /\ d.implicit # <<>> => Head(d.implicit) \in Texts
         /\ d.default \in Seq(Texts)
         /\ d.type \in {"string", "list", "bool"}
         /\ d.short \in Seq(Letters) /\ d.long \in Seq(Letters)
<1>1. d.default \in AtMostOne /\ d.implicit \in AtMostOne
  BY DEF OptionDetails
<1>2. \A s \in AtMostOne : s # <<>> => Head(s) \in Texts /\ s = <<Head(s)>>
  <2>1. ASSUME NEW S, NEW s \in Seq(S), Len(s) <= 1, s # <<>>
        PROVE  Head(s) \in S /\ s = <<Head(s)>>
    <3>1. Len(s) = 0 <=> s = <<>>
      BY EmptySeq
    <3>2. Len(s) = 1
      <4>1. PICK n \in Nat : n = Len(s)
        OBVIOUS
      <4>2. n # 0 /\ n <= 1
        BY <2>1, <3>1, <4>1
      <4>3. n = 1
        BY <4>2
      <4> QED
        BY <4>1, <4>3
    <3>3. Head(s) = s[1] /\ s[1] \in S
      BY <3>2
    <3>4. s = <<s[1]>>
      BY <3>2
    <3> QED
      BY <3>3, <3>4
  <2> QED
    BY <2>1 DEF AtMostOne
<1>3. d.default \in Seq(Texts)
  BY <1>1 DEF AtMostOne
<1> QED
  BY <1>1, <1>2, <1>3 DEF OptionDetails

LEMMA NamesKnown ==
  ASSUME Context, NEW name, Known(name)
  PROVE  names[name] \in OptionSet /\ Detail(names[name]) \in OptionDetails
<1>1. names[name] \in 1 .. Len(setup.options)
  BY DEF Context, Named, Known
<1> QED
  BY <1>1, Shapes DEF Context

LEMMA GivenText ==
  ASSUME given \in Seq(Texts), NEW p \in 1 .. LastPlace
  PROVE  /\ given[p] \in Texts
         /\ given[p].name \in Seq(Letters) /\ given[p].text \in Seq(Letters)
         /\ given[p].eq \in BOOLEAN
<1>1. given[p] \in Texts
  BY DEF LastPlace
<1> QED
  BY <1>1 DEF Texts

LEMMA WordText ==
  ASSUME NEW letters \in Seq(Letters)
  PROVE  Word(letters) \in Texts
BY DEF Word, Argument, Texts

LEMMA BehindText ==
  ASSUME NEW a \in Texts
  PROVE  Behind(a) \in Texts
<1>1. a.text \in Seq(Letters) /\ a.more \in Seq(Seq(Letters))
  BY DEF Texts
<1>2. PICK w \in Texts : w = Word(a.text)
  BY <1>1, WordText
<1> QED
  BY <1>1, <1>2 DEF Behind, Texts

LEMMA FlagsType ==
  ASSUME NEW p, p \in 1 .. LastPlace, given \in Seq(Texts)
  PROVE  /\ FlagsAt(p) \in Seq(Seq(Letters))
         /\ IsShorts(given[p]) => Len(FlagsAt(p)) = Len(given[p].name)
         /\ IsShorts(given[p]) =>
              \A i \in 1 .. Len(given[p].name) : FlagsAt(p)[i] = <<given[p].name[i]>>
         /\ ~IsShorts(given[p]) => FlagsAt(p) = <<given[p].name>>
<1>1. PICK a : a = given[p] /\ a.name \in Seq(Letters)
  BY GivenText
<1>2. CASE IsShorts(a)
  <2>1. FlagsAt(p) = [i \in 1 .. Len(a.name) |-> <<a.name[i]>>]
    BY <1>1, <1>2 DEF FlagsAt
  <2>2. PICK n \in Nat : n = Len(a.name)
    BY <1>1
  <2>3. \A i \in 1 .. n : a.name[i] \in Letters
    BY <1>1, <2>2
  <2>4. \A x \in Letters : <<x>> \in Seq(Letters)
    <3>1. \A S : \A x \in S : <<x>> \in Seq(S)
      OBVIOUS
    <3> QED
      BY <3>1
  <2>5. FlagsAt(p) \in [1 .. n -> Seq(Letters)]
    BY <2>1, <2>2, <2>3, <2>4
  <2>6. FlagsAt(p) \in Seq(Seq(Letters)) /\ Len(FlagsAt(p)) = n
    BY <2>5, FunctionIsSeq
  <2> QED
    BY <1>1, <1>2, <2>1, <2>2, <2>6
<1>3. CASE ~IsShorts(a)
  BY <1>1, <1>3 DEF FlagsAt
<1> QED
  BY <1>1, <1>2, <1>3

\* What TextsOf has after each of the settings.
TextsUpTo(f, o, s) ==
    /\ f \in [0 .. Len(s) -> Seq(Texts)]
    /\ f[0] = <<>>
    /\ \A k \in 1 .. Len(s) : f[k] = IF s[k][1] = o THEN Append(f[k - 1], s[k][2]) ELSE f[k - 1]

LEMMA TextsMade ==
  ASSUME NEW o, NEW s \in Seq(Uses)
  PROVE  \E f : TextsUpTo(f, o, s) /\ TextsOf(o, s) = f[Len(s)]
<1>1. PICK n \in Nat : n = Len(s)
  OBVIOUS
<1> DEFINE V == Seq(Texts)
           NextN(f, k) == IF k = 0 THEN <<>>
                          ELSE IF s[k][1] = o THEN Append(f[k - 1], s[k][2])
                          ELSE f[k - 1]
           IsN(f) == f = [k \in 0 .. n |-> NextN(f, k)]
           G == [kd \in (1 .. n) \X V |->
                   IF s[kd[1]][1] = o THEN Append(kd[2], s[kd[1]][2]) ELSE kd[2]]
           F == CHOOSE f : IsN(f)
<1>2. TextsOf(o, s) = F[n]
  BY <1>1 DEF TextsOf
<1>3. /\ G \in [(1 .. n) \X V -> V]
      /\ \A k \in 1 .. n, d \in V :
            G[<<k, d>>] = IF s[k][1] = o THEN Append(d, s[k][2]) ELSE d
  <2>1. \A k \in 1 .. n : s[k][2] \in Texts
    BY <1>1 DEF Uses
  <2>2. \A d \in V, t \in Texts : Append(d, t) \in V
    OBVIOUS
  <2> HIDE DEF V
  <2> QED
    BY <2>1, <2>2
<1>v. <<>> \in V
  OBVIOUS
<1> HIDE DEF G, V
<1>4. PICK f \in [0 .. n -> V] : f[0] = <<>> /\ \A k \in 1 .. n : f[k] = G[<<k, f[k - 1]>>]
  <2>1. DefinedUpTo(n, V, <<>>, G)
    BY <1>3, <1>v, StepByStep
  <2> QED
    BY <2>1 DEF DefinedUpTo
<1>5. IsN(f)
  <2> SUFFICES ASSUME NEW k \in 0 .. n
               PROVE  f[k] = NextN(f, k)
    BY <1>4
  <2>1. CASE k = 0
    BY <1>4, <2>1
  <2>2. CASE k # 0
    <3>1. k \in 1 .. n /\ k - 1 \in 0 .. n
      BY <2>2
    <3>2. f[k - 1] \in V
      BY <3>1
    <3> QED
      BY <1>3, <1>4, <2>2, <3>1, <3>2
  <2> QED
    BY <2>1, <2>2
<1>6. IsN(F)
  BY <1>5
<1> HIDE DEF F
<1>7. \A k \in 0 .. n : F[k] = NextN(F, k)
  <2> HIDE DEF NextN
  <2> QED
    BY <1>6
<1>8. F[0] = <<>>
  BY <1>7
<1>9. \A k \in 1 .. n : F[k] = IF s[k][1] = o THEN Append(F[k - 1], s[k][2]) ELSE F[k - 1]
  BY <1>7
<1>10. \A k \in 0 .. n : F[k] \in V
  <2>1. \A k \in 1 .. n : F[k - 1] \in V => F[k] = G[<<k, F[k - 1]>>]
    BY <1>3, <1>9
  <2>2. F[0] \in V
    BY <1>8, <1>v
  <2> QED
    BY <1>3, <2>1, <2>2, StaysIn
<1>11. F \in [0 .. n -> V]
  BY <1>6, <1>10
<1>12. TextsUpTo(F, o, s)
  BY <1>1, <1>8, <1>9, <1>11 DEF TextsUpTo, V
<1> QED
  BY <1>1, <1>2, <1>12

LEMMA TextsOfNone ==
  ASSUME NEW o
  PROVE  TextsOf(o, <<>>) = <<>>
<1>1. <<>> \in Seq(Uses) /\ Len(<<>>) = 0
  OBVIOUS
<1>2. PICK f : TextsUpTo(f, o, <<>>) /\ TextsOf(o, <<>>) = f[Len(<<>>)]
  BY <1>1, TextsMade
<1> QED
  BY <1>1, <1>2 DEF TextsUpTo

LEMMA TextsType ==
  ASSUME NEW o, NEW s \in Seq(Uses)
  PROVE  TextsOf(o, s) \in Seq(Texts)
<1>1. PICK n \in Nat : n = Len(s)
  OBVIOUS
<1>2. PICK f : TextsUpTo(f, o, s) /\ TextsOf(o, s) = f[n]
  BY <1>1, TextsMade
<1> QED
  BY <1>1, <1>2 DEF TextsUpTo

LEMMA TextsOfMore ==
  ASSUME NEW o, NEW s \in Seq(Uses), NEW use \in Uses
  PROVE  TextsOf(o, Append(s, use)) =
            IF use[1] = o THEN Append(TextsOf(o, s), use[2]) ELSE TextsOf(o, s)
<1>1. PICK n \in Nat : n = Len(s)
  OBVIOUS
<1>2. PICK t : t = Append(s, use)
  OBVIOUS
<1>3. t \in Seq(Uses) /\ Len(t) = n + 1 /\ t[n + 1] = use /\ \A k \in 1 .. n : t[k] = s[k]
  BY <1>1, <1>2
<1>4. PICK f : TextsUpTo(f, o, s) /\ TextsOf(o, s) = f[n]
  BY <1>1, TextsMade
<1>5. PICK g : TextsUpTo(g, o, t) /\ TextsOf(o, t) = g[n + 1]
  <2>1. \E g : TextsUpTo(g, o, t) /\ TextsOf(o, t) = g[Len(t)]
    BY <1>3, TextsMade
  <2> QED
    BY <1>3, <2>1
<1> DEFINE T == {k \in 0 .. n : g[k] = f[k]}
<1>6. 0 \in T
  BY <1>4, <1>5 DEF TextsUpTo
<1>7. ASSUME NEW k \in 1 .. n, k - 1 \in T
      PROVE  k \in T
  <2>1. g[k - 1] = f[k - 1]
    BY <1>7
  <2>2. f[k] = IF s[k][1] = o THEN Append(f[k - 1], s[k][2]) ELSE f[k - 1]
    BY <1>1, <1>4 DEF TextsUpTo
  <2>3. g[k] = IF t[k][1] = o THEN Append(g[k - 1], t[k][2]) ELSE g[k - 1]
    <3>1. k \in 1 .. n + 1
      OBVIOUS
    <3> QED
      BY <1>3, <1>5, <3>1 DEF TextsUpTo
  <2>4. t[k] = s[k]
    BY <1>3
  <2>5. g[k] = f[k]
    BY <2>1, <2>2, <2>3, <2>4
  <2> QED
    BY <2>5
<1>8. g[n] = f[n]
  <2> HIDE DEF T
  <2>1. \A k \in 0 .. n : k \in T
    BY <1>6, <1>7, CountUp
  <2>2. n \in T
    BY <2>1
  <2> QED
    BY <2>2 DEF T
<1>9. g[n + 1] = IF use[1] = o THEN Append(g[n], use[2]) ELSE g[n]
  <2>1. n + 1 \in 1 .. n + 1 /\ (n + 1) - 1 = n
    OBVIOUS
  <2>2. g[n + 1] = IF t[n + 1][1] = o THEN Append(g[(n + 1) - 1], t[n + 1][2]) ELSE g[(n + 1) - 1]
    BY <1>3, <1>5, <2>1 DEF TextsUpTo
  <2> QED
    BY <1>3, <2>1, <2>2
<1> QED
  BY <1>2, <1>4, <1>5, <1>8, <1>9

\* IsValue has the value that its definition says, a Boolean.
LEMMA ValuesAre ==
  ASSUME given \in Seq(Texts)
  PROVE  \A p \in 0 .. LastPlace :
            IsValue[p] <=> p > 1 /\ ~IsValue[p - 1] /\ TakesNext(given[p - 1])
<1>1. PICK n \in Nat : n = LastPlace
  BY DEF LastPlace
<1> DEFINE NextN(f, k) == k > 1 /\ ~f[k - 1] /\ TakesNext(given[k - 1])
           IsN(f) == f = [k \in 0 .. n |-> NextN(f, k)]
           Takes(k) == k > 1 /\ TakesNext(given[k - 1])
           G == [kd \in (1 .. n) \X BOOLEAN |-> ~kd[2] /\ Takes(kd[1])]
<1>2. IsValue = CHOOSE f : IsN(f)
  BY <1>1 DEF IsValue
<1>3. /\ G \in [(1 .. n) \X BOOLEAN -> BOOLEAN]
      /\ \A k \in 1 .. n, d \in BOOLEAN : G[<<k, d>>] <=> ~d /\ Takes(k)
  <2> HIDE DEF Takes
  <2> QED
    OBVIOUS
<1> HIDE DEF G
<1>4. PICK f \in [0 .. n -> BOOLEAN] : f[0] = FALSE /\ \A k \in 1 .. n : f[k] = G[<<k, f[k - 1]>>]
  <2>1. DefinedUpTo(n, BOOLEAN, FALSE, G)
    BY <1>3, StepByStep
  <2> QED
    BY <2>1 DEF DefinedUpTo
<1>5. IsN(f)
  <2> SUFFICES ASSUME NEW k \in 0 .. n
               PROVE  f[k] = NextN(f, k)
    BY <1>4
  <2>1. CASE k = 0
    BY <1>4, <2>1
  <2>2. CASE k # 0
    <3>1. k \in 1 .. n /\ k - 1 \in 0 .. n
      BY <2>2
    <3>2. f[k - 1] \in BOOLEAN /\ f[k] \in BOOLEAN
      BY <3>1
    <3>3. f[k] <=> ~f[k - 1] /\ Takes(k)
      <4> HIDE DEF Takes
      <4> QED
        BY <1>3, <1>4, <3>1, <3>2
    <3>4. f[k] <=> NextN(f, k)
      BY <3>3
    <3>5. NextN(f, k) \in BOOLEAN
      OBVIOUS
    <3> HIDE DEF NextN, Takes
    <3> QED
      BY <3>2, <3>4, <3>5
  <2> QED
    BY <2>1, <2>2
<1>6. IsN(IsValue)
  BY <1>2, <1>5
<1>7. \A k \in 0 .. n : IsValue[k] = NextN(IsValue, k)
  <2> HIDE DEF NextN
  <2> QED
    BY <1>6
<1> QED
  BY <1>1, <1>7

LEMMA SettingType ==
  ASSUME Context, NEW p \in 1 .. LastPlace, IsOption(p), ~Unclear(p),
         NEW i \in 1 .. Len(FlagsAt(p)), Known(FlagsAt(p)[i])
  PROVE  Setting(FlagsAt(p)[i], p) \in Uses
<1>1. PICK a : a = given[p] /\ a.name \in Seq(Letters) /\ a.text \in Seq(Letters)
  BY GivenText DEF Context
<1>2. PICK name : name = FlagsAt(p)[i]
  OBVIOUS
<1>3. names[name] \in OptionSet /\ Detail(names[name]) \in OptionDetails
  BY <1>2, NamesKnown
<1>4. PICK implicit : implicit = Detail(names[name]).implicit
  OBVIOUS
<1>5. implicit # <<>> => Head(implicit) \in Texts
  BY <1>3, <1>4, OneText
<1>6. ~a.eq /\ implicit = <<>> => p < LastPlace
  <2> SUFFICES ASSUME ~a.eq, implicit = <<>>
               PROVE  p < LastPlace
    OBVIOUS
  <2>1. IsFlag(a) /\ ~(TakesNext(a) /\ p = LastPlace)
    BY <1>1 DEF IsOption, Unclear
  <2>5. p # LastPlace => p < LastPlace
    BY DEF Context, LastPlace
  <2>2. Known(name) /\ ~HasImplicit(names[name])
    BY <1>2, <1>4, <2>1 DEF HasImplicit
  <2>3. CASE IsShorts(a)
    <3>1. PICK n \in Nat : n = Len(a.name)
      BY <1>1
    <3>2. i \in 1 .. n /\ name = <<a.name[i]>>
      BY <1>1, <1>2, <2>3, <3>1, FlagsType DEF Context
    <3>3. ~(i \in 1 .. n - 1)
      BY <1>1, <2>2, <2>3, <3>1, <3>2 DEF Unclear
    <3>4. i = n
      BY <3>1, <3>2, <3>3
    <3>5. TakesNext(a)
      BY <2>1, <2>2, <2>3, <3>1, <3>2, <3>4 DEF TakesNext, Last
    <3> QED
      BY <2>1, <2>5, <3>5
  <2>4. CASE ~IsShorts(a)
    <3>1. FlagsAt(p) = <<a.name>>
      BY <1>1, <2>4, FlagsType DEF Context
    <3>2. name = a.name
      BY <1>2, <3>1
    <3>3. TakesNext(a)
      BY <2>1, <2>2, <2>4, <3>2 DEF TakesNext
    <3> QED
      BY <2>1, <2>5, <3>3
  <2> QED
    BY <2>3, <2>4
<1>7. PICK text : text = IF a.eq THEN Behind(a)
                         ELSE IF implicit # <<>> THEN Head(implicit) ELSE given[p + 1]
  OBVIOUS
<1>8. text \in Texts
  <2>1. a.eq => text \in Texts
    <3>1. a \in Texts
      BY <1>1, GivenText DEF Context
    <3> QED
      BY <1>7, <3>1, BehindText
  <2>2. ~a.eq /\ implicit = <<>> => p + 1 \in 1 .. LastPlace
    BY <1>6 DEF Context, LastPlace
  <2>3. ~a.eq /\ implicit = <<>> => given[p + 1] \in Texts
    BY <2>2, GivenText DEF Context
  <2> QED
    BY <1>5, <1>7, <2>1, <2>3
<1>9. Setting(name, p) = <<names[name], text>>
  BY <1>1, <1>4, <1>7 DEF Setting
<1> QED
  BY <1>2, <1>3, <1>8, <1>9 DEF Uses

\* What Flagged has after each of the names.
FlaggedUpTo(f, p) ==
    LET flags == FlagsAt(p)
    IN  /\ f \in [0 .. Len(flags) -> Seq(Uses)]
        /\ f[0] = <<>>
        /\ \A i \in 1 .. Len(flags) :
              f[i] = IF Known(flags[i]) THEN Append(f[i - 1], Setting(flags[i], p)) ELSE f[i - 1]

LEMMA FlaggedMade ==
  ASSUME Context, NEW p \in 1 .. LastPlace, IsOption(p), ~Unclear(p)
  PROVE  \E f : FlaggedUpTo(f, p) /\ Flagged(p) = f[Len(FlagsAt(p))]
<1>1. PICK flags : flags = FlagsAt(p) /\ flags \in Seq(Seq(Letters))
  BY FlagsType DEF Context
<1>2. PICK n \in Nat : n = Len(flags)
  BY <1>1
<1> DEFINE V == Seq(Uses)
           NextN(f, k) == IF k = 0 THEN <<>>
                          ELSE IF Known(flags[k]) THEN Append(f[k - 1], Setting(flags[k], p))
                          ELSE f[k - 1]
           IsN(f) == f = [k \in 0 .. n |-> NextN(f, k)]
           G == [kd \in (1 .. n) \X V |->
                   IF Known(flags[kd[1]]) THEN Append(kd[2], Setting(flags[kd[1]], p)) ELSE kd[2]]
           F == CHOOSE f : IsN(f)
<1>3. Flagged(p) = F[n]
  BY <1>1, <1>2 DEF Flagged
<1>4. /\ G \in [(1 .. n) \X V -> V]
      /\ \A k \in 1 .. n, d \in V :
            G[<<k, d>>] = IF Known(flags[k]) THEN Append(d, Setting(flags[k], p)) ELSE d
  <2>1. \A k \in 1 .. n : Known(flags[k]) => Setting(flags[k], p) \in Uses
    BY <1>1, <1>2, SettingType
  <2>2. \A d \in V, t \in Uses : Append(d, t) \in V
    OBVIOUS
  <2> HIDE DEF V
  <2> QED
    BY <2>1, <2>2
<1>v. <<>> \in V
  OBVIOUS
<1> HIDE DEF G, V
<1>5. PICK f \in [0 .. n -> V] : f[0] = <<>> /\ \A k \in 1 .. n : f[k] = G[<<k, f[k - 1]>>]
  <2>1. DefinedUpTo(n, V, <<>>, G)
    BY <1>4, <1>v, StepByStep
  <2> QED
    BY <2>1 DEF DefinedUpTo
<1>6. IsN(f)
  <2> SUFFICES ASSUME NEW k \in 0 .. n
               PROVE  f[k] = NextN(f, k)
    BY <1>5
  <2>1. CASE k = 0
    BY <1>5, <2>1
  <2>2. CASE k # 0
    <3>1. k \in 1 .. n /\ k - 1 \in 0 .. n
      BY <2>2
    <3>2. f[k - 1] \in V
      BY <3>1
    <3> QED
      BY <1>4, <1>5, <2>2, <3>1, <3>2
  <2> QED
    BY <2>1, <2>2
<1>7. IsN(F)
  BY <1>6
<1> HIDE DEF F
<1>8. \A k \in 0 .. n : F[k] = NextN(F, k)
  <2> HIDE DEF NextN
  <2> QED
    BY <1>7
<1>9. F[0] = <<>>
  BY <1>8
<1>10. \A k \in 1 .. n : F[k] = IF Known(flags[k]) THEN Append(F[k - 1], Setting(flags[k], p))
                                ELSE F[k - 1]
  BY <1>8
<1>11. \A k \in 0 .. n : F[k] \in V
  <2>1. \A k \in 1 .. n : F[k - 1] \in V => F[k] = G[<<k, F[k - 1]>>]
    BY <1>4, <1>10
  <2>2. F[0] \in V
    BY <1>9, <1>v
  <2> QED
    BY <1>4, <2>1, <2>2, StaysIn
<1>12. F \in [0 .. n -> V]
  BY <1>7, <1>11
<1>13. FlaggedUpTo(F, p)
  BY <1>1, <1>2, <1>9, <1>10, <1>12 DEF FlaggedUpTo, V
<1> QED
  BY <1>1, <1>2, <1>3, <1>13

LEMMA FlaggedType ==
  ASSUME Context, NEW p \in 1 .. LastPlace, IsOption(p), ~Unclear(p)
  PROVE  Flagged(p) \in Seq(Uses)
<1>1. PICK n \in Nat : n = Len(FlagsAt(p))
  BY FlagsType DEF Context
<1>2. PICK f : FlaggedUpTo(f, p) /\ Flagged(p) = f[n]
  BY <1>1, FlaggedMade
<1> QED
  BY <1>1, <1>2 DEF FlaggedUpTo

LEMMA OpenAre ==
  ASSUME Context, NEW s, Open(s) # {}
  PROVE  /\ Min(Open(s)) \in Open(s) /\ \A i \in Open(s) : Min(Open(s)) <= i
         /\ Min(Open(s)) \in 1 .. Len(setup.positional)
<1>1. DOMAIN setup.positional = 1 .. Len(setup.positional) /\ Len(setup.positional) \in Nat
  <2>1. setup.positional \in Seq(Seq(Letters))
    BY Shapes DEF Context
  <2> QED
    BY <2>1
<1>2. Open(s) \subseteq 1 .. Len(setup.positional)
  BY <1>1 DEF Open
<1>3. Open(s) \subseteq Nat
  BY <1>1, <1>2
<1>4. Min(Open(s)) \in Open(s) /\ \A i \in Open(s) : Min(Open(s)) <= i
  BY <1>3, MinOf
<1> QED
  BY <1>2, <1>4

LEMMA PositionalType ==
  ASSUME Context, NEW s, NEW p \in 1 .. LastPlace
  PROVE  Positional(s, p) \in Seq(Uses)
<1>1. PICK name : name = setup.positional[Min(Open(s))]
  OBVIOUS
<1>2. CASE Open(s) = {} \/ ~Known(name)
  BY <1>1, <1>2 DEF Positional
<1>3. CASE Open(s) # {} /\ Known(name)
  <2>1. Positional(s, p) = <<<<names[name], given[p]>>>>
    BY <1>1, <1>3 DEF Positional
  <2>2. <<names[name], given[p]>> \in Uses
    BY <1>3, NamesKnown, GivenText DEF Context, Uses
  <2> QED
    BY <2>1, <2>2
<1> QED
  BY <1>2, <1>3

\* What the argument at p adds to the settings.
Added(settings, p) ==
    IF IsOption(p) /\ ~Unclear(p) THEN Flagged(p)
    ELSE IF IsFree(p) THEN Positional(settings, p) ELSE <<>>

LEMMA AddedType ==
  ASSUME Context, NEW s, NEW p \in 1 .. LastPlace
  PROVE  Added(s, p) \in Seq(Uses)
BY FlaggedType, PositionalType DEF Added

LEMMA SettingsAre ==
  ASSUME Context
  PROVE  /\ Settings[0] = <<>>
         /\ \A p \in 1 .. LastPlace : Settings[p] = Settings[p - 1] \o Added(Settings[p - 1], p)
         /\ \A p \in 0 .. LastPlace : Settings[p] \in Seq(Uses)
<1>1. PICK n \in Nat : n = LastPlace
  BY DEF LastPlace, Context
<1> DEFINE V == Seq(Uses)
           NextN(f, k) == IF k = 0 THEN <<>>
                          ELSE f[k - 1] \o
                                 (IF IsOption(k) /\ ~Unclear(k) THEN Flagged(k)
                                  ELSE IF IsFree(k) THEN Positional(f[k - 1], k) ELSE <<>>)
           IsN(f) == f = [k \in 0 .. n |-> NextN(f, k)]
           G == [kd \in (1 .. n) \X V |-> kd[2] \o Added(kd[2], kd[1])]
<1>2. Settings = CHOOSE f : IsN(f)
  BY <1>1 DEF Settings
<1>3. \A f, k : NextN(f, k) = IF k = 0 THEN <<>> ELSE f[k - 1] \o Added(f[k - 1], k)
  BY DEF Added
<1>4. /\ G \in [(1 .. n) \X V -> V]
      /\ \A k \in 1 .. n, d \in V : G[<<k, d>>] = d \o Added(d, k)
  <2>1. \A k \in 1 .. n, d \in V : Added(d, k) \in V
    BY <1>1, AddedType
  <2>2. \A d, e \in V : d \o e \in V
    OBVIOUS
  <2> HIDE DEF V
  <2>3. \A k \in 1 .. n, d \in V : d \o Added(d, k) \in V
    BY <2>1, <2>2
  <2> QED
    BY <2>3
<1>v. <<>> \in V
  OBVIOUS
<1> HIDE DEF G, V, NextN
<1>5. PICK f \in [0 .. n -> V] : f[0] = <<>> /\ \A k \in 1 .. n : f[k] = G[<<k, f[k - 1]>>]
  <2>1. DefinedUpTo(n, V, <<>>, G)
    BY <1>4, <1>v, StepByStep
  <2> QED
    BY <2>1 DEF DefinedUpTo
<1>6. IsN(f)
  <2> SUFFICES ASSUME NEW k \in 0 .. n
               PROVE  f[k] = NextN(f, k)
    BY <1>5
  <2>1. CASE k = 0
    BY <1>3, <1>5, <2>1
  <2>2. CASE k # 0
    <3>1. k \in 1 .. n /\ k - 1 \in 0 .. n
      BY <2>2
    <3>2. f[k - 1] \in V
      BY <3>1
    <3>3. f[k] = f[k - 1] \o Added(f[k - 1], k)
      BY <1>4, <1>5, <3>1, <3>2
    <3> QED
      BY <1>3, <2>2, <3>3
  <2> QED
    BY <2>1, <2>2
<1>7. IsN(Settings)
  BY <1>2, <1>6
<1>8. \A k \in 0 .. n : Settings[k] = NextN(Settings, k)
  BY <1>7
<1>9. Settings[0] = <<>>
  BY <1>3, <1>8
<1>10. \A k \in 1 .. n : Settings[k] = Settings[k - 1] \o Added(Settings[k - 1], k)
  <2> SUFFICES ASSUME NEW k \in 1 .. n
               PROVE  Settings[k] = Settings[k - 1] \o Added(Settings[k - 1], k)
    OBVIOUS
  <2>1. k # 0 /\ Settings[k] = NextN(Settings, k)
    BY <1>8
  <2>2. NextN(Settings, k) = IF k = 0 THEN <<>> ELSE Settings[k - 1] \o Added(Settings[k - 1], k)
    BY <1>3
  <2> QED
    BY <2>1, <2>2
<1>11. \A k \in 0 .. n : Settings[k] \in V
  <2>1. \A k \in 1 .. n : Settings[k - 1] \in V => Settings[k] = G[<<k, Settings[k - 1]>>]
    BY <1>4, <1>10
  <2>2. Settings[0] \in V
    BY <1>9, <1>v
  <2> QED
    BY <1>4, <2>1, <2>2, StaysIn
<1> QED
  BY <1>1, <1>9, <1>10, <1>11 DEF V

LEMMA LeftOverAre ==
  ASSUME given \in Seq(Texts)
  PROVE  /\ LeftOver[0] = <<>>
         /\ \A p \in 1 .. LastPlace :
               LeftOver[p] = IF IsLeftOver(p) THEN Append(LeftOver[p - 1], given[p])
                             ELSE LeftOver[p - 1]
         /\ \A p \in 0 .. LastPlace : LeftOver[p] \in Seq(Texts)
<1>1. PICK n \in Nat : n = LastPlace
  BY DEF LastPlace
<1> DEFINE V == Seq(Texts)
           NextN(f, k) == IF k = 0 THEN <<>>
                          ELSE IF IsLeftOver(k) THEN Append(f[k - 1], given[k])
                          ELSE f[k - 1]
           IsN(f) == f = [k \in 0 .. n |-> NextN(f, k)]
           G == [kd \in (1 .. n) \X V |->
                   IF IsLeftOver(kd[1]) THEN Append(kd[2], given[kd[1]]) ELSE kd[2]]
<1>2. LeftOver = CHOOSE f : IsN(f)
  BY <1>1 DEF LeftOver
<1>4. /\ G \in [(1 .. n) \X V -> V]
      /\ \A k \in 1 .. n, d \in V :
            G[<<k, d>>] = IF IsLeftOver(k) THEN Append(d, given[k]) ELSE d
  <2>1. \A k \in 1 .. n : given[k] \in Texts
    BY <1>1, GivenText
  <2>2. \A d \in V, t \in Texts : Append(d, t) \in V
    OBVIOUS
  <2> HIDE DEF V
  <2> QED
    BY <2>1, <2>2
<1>v. <<>> \in V
  OBVIOUS
<1> HIDE DEF G, V
<1>5. PICK f \in [0 .. n -> V] : f[0] = <<>> /\ \A k \in 1 .. n : f[k] = G[<<k, f[k - 1]>>]
  <2>1. DefinedUpTo(n, V, <<>>, G)
    BY <1>4, <1>v, StepByStep
  <2> QED
    BY <2>1 DEF DefinedUpTo
<1>6. IsN(f)
  <2> SUFFICES ASSUME NEW k \in 0 .. n
               PROVE  f[k] = NextN(f, k)
    BY <1>5
  <2>1. CASE k = 0
    BY <1>5, <2>1
  <2>2. CASE k # 0
    <3>1. k \in 1 .. n /\ k - 1 \in 0 .. n
      BY <2>2
    <3>2. f[k - 1] \in V
      BY <3>1
    <3> QED
      BY <1>4, <1>5, <2>2, <3>1, <3>2
  <2> QED
    BY <2>1, <2>2
<1>7. IsN(LeftOver)
  BY <1>2, <1>6
<1>8. \A k \in 0 .. n : LeftOver[k] = NextN(LeftOver, k)
  <2> HIDE DEF NextN
  <2> QED
    BY <1>7
<1>9. LeftOver[0] = <<>>
  BY <1>8
<1>10. \A k \in 1 .. n : LeftOver[k] = IF IsLeftOver(k) THEN Append(LeftOver[k - 1], given[k])
                                       ELSE LeftOver[k - 1]
  BY <1>8
<1>11. \A k \in 0 .. n : LeftOver[k] \in V
  <2>1. \A k \in 1 .. n : LeftOver[k - 1] \in V => LeftOver[k] = G[<<k, LeftOver[k - 1]>>]
    BY <1>4, <1>10
  <2>2. LeftOver[0] \in V
    BY <1>9, <1>v
  <2> QED
    BY <1>4, <2>1, <2>2, StaysIn
<1> QED
  BY <1>1, <1>9, <1>10, <1>11 DEF V

\* End is the first "--" that is no value, or behind the arguments.
LEMMA EndIs ==
  ASSUME given \in Seq(Texts)
  PROVE  /\ End \in 1 .. LastPlace + 1
         /\ End <= LastPlace => IsTerminator(given[End]) /\ ~IsValue[End]
         /\ \A p \in 1 .. LastPlace : IsTerminator(given[p]) /\ ~IsValue[p] => End <= p
<1>1. PICK n \in Nat : n = LastPlace
  BY DEF LastPlace
<1> DEFINE S == {p \in 1 .. LastPlace : IsTerminator(given[p]) /\ ~IsValue[p]} \union {LastPlace + 1}
<1>2. S \subseteq Nat /\ S # {} /\ LastPlace + 1 \in S
  BY <1>1
<1>3. Min(S) \in S /\ \A i \in S : Min(S) <= i
  <2> HIDE DEF S
  <2> QED
    BY <1>2, MinOf
<1>4. End = Min(S)
  BY DEF End
<1>5. End \in S /\ \A i \in S : End <= i
  BY <1>3, <1>4
<1> QED
  BY <1>1, <1>5

-----------------------------------------------------------------------------
(* One more setting                                                        *)

\* There are texts for exactly the options that were set.
LEMMA TextsEmpty ==
  ASSUME NEW o, NEW s \in Seq(Uses)
  PROVE  TextsOf(o, s) = <<>> <=> \A k \in DOMAIN s : s[k][1] # o
<1>1. PICK n \in Nat : n = Len(s)
  OBVIOUS
<1>2. PICK f : TextsUpTo(f, o, s) /\ TextsOf(o, s) = f[n]
  BY <1>1, TextsMade
<1>3. /\ f \in [0 .. n -> Seq(Texts)] /\ f[0] = <<>>
      /\ \A k \in 1 .. n : f[k] = IF s[k][1] = o THEN Append(f[k - 1], s[k][2]) ELSE f[k - 1]
  BY <1>1, <1>2 DEF TextsUpTo
<1> DEFINE T == {k \in 0 .. n : f[k] = <<>> <=> \A j \in 1 .. k : s[j][1] # o}
<1>4. 0 \in T
  BY <1>3
<1>5. ASSUME NEW k \in 1 .. n, k - 1 \in T
      PROVE  k \in T
  <2>1. f[k - 1] = <<>> <=> \A j \in 1 .. k - 1 : s[j][1] # o
    BY <1>5
  <2>2. CASE s[k][1] = o
    <3>1. f[k - 1] \in Seq(Texts) /\ s[k][2] \in Texts
      <4>1. s[k] \in Uses
        BY <1>1
      <4> QED
        BY <1>3, <4>1 DEF Uses
    <3>2. f[k] = Append(f[k - 1], s[k][2])
      BY <1>3, <2>2
    <3>3. f[k] # <<>>
      <4>1. \A S : \A q \in Seq(S), x \in S : Append(q, x) # <<>>
        OBVIOUS
      <4> QED
        BY <3>1, <3>2, <4>1
    <3> QED
      BY <2>2, <3>3
  <2>3. CASE s[k][1] # o
    <3>1. f[k] = f[k - 1]
      BY <1>3, <2>3
    <3> QED
      BY <2>1, <2>3, <3>1
  <2> QED
    BY <2>2, <2>3
<1>6. n \in T
  <2> HIDE DEF T
  <2>1. \A k \in 0 .. n : k \in T
    BY <1>4, <1>5, CountUp
  <2> QED
    BY <2>1
<1> QED
  BY <1>1, <1>2, <1>6

LEMMA TruthTexts == True \in Texts /\ False \in Texts
<1>1. <<"t">> \in Seq(Letters) /\ <<"f">> \in Seq(Letters)
  <2>1. \A S : \A x \in S : <<x>> \in Seq(S)
    OBVIOUS
  <2>2. "t" \in Letters /\ "f" \in Letters
    BY OptionsAssumption
  <2>3. <<"t">> \in Seq(Letters)
    BY <2>1, <2>2
  <2>4. <<"f">> \in Seq(Letters)
    BY <2>1, <2>2
  <2> QED
    BY <2>3, <2>4
<1> QED
  BY <1>1, WordText DEF True, False

LEMMA WordsType ==
  ASSUME NEW text \in Texts
  PROVE  Words(text) \in Seq(Texts)
<1>1. PICK more \in Seq(Seq(Letters)) : more = text.more
  BY DEF Texts
<1>2. PICK first \in Texts : first = [text EXCEPT !.more = <<>>]
  <2>1. <<>> \in Seq(Seq(Letters))
    OBVIOUS
  <2>2. [text EXCEPT !.more = <<>>] \in Texts
    BY <2>1 DEF Texts
  <2> QED
    BY <2>2
<1>3. PICK rest \in Seq(Texts) : rest = [i \in DOMAIN more |-> Word(more[i])]
  <2>1. PICK n \in Nat : n = Len(more) /\ DOMAIN more = 1 .. n
    OBVIOUS
  <2>2. \A i \in 1 .. n : Word(more[i]) \in Texts
    BY <2>1, WordText
  <2>3. [i \in 1 .. n |-> Word(more[i])] \in [1 .. n -> Texts]
    BY <2>2
  <2>4. [i \in 1 .. n |-> Word(more[i])] \in Seq(Texts)
    BY <2>3, FunctionIsSeq
  <2> QED
    BY <2>1, <2>4
<1>4. PICK all \in Seq(Texts) : all = <<first>> \o rest
  <2>1. <<first>> \in Seq(Texts)
    OBVIOUS
  <2>2. <<first>> \o rest \in Seq(Texts)
    BY <2>1, ConcatProperties
  <2> QED
    BY <2>2
<1>5. Front(all) \in Seq(Texts)
  <2>1. PICK n \in Nat : n = Len(all)
    OBVIOUS
  <2>2. \A i \in 1 .. n - 1 : all[i] \in Texts
    BY <2>1
  <2>3. SubSeq(all, 1, n - 1) \in Seq(Texts)
    BY <2>2, SubSeqProperties
  <2> QED
    BY <2>1, <2>3 DEF Front
<1>6. Words(text) = IF Last(all) = Word(<<>>) THEN Front(all) ELSE all
  BY <1>1, <1>2, <1>3, <1>4 DEF Words
<1> QED
  BY <1>4, <1>5, <1>6

\* What AllWords has after each of the texts.
WordsUpTo(f, s) ==
    /\ f \in [0 .. Len(s) -> Seq(Texts)]
    /\ f[0] = <<>>
    /\ \A k \in 1 .. Len(s) : f[k] = f[k - 1] \o Words(s[k])

LEMMA WordsMade ==
  ASSUME NEW s \in Seq(Texts)
  PROVE  \E f : WordsUpTo(f, s) /\ AllWords(s) = f[Len(s)]
<1>1. PICK n \in Nat : n = Len(s)
  OBVIOUS
<1> DEFINE V == Seq(Texts)
           NextN(f, k) == IF k = 0 THEN <<>> ELSE f[k - 1] \o Words(s[k])
           IsN(f) == f = [k \in 0 .. n |-> NextN(f, k)]
           G == [kd \in (1 .. n) \X V |-> kd[2] \o Words(s[kd[1]])]
           F == CHOOSE f : IsN(f)
<1>2. AllWords(s) = F[n]
  BY <1>1 DEF AllWords
<1>3. /\ G \in [(1 .. n) \X V -> V]
      /\ \A k \in 1 .. n, d \in V : G[<<k, d>>] = d \o Words(s[k])
  <2>1. \A k \in 1 .. n : Words(s[k]) \in V
    BY <1>1, WordsType
  <2>2. \A d \in V, t \in V : d \o t \in V
    OBVIOUS
  <2> HIDE DEF V
  <2> QED
    BY <2>1, <2>2
<1>v. <<>> \in V
  OBVIOUS
<1> HIDE DEF G, V
<1>4. PICK f \in [0 .. n -> V] : f[0] = <<>> /\ \A k \in 1 .. n : f[k] = G[<<k, f[k - 1]>>]
  <2>1. DefinedUpTo(n, V, <<>>, G)
    BY <1>3, <1>v, StepByStep
  <2> QED
    BY <2>1 DEF DefinedUpTo
<1>5. IsN(f)
  <2> SUFFICES ASSUME NEW k \in 0 .. n
               PROVE  f[k] = NextN(f, k)
    BY <1>4
  <2>1. CASE k = 0
    BY <1>4, <2>1
  <2>2. CASE k # 0
    <3>1. k \in 1 .. n /\ k - 1 \in 0 .. n
      BY <2>2
    <3>2. f[k - 1] \in V
      BY <3>1
    <3> QED
      BY <1>3, <1>4, <2>2, <3>1, <3>2
  <2> QED
    BY <2>1, <2>2
<1>6. IsN(F)
  BY <1>5
<1> HIDE DEF F
<1>7. \A k \in 0 .. n : F[k] = NextN(F, k)
  <2> HIDE DEF NextN
  <2> QED
    BY <1>6
<1>8. F[0] = <<>>
  BY <1>7
<1>9. \A k \in 1 .. n : F[k] = F[k - 1] \o Words(s[k])
  <2> SUFFICES ASSUME NEW k \in 1 .. n
               PROVE  F[k] = F[k - 1] \o Words(s[k])
    OBVIOUS
  <2>1. k \in 0 .. n /\ k # 0
    OBVIOUS
  <2>2. F[k] = NextN(F, k)
    <3> HIDE DEF NextN
    <3> QED
      BY <1>7, <2>1
  <2> QED
    BY <2>1, <2>2
<1>10. \A k \in 0 .. n : F[k] \in V
  <2>1. \A k \in 1 .. n : F[k - 1] \in V => F[k] = G[<<k, F[k - 1]>>]
    BY <1>3, <1>9
  <2>2. F[0] \in V
    BY <1>8, <1>v
  <2> QED
    BY <1>3, <2>1, <2>2, StaysIn
<1>11. F \in [0 .. n -> V]
  BY <1>6, <1>10
<1>12. WordsUpTo(F, s)
  BY <1>1, <1>8, <1>9, <1>11 DEF WordsUpTo, V
<1> QED
  BY <1>1, <1>2, <1>12

LEMMA WordsOfNone == AllWords(<<>>) = <<>>
<1>1. <<>> \in Seq(Texts) /\ Len(<<>>) = 0
  OBVIOUS
<1>2. PICK f : WordsUpTo(f, <<>>) /\ AllWords(<<>>) = f[Len(<<>>)]
  BY <1>1, WordsMade
<1> QED
  BY <1>1, <1>2 DEF WordsUpTo

LEMMA WordsOfMore ==
  ASSUME NEW s \in Seq(Texts), NEW text \in Texts
  PROVE  AllWords(Append(s, text)) = AllWords(s) \o Words(text)
<1>1. PICK n \in Nat : n = Len(s)
  OBVIOUS
<1>2. PICK t : t = Append(s, text)
  OBVIOUS
<1>3. t \in Seq(Texts) /\ Len(t) = n + 1 /\ t[n + 1] = text /\ \A k \in 1 .. n : t[k] = s[k]
  BY <1>1, <1>2
<1>4. PICK f : WordsUpTo(f, s) /\ AllWords(s) = f[n]
  BY <1>1, WordsMade
<1>5. PICK g : WordsUpTo(g, t) /\ AllWords(t) = g[n + 1]
  <2>1. \E g : WordsUpTo(g, t) /\ AllWords(t) = g[Len(t)]
    BY <1>3, WordsMade
  <2> QED
    BY <1>3, <2>1
<1> DEFINE T == {k \in 0 .. n : g[k] = f[k]}
<1>6. 0 \in T
  BY <1>4, <1>5 DEF WordsUpTo
<1>7. ASSUME NEW k \in 1 .. n, k - 1 \in T
      PROVE  k \in T
  <2>1. g[k - 1] = f[k - 1]
    BY <1>7
  <2>2. f[k] = f[k - 1] \o Words(s[k])
    BY <1>1, <1>4 DEF WordsUpTo
  <2>3. g[k] = g[k - 1] \o Words(t[k])
    <3>1. k \in 1 .. n + 1
      OBVIOUS
    <3> QED
      BY <1>3, <1>5, <3>1 DEF WordsUpTo
  <2>4. t[k] = s[k]
    BY <1>3
  <2>5. g[k] = f[k]
    BY <2>1, <2>2, <2>3, <2>4
  <2> QED
    BY <2>5
<1>8. g[n] = f[n]
  <2> HIDE DEF T
  <2>1. \A k \in 0 .. n : k \in T
    BY <1>6, <1>7, CountUp
  <2>2. n \in T
    BY <2>1
  <2> QED
    BY <2>2 DEF T
<1>9. g[n + 1] = g[n] \o Words(text)
  <2>1. n + 1 \in 1 .. n + 1 /\ (n + 1) - 1 = n
    OBVIOUS
  <2>2. g[n + 1] = g[(n + 1) - 1] \o Words(t[n + 1])
    BY <1>3, <1>5, <2>1 DEF WordsUpTo
  <2> QED
    BY <1>3, <2>1, <2>2
<1> QED
  BY <1>2, <1>4, <1>5, <1>8, <1>9

LEMMA WordsOfOne ==
  ASSUME NEW text \in Texts
  PROVE  AllWords(<<text>>) = Words(text)
<1>1. <<>> \in Seq(Texts) /\ Append(<<>>, text) = <<text>>
  OBVIOUS
<1>2. AllWords(<<text>>) = <<>> \o Words(text)
  BY <1>1, WordsOfMore, WordsOfNone
<1>3. PICK w \in Seq(Texts) : w = Words(text)
  BY WordsType
<1>4. <<>> \o w = w
  OBVIOUS
<1> QED
  BY <1>2, <1>3, <1>4

LEMMA StoredType ==
  ASSUME Context, NEW o \in OptionSet, NEW old \in Seq(Texts), NEW text \in Texts
  PROVE  /\ Stored(o, old, text) \in Seq(Texts)
         /\ IsContainer(o) => Stored(o, old, text) = old \o Words(text)
         /\ ~IsContainer(o) => /\ Stored(o, old, text) = Stored(o, <<>>, text)
                               /\ Len(Stored(o, old, text)) = 1
                               /\ Stored(o, old, text) # <<>>
<1>1. Detail(o).type \in {"string", "list", "bool"}
  BY Shapes, OneText DEF Context
<1>2. CASE Detail(o).type = "list"
  <2>1. Stored(o, old, text) = old \o Words(text)
    BY <1>2 DEF Stored
  <2>2. old \o Words(text) \in Seq(Texts)
    BY WordsType, ConcatProperties
  <2> QED
    BY <1>2, <2>1, <2>2 DEF IsContainer
<1>3. CASE Detail(o).type = "string"
  <2>1. \A any : Stored(o, any, text) = <<text>>
    BY <1>3 DEF Stored
  <2>2. <<text>> \in Seq(Texts) /\ Len(<<text>>) = 1 /\ <<text>> # <<>>
    OBVIOUS
  <2> QED
    BY <1>3, <2>1, <2>2 DEF IsContainer
<1>4. CASE Detail(o).type = "bool"
  <2>1. PICK t \in Texts : t = IF text \in Truthy THEN True ELSE False
    BY TruthTexts
  <2>2. \A any : Stored(o, any, text) = <<t>>
    BY <1>4, <2>1 DEF Stored
  <2>3. <<t>> \in Seq(Texts) /\ Len(<<t>>) = 1 /\ <<t>> # <<>>
    OBVIOUS
  <2> QED
    BY <1>4, <2>2, <2>3 DEF IsContainer
<1> QED
  BY <1>1, <1>2, <1>3, <1>4

\* One option has got a text.
ParsedAs(q, r, o, text) ==
    /\ q \in Results
    /\ q.sequential = Append(r.sequential, <<o, text>>)
    /\ q.count = [r.count EXCEPT ![o] = r.count[o] + 1]
    /\ q.value = [r.value EXCEPT ![o] = Stored(o, r.value[o], text)]
    /\ q.defined = r.defined /\ q.current = r.current /\ q.next = r.next
    /\ q.error = r.error /\ q.default = r.default

LEMMA ThrowType ==
  ASSUME NEW r \in Results, NEW error \in SpecErrors \union ParseErrors
  PROVE  /\ Throw(r, error) \in Results
         /\ Throw(r, error).error = error /\ error # "none"
         /\ Throw(r, error) = [r EXCEPT !.error = error]
<1>1. error \in Errors /\ error # "none"
  BY DEF Errors, SpecErrors, ParseErrors
<1> QED
  BY <1>1 DEF Throw, Results

LEMMA ParseOptionDoes ==
  ASSUME Context, NEW r \in Results, NEW o \in OptionSet, NEW text \in Texts
  PROVE  /\ Refuses(o, text) => ParseOption(r, o, text) = Throw(r, "argument_incorrect_type")
         /\ ~Refuses(o, text) => ParsedAs(ParseOption(r, o, text), r, o, text)
<1>1. CASE Refuses(o, text)
  BY <1>1 DEF ParseOption
<1>2. CASE ~Refuses(o, text)
  <2>1. PICK v \in Seq(Texts) : v = Stored(o, r.value[o], text)
    <3>1. r.value[o] \in Seq(Texts)
      BY DEF Results
    <3> QED
      BY <3>1, StoredType
  <2>2. PICK w : w = WithValue(r, o, text)
    OBVIOUS
  <2>3. w = [r EXCEPT !.count[o] = @ + 1, !.value[o] = v]
    BY <2>1, <2>2 DEF WithValue, Results
  <2>4. [r.count EXCEPT ![o] = r.count[o] + 1] \in [OptionSet -> Nat]
        /\ [r.value EXCEPT ![o] = v] \in [OptionSet -> Seq(Texts)]
    BY DEF Results
  <2>5. /\ w \in Results
        /\ w.count = [r.count EXCEPT ![o] = r.count[o] + 1]
        /\ w.value = [r.value EXCEPT ![o] = v]
        /\ w.sequential = r.sequential
        /\ w.defined = r.defined /\ w.current = r.current /\ w.next = r.next
        /\ w.error = r.error /\ w.default = r.default
    BY <2>3, <2>4 DEF Results
  <2>6. PICK q : q = ParseOption(r, o, text)
    OBVIOUS
  <2>7. q = [w EXCEPT !.sequential = Append(@, <<o, text>>)]
    BY <1>2, <2>2, <2>6 DEF ParseOption
  <2>8. Append(w.sequential, <<o, text>>) \in Seq(Uses)
    <3>1. w.sequential \in Seq(Uses) /\ <<o, text>> \in Uses
      BY <2>5 DEF Results, Uses
    <3> QED
      BY <3>1
  <2>9. /\ q \in Results /\ q.sequential = Append(w.sequential, <<o, text>>)
        /\ q.count = w.count /\ q.value = w.value
        /\ q.defined = w.defined /\ q.current = w.current /\ q.next = w.next
        /\ q.error = w.error /\ q.default = w.default
    BY <2>5, <2>7, <2>8 DEF Results
  <2> QED
    BY <1>2, <2>1, <2>5, <2>6, <2>9 DEF ParsedAs
<1> QED
  BY <1>1, <1>2

DefaultTexts == [OptionSet -> Seq(Texts)]

Agrees(r, s, D) == r \in Results /\ Matches(r, s) /\ Values(r, s, D)

\* A setting opens no positional option.
LEMMA OpenLess ==
  ASSUME Context, NEW s \in Seq(Uses), NEW use \in Uses
  PROVE  Open(Append(s, use)) \subseteq Open(s)
<1>1. PICK n \in Nat : n = Len(s)
  OBVIOUS
<1>2. PICK t : t = Append(s, use)
  OBVIOUS
<1>3. DOMAIN s = 1 .. n /\ DOMAIN t = 1 .. n + 1 /\ \A k \in 1 .. n : t[k] = s[k]
  BY <1>1, <1>2
<1>4. \A o : (\A k \in DOMAIN t : t[k][1] # o) => \A k \in DOMAIN s : s[k][1] # o
  <2> SUFFICES ASSUME NEW o, \A k \in DOMAIN t : t[k][1] # o, NEW k \in DOMAIN s
               PROVE  s[k][1] # o
    OBVIOUS
  <2>1. k \in DOMAIN t /\ t[k] = s[k]
    BY <1>3
  <2> QED
    BY <2>1
<1>5. Open(t) \subseteq Open(s)
  BY <1>4 DEF Open
<1> QED
  BY <1>2, <1>5

LEMMA SetOnce ==
  ASSUME Context, NEW r, NEW s \in Seq(Uses), NEW D \in DefaultTexts, Agrees(r, s, D),
         NEW o \in OptionSet, NEW text \in Texts, ~Refuses(o, text),
         NEW q, ParsedAs(q, r, o, text)
  PROVE  Agrees(q, Append(s, <<o, text>>), D)
<1>1. PICK use : use = <<o, text>> /\ use[1] = o /\ use[2] = text /\ use \in Uses
  <2>1. <<o, text>> \in Uses /\ <<o, text>>[1] = o /\ <<o, text>>[2] = text
    BY DEF Uses
  <2> QED
    BY <2>1
<1>2. PICK t : t = Append(s, use) /\ t \in Seq(Uses)
  <2>1. Append(s, use) \in Seq(Uses)
    BY <1>1
  <2> QED
    BY <2>1
<1>3. \A p \in OptionSet : TextsOf(p, s) \in Seq(Texts)
  BY TextsType
<1>4. \A p \in OptionSet :
         TextsOf(p, t) = IF p = o THEN Append(TextsOf(p, s), text) ELSE TextsOf(p, s)
  BY <1>1, <1>2, TextsOfMore
<1>5. q.error = "none" /\ q.sequential = t
  BY <1>1, <1>2 DEF ParsedAs, Agrees, Matches
<1>6. \A p \in OptionSet : q.count[p] = Len(TextsOf(p, t))
  <2> SUFFICES ASSUME NEW p \in OptionSet
               PROVE  q.count[p] = Len(TextsOf(p, t))
    OBVIOUS
  <2>1. r.count[p] = Len(TextsOf(p, s)) /\ r.count \in [OptionSet -> Nat]
    BY DEF Agrees, Matches, Results
  <2>2. q.count[p] = IF p = o THEN r.count[p] + 1 ELSE r.count[p]
    BY <2>1 DEF ParsedAs
  <2>3. PICK x \in Seq(Texts) : x = TextsOf(p, s)
    BY <1>3
  <2>4. Len(Append(x, text)) = Len(x) + 1
    OBVIOUS
  <2> QED
    BY <1>4, <2>1, <2>2, <2>3, <2>4
<1>7. \A i \in DOMAIN setup.positional : i < q.next => i \notin Open(t)
  <2>1. \A i \in DOMAIN setup.positional : i < q.next => i \notin Open(s)
    BY DEF Agrees, Matches, ParsedAs
  <2> QED
    BY <1>1, <1>2, <2>1, OpenLess
<1>8. \A k \in DOMAIN t : ~Refuses(t[k][1], t[k][2])
  <2> SUFFICES ASSUME NEW k \in DOMAIN t
               PROVE  ~Refuses(t[k][1], t[k][2])
    OBVIOUS
  <2>1. t[k] = use \/ (k \in DOMAIN s /\ t[k] = s[k])
    BY <1>1, <1>2
  <2> QED
    BY <1>1, <2>1 DEF Agrees, Matches
<1>9. ASSUME NEW p \in OptionSet
      PROVE  q.value[p] = ValueFrom(p, D[p] \o TextsOf(p, t))
  <2>1. r.value[p] = ValueFrom(p, D[p] \o TextsOf(p, s)) /\ r.value \in [OptionSet -> Seq(Texts)]
    BY DEF Agrees, Values, Results
  <2>2. q.value[p] = IF p = o THEN Stored(o, r.value[o], text) ELSE r.value[p]
    BY <2>1 DEF ParsedAs
  <2>3. CASE p # o
    BY <1>4, <2>1, <2>2, <2>3
  <2>4. CASE p = o
    <3>1. PICK x \in Seq(Texts) : x = TextsOf(o, s)
      BY <1>3
    <3>2. PICK d \in Seq(Texts) : d = D[o]
      BY DEF DefaultTexts
    <3>3. PICK y \in Seq(Texts) : y = d \o x
      <4>1. d \o x \in Seq(Texts)
        OBVIOUS
      <4> QED
        BY <4>1
    <3>4. d \o Append(x, text) = Append(y, text)
      BY <3>3
    <3>5. D[p] \o TextsOf(p, t) = Append(y, text)
      BY <1>4, <2>4, <3>1, <3>2, <3>4
    <3>6. Append(y, text) # <<>> /\ Last(Append(y, text)) = text
      <4>1. /\ Append(y, text) # <<>>
            /\ Len(Append(y, text)) = Len(y) + 1
            /\ Append(y, text)[Len(y) + 1] = text
        BY AppendProperties
      <4> QED
        BY <4>1 DEF Last
    <3>7. CASE IsContainer(o)
      <4>1. r.value[o] = AllWords(y) /\ r.value[o] \in Seq(Texts)
        BY <2>1, <2>4, <3>1, <3>2, <3>3, <3>7 DEF ValueFrom
      <4>2. Stored(o, r.value[o], text) = r.value[o] \o Words(text)
        BY <3>7, <4>1, StoredType
      <4>3. AllWords(Append(y, text)) = AllWords(y) \o Words(text)
        BY WordsOfMore
      <4> QED
        BY <2>2, <2>4, <3>5, <3>7, <4>1, <4>2, <4>3 DEF ValueFrom
    <3>8. CASE ~IsContainer(o)
      <4>1. r.value[o] \in Seq(Texts)
        BY <2>1
      <4>2. Stored(o, r.value[o], text) = Stored(o, <<>>, text)
        BY <3>8, <4>1, StoredType
      <4> QED
        BY <2>2, <2>4, <3>5, <3>6, <3>8, <4>2 DEF ValueFrom
    <3> QED
      BY <3>7, <3>8
  <2> QED
    BY <2>3, <2>4
<1>10. q \in Results
  BY DEF ParsedAs
<1>11. Matches(q, t) /\ Values(q, t, D)
  BY <1>5, <1>6, <1>7, <1>8, <1>9 DEF Matches, Values
<1> QED
  BY <1>1, <1>2, <1>10, <1>11 DEF Agrees

\* consume_positional finds the positional options that can take a text.
LEMMA PlacesAre ==
  ASSUME Context, NEW r, NEW s \in Seq(Uses), NEW D, Agrees(r, s, D)
  PROVE  Places(r) = Open(s)
<1>1. DOMAIN setup.positional = 1 .. Len(setup.positional) /\ Len(setup.positional) \in Nat
  <2>1. setup.positional \in Seq(Seq(Letters))
    BY Shapes DEF Context
  <2> QED
    BY <2>1
<1>2. r.next \in Nat \ {0} /\ Matches(r, s)
  BY DEF Agrees, Results
<1>3. \A o \in OptionSet : r.count[o] = 0 <=> \A k \in DOMAIN s : s[k][1] # o
  <2> SUFFICES ASSUME NEW o \in OptionSet
               PROVE  r.count[o] = 0 <=> \A k \in DOMAIN s : s[k][1] # o
    OBVIOUS
  <2>1. r.count[o] = Len(TextsOf(o, s)) /\ TextsOf(o, s) \in Seq(Texts)
    BY <1>2, TextsType DEF Matches
  <2>2. Len(TextsOf(o, s)) = 0 <=> TextsOf(o, s) = <<>>
    BY <2>1, EmptySeq
  <2> QED
    BY <2>1, <2>2, TextsEmpty
<1>4. ASSUME NEW i \in 1 .. Len(setup.positional)
      PROVE  i \in Places(r) <=> i \in Open(s)
  <2>1. PICK name : name = setup.positional[i]
    OBVIOUS
  <2>2. Known(name) => names[name] \in OptionSet
    BY NamesKnown
  <2>3. Known(name) => (r.count[names[name]] = 0 <=> \A k \in DOMAIN s : s[k][1] # names[name])
    BY <1>3, <2>2
  <2>4. i \in Places(r) <=> i >= r.next /\ (Known(name) => IsContainer(names[name]) \/ r.count[names[name]] = 0)
    BY <1>1, <1>2, <2>1 DEF Places
  <2>5. i \in Open(s) <=>
          (Known(name) => IsContainer(names[name]) \/ \A k \in DOMAIN s : s[k][1] # names[name])
    BY <1>1, <2>1 DEF Open
  <2>6. i < r.next => i \notin Open(s)
    BY <1>1, <1>2 DEF Matches
  <2> QED
    BY <1>1, <1>2, <2>3, <2>4, <2>5, <2>6
<1>5. Places(r) \subseteq 1 .. Len(setup.positional) /\ Open(s) \subseteq 1 .. Len(setup.positional)
  BY <1>1, <1>2 DEF Places, Open
<1> QED
  BY <1>4, <1>5

-----------------------------------------------------------------------------
(* Progress                                                                *)

\* A result that comes from another one while the arguments are read.
Grows(q, r) ==
    /\ q \in Results
    /\ q.defined = r.defined /\ q.default = r.default
    /\ Lengths(r) => Lengths(q)
    /\ r.current <= q.current
    /\ r.current <= LastPlace => q.current <= LastPlace

Machine == argv \in Seq(Texts) /\ Len(argv) = LastPlace /\ argc = LastPlace + 1

LEMMA GrowsItself ==
  ASSUME NEW r \in Results
  PROVE  Grows(r, r)
<1>1. r.current \in Nat
  BY DEF Results
<1> QED
  BY <1>1 DEF Grows

LEMMA GrowsOn ==
  ASSUME Context, NEW r \in Results, NEW q, NEW z, Grows(q, r), Grows(z, q)
  PROVE  Grows(z, r)
<1>1. r.current \in Nat /\ q.current \in Nat /\ z.current \in Nat /\ LastPlace \in Nat
  BY DEF Grows, Results, Context, LastPlace
<1>2. r.current <= z.current
  BY <1>1 DEF Grows
<1> QED
  BY <1>1, <1>2 DEF Grows

LEMMA ThrowGrows ==
  ASSUME NEW r \in Results, NEW error \in SpecErrors \union ParseErrors
  PROVE  Grows(Throw(r, error), r) /\ Throw(r, error).error # "none"
<1>1. PICK q : q = Throw(r, error)
  OBVIOUS
<1>2. q \in Results /\ q.error # "none" /\ q = [r EXCEPT !.error = error]
  BY <1>1, ThrowType
<1>3. /\ q.defined = r.defined /\ q.default = r.default /\ q.current = r.current
      /\ q.value = r.value /\ q.count = r.count
  BY <1>2 DEF Results
<1>4. r.current \in Nat
  BY DEF Results
<1>5. Lengths(r) => Lengths(q)
  BY <1>3 DEF Lengths
<1> QED
  BY <1>1, <1>2, <1>3, <1>4, <1>5 DEF Grows

LEMMA ParsedGrows ==
  ASSUME Context, NEW r \in Results, NEW o \in OptionSet, NEW text \in Texts,
         NEW q, ParsedAs(q, r, o, text)
  PROVE  Grows(q, r)
<1>1. r.current \in Nat /\ q.current = r.current
  BY DEF Results, ParsedAs
<1>2. ASSUME Lengths(r), NEW p \in OptionSet, ~IsContainer(p)
      PROVE  Len(q.value[p]) <= 1
  <2>1. r.value \in [OptionSet -> Seq(Texts)]
    BY DEF Results
  <2>2. q.value[p] = IF p = o THEN Stored(o, r.value[o], text) ELSE r.value[p]
    BY <2>1 DEF ParsedAs
  <2>3. CASE p # o
    BY <1>2, <2>2, <2>3 DEF Lengths
  <2>4. CASE p = o
    <3>1. PICK v \in Seq(Texts) : v = r.value[o]
      BY <2>1
    <3>2. Len(Stored(o, v, text)) = 1
      BY <1>2, <2>4, StoredType
    <3>3. q.value[p] = Stored(o, v, text)
      BY <2>2, <2>4, <3>1
    <3>4. \A x : Len(x) = 1 => Len(x) <= 1
      OBVIOUS
    <3> QED
      BY <3>2, <3>3, <3>4
  <2> QED
    BY <2>3, <2>4
<1>3. Lengths(r) => Lengths(q)
  BY <1>2 DEF Lengths
<1> QED
  BY <1>1, <1>3 DEF Grows, ParsedAs

LEMMA ParseOptionGrows ==
  ASSUME Context, NEW r \in Results, NEW o \in OptionSet, NEW text \in Texts
  PROVE  /\ Grows(ParseOption(r, o, text), r)
         /\ ParseOption(r, o, text).current = r.current
         /\ Refuses(o, text) => ParseOption(r, o, text).error # "none"
<1>1. CASE Refuses(o, text)
  <2>1. ParseOption(r, o, text) = Throw(r, "argument_incorrect_type")
    BY <1>1, ParseOptionDoes
  <2>2. "argument_incorrect_type" \in SpecErrors \union ParseErrors
    BY DEF ParseErrors
  <2>3. Throw(r, "argument_incorrect_type").current = r.current
    BY DEF Throw, Results
  <2> QED
    BY <2>1, <2>2, <2>3, ThrowGrows
<1>2. CASE ~Refuses(o, text)
  <2>1. ParsedAs(ParseOption(r, o, text), r, o, text)
    BY <1>2, ParseOptionDoes
  <2>2. Grows(ParseOption(r, o, text), r)
    BY <2>1, ParsedGrows
  <2> QED
    BY <1>2, <2>1, <2>2 DEF ParsedAs
<1> QED
  BY <1>1, <1>2

\* The parser goes to another place in argv.
LEMMA MovedTo ==
  ASSUME NEW r \in Results, NEW c \in Nat \ {0}, NEW q, q = [r EXCEPT !.current = c]
  PROVE  /\ q \in Results /\ q.current = c
         /\ q.defined = r.defined /\ q.next = r.next /\ q.sequential = r.sequential
         /\ q.error = r.error /\ q.count = r.count /\ q.default = r.default /\ q.value = r.value
BY DEF Results

LEMMA MovedAgrees ==
  ASSUME NEW r, NEW c \in Nat \ {0}, NEW s, NEW D, Agrees(r, s, D), NEW q, q = [r EXCEPT !.current = c]
  PROVE  Agrees(q, s, D)
<1>1. r \in Results
  BY DEF Agrees
<1>2. /\ q \in Results
      /\ q.next = r.next /\ q.sequential = r.sequential
      /\ q.error = r.error /\ q.count = r.count /\ q.value = r.value
  BY <1>1, MovedTo
<1>3. Matches(q, s) /\ Values(q, s, D)
  BY <1>2 DEF Agrees, Matches, Values
<1> QED
  BY <1>2, <1>3 DEF Agrees

LEMMA CheckedParseArgGrows ==
  ASSUME Context, Machine, NEW r \in Results, NEW o \in OptionSet
  PROVE  Grows(CheckedParseArg(r, o), r)
<1>1. CASE HasImplicit(o)
  <2>1. Head(Detail(o).implicit) \in Texts
    BY <1>1, Shapes, OneText DEF Context, HasImplicit
  <2> QED
    BY <1>1, <2>1, ParseOptionGrows DEF CheckedParseArg
<1>2. CASE ~HasImplicit(o) /\ r.current + 1 >= argc
  <2>1. CheckedParseArg(r, o) = Throw(r, "missing_argument")
    BY <1>2 DEF CheckedParseArg
  <2>2. "missing_argument" \in SpecErrors \union ParseErrors
    BY DEF ParseErrors
  <2> QED
    BY <2>1, <2>2, ThrowGrows
<1>3. CASE ~HasImplicit(o) /\ ~(r.current + 1 >= argc)
  <2>1. PICK c \in Nat \ {0}, n \in Nat : c = r.current /\ n = LastPlace
    BY DEF Context, LastPlace, Results
  <2>2. c + 1 <= n
    BY <1>3, <2>1 DEF Machine
  <2>3. PICK text \in Texts : text = argv[c + 1]
    BY <2>1, <2>2 DEF Machine
  <2>4. PICK p : p = ParseOption(r, o, text)
    OBVIOUS
  <2>5. Grows(p, r) /\ p.current = c /\ p \in Results
    BY <2>1, <2>4, ParseOptionGrows DEF Grows
  <2>6. PICK q : q = [p EXCEPT !.current = c + 1]
    OBVIOUS
  <2>7. CheckedParseArg(r, o) = q
    <3>1. CheckedParseArg(r, o) = [p EXCEPT !.current = @ + 1]
      BY <1>3, <2>1, <2>3, <2>4 DEF CheckedParseArg
    <3> QED
      BY <2>5, <2>6, <3>1 DEF Results
  <2>8. /\ q \in Results /\ q.current = c + 1
        /\ q.defined = p.defined /\ q.count = p.count /\ q.default = p.default /\ q.value = p.value
    BY <2>5, <2>6, MovedTo
  <2>9. Lengths(p) => Lengths(q)
    BY <2>8 DEF Lengths
  <2>10. r.current <= q.current /\ q.current <= LastPlace
    BY <2>1, <2>2, <2>8
  <2> QED
    BY <2>5, <2>7, <2>8, <2>9, <2>10 DEF Grows
<1> QED
  BY <1>1, <1>2, <1>3

-----------------------------------------------------------------------------
(* Flags                                                                   *)

\* Flagged has the settings of the known flags and no others.
SettingsOf(f, p, k) ==
    /\ \A i \in 1 .. k : Known(FlagsAt(p)[i]) => \E j \in DOMAIN f : f[j] = Setting(FlagsAt(p)[i], p)
    /\ \A j \in DOMAIN f : \E i \in 1 .. k : Known(FlagsAt(p)[i]) /\ f[j] = Setting(FlagsAt(p)[i], p)

LEMMA OneSettingMore ==
  ASSUME NEW p, NEW k \in Nat \ {0}, NEW f \in Seq(Uses), SettingsOf(f, p, k - 1), NEW g,
         IF Known(FlagsAt(p)[k]) THEN g = Append(f, Setting(FlagsAt(p)[k], p)) /\ Setting(FlagsAt(p)[k], p) \in Uses
                                 ELSE g = f
  PROVE  SettingsOf(g, p, k)
<1>1. \A i \in 1 .. k : i \in 1 .. k - 1 \/ i = k
  OBVIOUS
<1>2. 1 .. k - 1 \subseteq 1 .. k /\ k \in 1 .. k
  OBVIOUS
<1>3. CASE ~Known(FlagsAt(p)[k])
  BY <1>1, <1>2, <1>3 DEF SettingsOf
<1>4. CASE Known(FlagsAt(p)[k])
  <2>1. PICK x \in Uses : x = Setting(FlagsAt(p)[k], p)
    BY <1>4
  <2>2. PICK n \in Nat : n = Len(f)
    OBVIOUS
  <2>3. /\ DOMAIN f = 1 .. n /\ DOMAIN g = 1 .. n + 1
        /\ g[n + 1] = x /\ \A j \in 1 .. n : g[j] = f[j]
    BY <1>4, <2>1, <2>2
  <2>4. \A i \in 1 .. k : Known(FlagsAt(p)[i]) => \E j \in DOMAIN g : g[j] = Setting(FlagsAt(p)[i], p)
    <3> SUFFICES ASSUME NEW i \in 1 .. k, Known(FlagsAt(p)[i])
                 PROVE  \E j \in DOMAIN g : g[j] = Setting(FlagsAt(p)[i], p)
      OBVIOUS
    <3>1. CASE i = k
      <4>1. n + 1 \in DOMAIN g /\ g[n + 1] = Setting(FlagsAt(p)[i], p)
        BY <2>1, <2>3, <3>1
      <4> QED
        BY <4>1
    <3>2. CASE i \in 1 .. k - 1
      <4>1. PICK j \in DOMAIN f : f[j] = Setting(FlagsAt(p)[i], p)
        BY <3>2 DEF SettingsOf
      <4>2. j \in DOMAIN g /\ g[j] = f[j]
        BY <2>3
      <4> QED
        BY <4>1, <4>2
    <3> QED
      BY <1>1, <3>1, <3>2
  <2>5. \A j \in DOMAIN g : \E i \in 1 .. k : Known(FlagsAt(p)[i]) /\ g[j] = Setting(FlagsAt(p)[i], p)
    <3> SUFFICES ASSUME NEW j \in DOMAIN g
                 PROVE  \E i \in 1 .. k : Known(FlagsAt(p)[i]) /\ g[j] = Setting(FlagsAt(p)[i], p)
      OBVIOUS
    <3>1. CASE j = n + 1
      BY <1>2, <1>4, <2>1, <2>3, <3>1
    <3>2. CASE j \in 1 .. n
      <4>1. j \in DOMAIN f /\ g[j] = f[j]
        BY <2>3, <3>2
      <4>2. PICK i \in 1 .. k - 1 : Known(FlagsAt(p)[i]) /\ f[j] = Setting(FlagsAt(p)[i], p)
        BY <4>1 DEF SettingsOf
      <4> QED
        BY <1>2, <4>1, <4>2
    <3> QED
      BY <2>3, <3>1, <3>2
  <2> QED
    BY <2>4, <2>5 DEF SettingsOf
<1> QED
  BY <1>3, <1>4

LEMMA FlaggedElements ==
  ASSUME Context, NEW p \in 1 .. LastPlace, IsOption(p), ~Unclear(p)
  PROVE  SettingsOf(Flagged(p), p, Len(FlagsAt(p)))
<1>1. PICK n \in Nat : n = Len(FlagsAt(p))
  BY FlagsType DEF Context
<1>2. PICK f : FlaggedUpTo(f, p) /\ Flagged(p) = f[n]
  BY <1>1, FlaggedMade
<1>3. /\ f \in [0 .. n -> Seq(Uses)] /\ f[0] = <<>>
      /\ \A i \in 1 .. n : f[i] = IF Known(FlagsAt(p)[i]) THEN Append(f[i - 1], Setting(FlagsAt(p)[i], p))
                                  ELSE f[i - 1]
  BY <1>1, <1>2 DEF FlaggedUpTo
<1> DEFINE T == {k \in 0 .. n : SettingsOf(f[k], p, k)}
<1>4. 0 \in T
  BY <1>3 DEF SettingsOf
<1>5. ASSUME NEW k \in 1 .. n, k - 1 \in T
      PROVE  k \in T
  <2>1. SettingsOf(f[k - 1], p, k - 1) /\ f[k - 1] \in Seq(Uses) /\ k \in Nat \ {0}
    BY <1>3, <1>5
  <2>2. IF Known(FlagsAt(p)[k]) THEN f[k] = Append(f[k - 1], Setting(FlagsAt(p)[k], p))
                                       /\ Setting(FlagsAt(p)[k], p) \in Uses
        ELSE f[k] = f[k - 1]
    BY <1>1, <1>3, SettingType
  <2>3. SettingsOf(f[k], p, k)
    BY <2>1, <2>2, OneSettingMore
  <2> QED
    BY <2>3
<1>6. n \in T
  <2> HIDE DEF T
  <2> QED
    BY <1>4, <1>5, CountUp
<1> QED
  BY <1>1, <1>2, <1>6

\* The flag number i of the argument at p makes sense.
Fine(p, i) ==
    LET name == FlagsAt(p)[i]
    IN  /\ Known(name) \/ setup.unrecognised
        /\ Known(name) /\ ~HasImplicit(names[name]) /\ ~given[p].eq
             => i = Len(FlagsAt(p)) /\ p < LastPlace
        /\ Known(name) => ~Refuses(Setting(name, p)[1], Setting(name, p)[2])

Unrefused(s) == \A k \in DOMAIN s : ~Refuses(s[k][1], s[k][2])

LEMMA OptionFacts ==
  ASSUME Context, NEW p \in 1 .. LastPlace, IsOption(p)
  PROVE  /\ Len(FlagsAt(p)) \in Nat \ {0}
         /\ NamesIn(given[p]) = {FlagsAt(p)[i] : i \in 1 .. Len(FlagsAt(p))}
         /\ ~IsFree(p)
         /\ IsShorts(given[p]) => ~given[p].eq
         /\ TakesNext(given[p]) <=> LET name == FlagsAt(p)[Len(FlagsAt(p))]
                                    IN  ~given[p].eq /\ Known(name) /\ ~HasImplicit(names[name])
         /\ ~IsShorts(given[p]) => Len(FlagsAt(p)) = 1 /\ IsLong(given[p])
<1>1. PICK a : a = given[p] /\ a.name \in Seq(Letters)
  BY GivenText DEF Context
<1>2. PICK n \in Nat : n = Len(FlagsAt(p))
  BY FlagsType DEF Context
<1>3. IsFlag(a) /\ p < End
  BY <1>1 DEF IsOption
<1>4. ~IsFree(p)
  <2>1. End \in Nat
    BY EndIs DEF Context, LastPlace
  <2> QED
    BY <1>1, <1>3, <2>1 DEF IsFree
<1>5. CASE IsShorts(a)
  <2>1. n = Len(a.name) /\ n > 0 /\ \A i \in 1 .. n : FlagsAt(p)[i] = <<a.name[i]>>
    BY <1>1, <1>2, <1>5, FlagsType DEF Context, IsShorts
  <2>2. NamesIn(a) = {<<a.name[i]>> : i \in 1 .. n}
    BY <1>1, <1>5, <2>1 DEF NamesIn
  <2>3. NamesIn(a) = {FlagsAt(p)[i] : i \in 1 .. n}
    BY <2>1, <2>2
  <2>4. FlagsAt(p)[n] = <<Last(a.name)>>
    BY <2>1 DEF Last
  <2>5. TakesNext(a) <=> ~a.eq /\ Known(FlagsAt(p)[n]) /\ ~HasImplicit(names[FlagsAt(p)[n]])
    BY <1>3, <1>5, <2>4 DEF TakesNext
  <2>6. ~a.eq
    BY <1>5 DEF IsShorts
  <2> QED
    BY <1>1, <1>2, <1>4, <1>5, <2>1, <2>3, <2>5, <2>6
<1>6. CASE ~IsShorts(a)
  <2>1. FlagsAt(p) = <<a.name>>
    BY <1>1, <1>6, FlagsType DEF Context
  <2>2. Len(FlagsAt(p)) = 1 /\ FlagsAt(p)[1] = a.name
    BY <2>1
  <2>3. NamesIn(a) = {FlagsAt(p)[i] : i \in 1 .. 1}
    BY <1>6, <2>2 DEF NamesIn
  <2>4. TakesNext(a) <=> ~a.eq /\ Known(FlagsAt(p)[1]) /\ ~HasImplicit(names[FlagsAt(p)[1]])
    BY <1>3, <1>6, <2>2 DEF TakesNext
  <2>5. IsLong(a)
    BY <1>3, <1>6 DEF IsFlag
  <2> QED
    BY <1>1, <1>4, <1>6, <2>2, <2>3, <2>4, <2>5
<1> QED
  BY <1>5, <1>6

AllFine(p) == \A i \in 1 .. Len(FlagsAt(p)) : Fine(p, i)

LEMMA FineIsClear ==
  ASSUME Context, NEW p \in 1 .. LastPlace, IsOption(p), AllFine(p)
  PROVE  ~Unclear(p)
<1>1. PICK n \in Nat \ {0} : n = Len(FlagsAt(p))
  BY OptionFacts
<1>2. \A i \in 1 .. n : Fine(p, i)
  BY <1>1 DEF AllFine
<1>3. ~IsFree(p)
  BY OptionFacts
<1>4. ~(~setup.unrecognised /\ \E name \in NamesIn(given[p]) : ~Known(name))
  <2> SUFFICES ASSUME ~setup.unrecognised, NEW name \in NamesIn(given[p])
               PROVE  Known(name)
    OBVIOUS
  <2>1. PICK i \in 1 .. n : name = FlagsAt(p)[i]
    BY <1>1, OptionFacts
  <2>2. Fine(p, i)
    BY <1>2
  <2> QED
    BY <2>1, <2>2 DEF Fine
<1>5. ~(TakesNext(given[p]) /\ p = LastPlace)
  <2> SUFFICES ASSUME TakesNext(given[p])
               PROVE  p < LastPlace
    BY DEF LastPlace, Context
  <2>1. ~given[p].eq /\ Known(FlagsAt(p)[n]) /\ ~HasImplicit(names[FlagsAt(p)[n]])
    BY <1>1, OptionFacts
  <2>2. n \in 1 .. n
    OBVIOUS
  <2>3. Fine(p, n)
    BY <1>2, <2>2
  <2> QED
    BY <2>1, <2>3 DEF Fine
<1>6. ~(/\ IsShorts(given[p])
        /\ \E i \in 1 .. Len(given[p].name) - 1 :
              Known(<<given[p].name[i]>>) /\ ~HasImplicit(names[<<given[p].name[i]>>]))
  <2> SUFFICES ASSUME IsShorts(given[p]), NEW i \in 1 .. Len(given[p].name) - 1,
                      Known(<<given[p].name[i]>>), ~HasImplicit(names[<<given[p].name[i]>>])
               PROVE  FALSE
    OBVIOUS
  <2>1. Len(given[p].name) = n
    BY <1>1, FlagsType DEF Context
  <2>2. i \in 1 .. n /\ i # n /\ FlagsAt(p)[i] = <<given[p].name[i]>>
    BY <2>1, FlagsType DEF Context
  <2>3. Fine(p, i) /\ ~given[p].eq
    BY <1>2, <2>2, OptionFacts
  <2> QED
    BY <1>1, <2>2, <2>3 DEF Fine
<1> QED
  BY <1>3, <1>4, <1>5, <1>6 DEF Unclear

LEMMA ClearIsFine ==
  ASSUME Context, NEW p \in 1 .. LastPlace, IsOption(p), ~Unclear(p), Unrefused(Flagged(p))
  PROVE  AllFine(p)
<1>1. PICK n \in Nat \ {0} : n = Len(FlagsAt(p))
  BY OptionFacts
<1> SUFFICES ASSUME NEW i \in 1 .. n
             PROVE  Fine(p, i)
  BY <1>1 DEF AllFine
<1>2. PICK name : name = FlagsAt(p)[i]
  OBVIOUS
<1>3. Known(name) \/ setup.unrecognised
  <2>1. name \in NamesIn(given[p])
    BY <1>1, <1>2, OptionFacts
  <2>2. setup.unrecognised \in BOOLEAN
    BY Shapes DEF Context
  <2> QED
    BY <2>1, <2>2 DEF Unclear
<1>4. ASSUME Known(name), ~HasImplicit(names[name]), ~given[p].eq
      PROVE  i = n /\ p < LastPlace
  <2>1. i = n
    <3>1. CASE IsShorts(given[p])
      <4>1. Len(given[p].name) = n /\ name = <<given[p].name[i]>>
        BY <1>1, <1>2, <3>1, FlagsType DEF Context
      <4>2. ~(i \in 1 .. n - 1)
        BY <1>4, <3>1, <4>1 DEF Unclear
      <4> QED
        BY <4>2
    <3>2. CASE ~IsShorts(given[p])
      <4>1. n = 1
        BY <1>1, <3>2, OptionFacts
      <4> QED
        BY <4>1
    <3> QED
      BY <3>1, <3>2
  <2>2. TakesNext(given[p])
    BY <1>1, <1>2, <1>4, <2>1, OptionFacts
  <2>3. p # LastPlace
    BY <2>2 DEF Unclear
  <2> QED
    BY <2>1, <2>3 DEF Context, LastPlace
<1>5. Known(name) => ~Refuses(Setting(name, p)[1], Setting(name, p)[2])
  <2> SUFFICES ASSUME Known(name)
               PROVE  ~Refuses(Setting(name, p)[1], Setting(name, p)[2])
    OBVIOUS
  <2>1. SettingsOf(Flagged(p), p, n)
    BY <1>1, FlaggedElements
  <2>2. PICK j \in DOMAIN Flagged(p) : Flagged(p)[j] = Setting(name, p)
    BY <1>2, <2>1 DEF SettingsOf
  <2> QED
    BY <2>2 DEF Unrefused
<1> QED
  BY <1>1, <1>2, <1>3, <1>4, <1>5 DEF Fine

LEMMA UnrefusedOf ==
  ASSUME NEW s \in Seq(Uses), NEW t \in Seq(Uses), Unrefused(s)
  PROVE  Unrefused(s \o t) <=> Unrefused(t)
<1>1. PICK m \in Nat, n \in Nat : m = Len(s) /\ n = Len(t)
  OBVIOUS
<1>2. /\ DOMAIN s = 1 .. m /\ DOMAIN t = 1 .. n /\ DOMAIN (s \o t) = 1 .. m + n
      /\ \A k \in 1 .. m : (s \o t)[k] = s[k]
      /\ \A k \in 1 .. n : (s \o t)[m + k] = t[k]
      /\ \A k \in m + 1 .. m + n : (s \o t)[k] = t[k - m]
  BY <1>1
<1>3. ASSUME Unrefused(s \o t), NEW k \in DOMAIN t
      PROVE  ~Refuses(t[k][1], t[k][2])
  <2>1. m + k \in DOMAIN (s \o t) /\ (s \o t)[m + k] = t[k]
    BY <1>2
  <2> QED
    BY <1>3, <2>1 DEF Unrefused
<1>4. ASSUME Unrefused(t), NEW k \in DOMAIN (s \o t)
      PROVE  ~Refuses((s \o t)[k][1], (s \o t)[k][2])
  <2>1. CASE k \in 1 .. m
    BY <1>2, <2>1 DEF Unrefused
  <2>2. CASE k \in m + 1 .. m + n
    <3>1. k - m \in DOMAIN t /\ (s \o t)[k] = t[k - m]
      BY <1>2, <2>2
    <3> QED
      BY <1>4, <3>1 DEF Unrefused
  <2> QED
    BY <1>2, <2>1, <2>2
<1> QED
  BY <1>3, <1>4 DEF Unrefused

\* An option on the command line is at fault if one of its flags is.
LEMMA OptionFaults ==
  ASSUME Context, NEW p \in 1 .. LastPlace, IsOption(p), Unrefused(Settings[p - 1])
  PROVE  /\ IsFaulty(p) <=> ~AllFine(p)
         /\ ~IsFaulty(p) => /\ ~Unclear(p) /\ Settings[p] = Settings[p - 1] \o Flagged(p)
                            /\ Unrefused(Settings[p])
<1>1. ~IsFree(p)
  BY OptionFacts
<1>2. IsFaulty(p) <=> Unclear(p) \/ ~Unrefused(Settings[p])
  BY <1>1 DEF IsFaulty, Unrefused
<1>3. ASSUME ~Unclear(p)
      PROVE  /\ Settings[p] = Settings[p - 1] \o Flagged(p)
             /\ Unrefused(Settings[p]) <=> Unrefused(Flagged(p))
  <2>1. p - 1 \in 0 .. LastPlace
    BY DEF Context, LastPlace
  <2>2. Settings[p] = Settings[p - 1] \o Flagged(p) /\ Settings[p - 1] \in Seq(Uses)
    BY <1>3, <2>1, SettingsAre DEF Added
  <2>3. Flagged(p) \in Seq(Uses)
    BY <1>3, FlaggedType
  <2> QED
    BY <2>2, <2>3, UnrefusedOf
<1>4. ASSUME AllFine(p)
      PROVE  ~Unclear(p) /\ Unrefused(Flagged(p))
  <2>1. ~Unclear(p)
    BY <1>4, FineIsClear
  <2>2. SettingsOf(Flagged(p), p, Len(FlagsAt(p)))
    BY <2>1, FlaggedElements
  <2>3. ASSUME NEW j \in DOMAIN Flagged(p)
        PROVE  ~Refuses(Flagged(p)[j][1], Flagged(p)[j][2])
    <3>1. PICK i \in 1 .. Len(FlagsAt(p)) :
             Known(FlagsAt(p)[i]) /\ Flagged(p)[j] = Setting(FlagsAt(p)[i], p)
      BY <2>2 DEF SettingsOf
    <3>2. Fine(p, i)
      BY <1>4 DEF AllFine
    <3> QED
      BY <3>1, <3>2 DEF Fine
  <2> QED
    BY <2>1, <2>3 DEF Unrefused
<1> QED
  BY <1>2, <1>3, <1>4, ClearIsFine

-----------------------------------------------------------------------------
(* Reading flags                                                           *)

\* The argument at c and those behind it are in argv as they were given.
Reader(c) == Machine /\ c \in 1 .. LastPlace /\ \A i \in c .. LastPlace : argv[i] = given[i]

TextFor(o, c) == IF HasImplicit(o) THEN Head(Detail(o).implicit) ELSE given[c + 1]

LEMMA CheckedDoes ==
  ASSUME Context, NEW c, Reader(c), NEW s \in Seq(Uses), NEW D \in DefaultTexts,
         NEW r, Agrees(r, s, D), r.current = c, NEW o \in OptionSet,
         NEW z, z = CheckedParseArg(r, o)
  PROVE  IF (HasImplicit(o) \/ c < LastPlace) /\ ~Refuses(o, TextFor(o, c))
         THEN /\ Agrees(z, Append(s, <<o, TextFor(o, c)>>), D)
              /\ z.current = IF HasImplicit(o) THEN c ELSE c + 1
         ELSE z.error # "none"
<1>1. PICK text : text = TextFor(o, c)
  OBVIOUS
<1>2. r \in Results
  BY DEF Agrees
<1>3. CASE HasImplicit(o)
  <2>1. text \in Texts /\ z = ParseOption(r, o, text)
    <3>1. text = Head(Detail(o).implicit)
      BY <1>1, <1>3 DEF TextFor
    <3>2. text \in Texts
      BY <1>3, <3>1, Shapes, OneText DEF Context, HasImplicit
    <3> QED
      BY <1>3, <3>1, <3>2 DEF CheckedParseArg
  <2>2. CASE Refuses(o, text)
    <3>1. z.error # "none"
      BY <1>2, <2>1, <2>2, ParseOptionGrows
    <3> QED
      BY <1>1, <2>2, <3>1
  <2>3. CASE ~Refuses(o, text)
    <3>1. ParsedAs(z, r, o, text)
      BY <1>2, <2>1, <2>3, ParseOptionDoes
    <3>2. Agrees(z, Append(s, <<o, text>>), D)
      BY <2>1, <2>3, <3>1, SetOnce
    <3>3. z.current = c
      BY <3>1 DEF ParsedAs
    <3> QED
      BY <1>1, <1>3, <2>3, <3>2, <3>3
  <2> QED
    BY <2>2, <2>3
<1>4. CASE ~HasImplicit(o)
  <2>1. PICK n \in Nat : n = LastPlace /\ c \in 1 .. n /\ argc = n + 1
    BY DEF Context, LastPlace, Reader, Machine
  <2>2. CASE c = n
    <3>1. r.current + 1 >= argc
      BY <2>1, <2>2
    <3>2. z = Throw(r, "missing_argument")
      BY <1>4, <3>1 DEF CheckedParseArg
    <3>3. "missing_argument" \in SpecErrors \union ParseErrors
      BY DEF ParseErrors
    <3>4. z.error # "none"
      BY <1>2, <3>2, <3>3, ThrowGrows
    <3> QED
      BY <1>4, <2>1, <2>2, <3>4
  <2>3. CASE c < n
    <3>1. ~(r.current + 1 >= argc) /\ c + 1 \in c .. n /\ c + 1 \in 1 .. n
      BY <2>1, <2>3
    <3>2. text = argv[c + 1] /\ text \in Texts
      <4>1. argv[c + 1] = given[c + 1]
        BY <2>1, <3>1 DEF Reader
      <4>2. given[c + 1] \in Texts
        BY <2>1, <3>1, GivenText DEF Context
      <4> QED
        BY <1>1, <1>4, <4>1, <4>2 DEF TextFor
    <3>3. PICK q : q = ParseOption(r, o, text)
      OBVIOUS
    <3>4. z = [q EXCEPT !.current = @ + 1] /\ q \in Results /\ q.current = c
      <4>1. z = [q EXCEPT !.current = @ + 1]
        BY <1>4, <3>1, <3>2, <3>3 DEF CheckedParseArg
      <4>2. Grows(q, r) /\ q.current = c
        BY <1>2, <3>2, <3>3, ParseOptionGrows
      <4> QED
        BY <4>1, <4>2 DEF Grows
    <3>5. c + 1 \in Nat \ {0} /\ z = [q EXCEPT !.current = c + 1]
      BY <2>1, <3>4 DEF Results
    <3>6. z.error = q.error /\ z.current = c + 1
      BY <3>4, <3>5, MovedTo
    <3>7. CASE Refuses(o, text)
      <4>1. q.error # "none"
        BY <1>2, <3>2, <3>3, <3>7, ParseOptionGrows
      <4> QED
        BY <1>1, <3>6, <3>7, <4>1
    <3>8. CASE ~Refuses(o, text)
      <4>1. ParsedAs(q, r, o, text)
        BY <1>2, <3>2, <3>3, <3>8, ParseOptionDoes
      <4>2. Agrees(q, Append(s, <<o, text>>), D)
        BY <3>2, <3>8, <4>1, SetOnce
      <4>3. Agrees(z, Append(s, <<o, text>>), D)
        BY <3>5, <4>2, MovedAgrees
      <4> QED
        BY <1>1, <1>4, <2>1, <2>3, <3>6, <3>8, <4>3
    <3> QED
      BY <3>7, <3>8
  <2> QED
    BY <2>1, <2>2, <2>3
<1> QED
  BY <1>3, <1>4

\* What becomes of a result with the flag number i of the argument at c.
FlagDone(z, r, s, D, c, i) ==
    LET name == FlagsAt(c)[i]
    IN  IF ~Fine(c, i) THEN z.error # "none"
        ELSE IF Known(name)
             THEN /\ Agrees(z, Append(s, Setting(name, c)), D)
                  /\ z.current = IF given[c].eq \/ HasImplicit(names[name]) THEN c ELSE c + 1
             ELSE z = r

LEMMA LetterDoes ==
  ASSUME Context, NEW c, Reader(c), IsOption(c), IsShorts(given[c]),
         NEW s \in Seq(Uses), NEW D \in DefaultTexts,
         NEW r, Agrees(r, s, D), r.current = c, NEW i \in 1 .. Len(given[c].name),
         NEW z, z = Letter(r, given[c].name, i)
  PROVE  FlagDone(z, r, s, D, c, i)
<1>1. c \in 1 .. LastPlace
  BY DEF Reader
<1>2. PICK n \in Nat \ {0} : n = Len(given[c].name) /\ n = Len(FlagsAt(c))
  BY <1>1, FlagsType, OptionFacts DEF Context
<1>3. PICK name : name = FlagsAt(c)[i] /\ name = <<given[c].name[i]>>
  BY <1>1, FlagsType DEF Context
<1>4. r.error = "none" /\ ~given[c].eq
  BY <1>1, OptionFacts DEF Agrees, Matches
<1>5. r \in Results
  BY DEF Agrees
<1>6. PICK o : o = names[name]
  OBVIOUS
<1>7. z = IF ~Known(name) THEN IF setup.unrecognised THEN r ELSE Throw(r, "option_not_exists")
          ELSE IF i = n THEN CheckedParseArg(r, o)
          ELSE IF HasImplicit(o) THEN ParseOption(r, o, Head(Detail(o).implicit))
          ELSE Throw(r, "option_requires_argument")
  BY <1>2, <1>3, <1>4, <1>6 DEF Letter
<1>8. /\ Throw(r, "option_not_exists").error # "none"
      /\ Throw(r, "option_requires_argument").error # "none"
  <2>1. {"option_not_exists", "option_requires_argument"} \subseteq SpecErrors \union ParseErrors
    BY DEF ParseErrors
  <2> QED
    BY <1>5, <2>1, ThrowGrows
<1>9. CASE ~Known(name)
  <2>1. Fine(c, i) <=> setup.unrecognised
    BY <1>3, <1>9 DEF Fine
  <2> QED
    BY <1>3, <1>7, <1>8, <1>9, <2>1 DEF FlagDone
<1>10. CASE Known(name)
  <2>1. o \in OptionSet
    BY <1>6, <1>10, NamesKnown
  <2>2. Setting(name, c) = <<o, TextFor(o, c)>>
    BY <1>4, <1>6 DEF Setting, TextFor, HasImplicit
  <2>3. Fine(c, i) <=> (~HasImplicit(o) => i = n /\ c < LastPlace) /\ ~Refuses(o, TextFor(o, c))
    BY <1>2, <1>3, <1>4, <1>6, <1>10, <2>2 DEF Fine
  <2>4. CASE i = n
    <3>1. z = CheckedParseArg(r, o)
      BY <1>7, <1>10, <2>4
    <3>2. IF (HasImplicit(o) \/ c < LastPlace) /\ ~Refuses(o, TextFor(o, c))
          THEN /\ Agrees(z, Append(s, <<o, TextFor(o, c)>>), D)
               /\ z.current = IF HasImplicit(o) THEN c ELSE c + 1
          ELSE z.error # "none"
      BY <2>1, <3>1, CheckedDoes
    <3> QED
      BY <1>3, <1>4, <1>6, <1>10, <2>2, <2>3, <2>4, <3>2 DEF FlagDone
  <2>5. CASE i # n /\ HasImplicit(o)
    <3>1. TextFor(o, c) \in Texts /\ z = ParseOption(r, o, TextFor(o, c))
      <4>1. Head(Detail(o).implicit) \in Texts
        BY <2>1, <2>5, Shapes, OneText DEF Context, HasImplicit
      <4> QED
        BY <1>7, <1>10, <2>5, <4>1 DEF TextFor
    <3>2. CASE Refuses(o, TextFor(o, c))
      <4>1. z.error # "none"
        BY <1>5, <2>1, <3>1, <3>2, ParseOptionGrows
      <4> QED
        BY <2>3, <3>2, <4>1 DEF FlagDone
    <3>3. CASE ~Refuses(o, TextFor(o, c))
      <4>1. ParsedAs(z, r, o, TextFor(o, c))
        BY <1>5, <2>1, <3>1, <3>3, ParseOptionDoes
      <4>2. Agrees(z, Append(s, <<o, TextFor(o, c)>>), D)
        BY <2>1, <3>1, <3>3, <4>1, SetOnce
      <4>3. z.current = c
        BY <4>1 DEF ParsedAs
      <4> QED
        BY <1>3, <1>6, <1>10, <2>2, <2>3, <2>5, <3>3, <4>2, <4>3 DEF FlagDone
    <3> QED
      BY <3>2, <3>3
  <2>6. CASE i # n /\ ~HasImplicit(o)
    <3>1. z.error # "none"
      BY <1>7, <1>8, <1>10, <2>6
    <3> QED
      BY <2>3, <2>6, <3>1 DEF FlagDone
  <2> QED
    BY <2>4, <2>5, <2>6
<1> QED
  BY <1>9, <1>10

LEMMA LetterGrows ==
  ASSUME Context, Machine, NEW r \in Results, NEW letters, NEW i
  PROVE  Grows(Letter(r, letters, i), r)
<1>1. PICK name, o : name = <<letters[i]>> /\ o = names[name]
  OBVIOUS
<1>2. CASE r.error # "none" \/ (~Known(name) /\ setup.unrecognised)
  BY <1>1, <1>2, GrowsItself DEF Letter
<1>3. ASSUME r.error = "none", ~Known(name), ~setup.unrecognised
      PROVE  Grows(Letter(r, letters, i), r)
  <2>1. "option_not_exists" \in SpecErrors \union ParseErrors
    BY DEF ParseErrors
  <2>2. Letter(r, letters, i) = Throw(r, "option_not_exists")
    BY <1>1, <1>3 DEF Letter
  <2> QED
    BY <2>1, <2>2, ThrowGrows
<1>4. ASSUME r.error = "none", Known(name)
      PROVE  Grows(Letter(r, letters, i), r)
  <2>1. o \in OptionSet
    BY <1>1, <1>4, NamesKnown
  <2>2. Letter(r, letters, i) =
          IF i = Len(letters) THEN CheckedParseArg(r, o)
          ELSE IF HasImplicit(o) THEN ParseOption(r, o, Head(Detail(o).implicit))
          ELSE Throw(r, "option_requires_argument")
    BY <1>1, <1>4 DEF Letter
  <2>3. Grows(CheckedParseArg(r, o), r)
    BY <2>1, CheckedParseArgGrows
  <2>4. HasImplicit(o) => Grows(ParseOption(r, o, Head(Detail(o).implicit)), r)
    <3>1. HasImplicit(o) => Head(Detail(o).implicit) \in Texts
      BY <2>1, Shapes, OneText DEF Context, HasImplicit
    <3> QED
      BY <2>1, <3>1, ParseOptionGrows
  <2>5. Grows(Throw(r, "option_requires_argument"), r)
    <3>1. "option_requires_argument" \in SpecErrors \union ParseErrors
      BY DEF ParseErrors
    <3> QED
      BY <3>1, ThrowGrows
  <2> QED
    BY <2>2, <2>3, <2>4, <2>5
<1> QED
  BY <1>2, <1>3, <1>4

\* The results after each of the letters behind one dash.
LettersUpTo(f, r, letters) ==
    /\ f \in [0 .. Len(letters) -> Results]
    /\ f[0] = r
    /\ \A i \in 1 .. Len(letters) : f[i] = Letter(f[i - 1], letters, i)

LEMMA LettersMade ==
  ASSUME Context, Machine, NEW r \in Results, NEW letters \in Seq(Letters)
  PROVE  \E f : LettersUpTo(f, r, letters) /\ ParseLetters(r, letters) = f[Len(letters)]
<1>1. PICK n \in Nat : n = Len(letters)
  OBVIOUS
<1> DEFINE NextN(f, i) == IF i = 0 THEN r ELSE Letter(f[i - 1], letters, i)
           IsN(f) == f = [i \in 0 .. n |-> NextN(f, i)]
           G == [id \in (1 .. n) \X Results |-> Letter(id[2], letters, id[1])]
           F == CHOOSE f : IsN(f)
<1>2. ParseLetters(r, letters) = F[n]
  BY <1>1 DEF ParseLetters
<1>3. /\ G \in [(1 .. n) \X Results -> Results]
      /\ \A i \in 1 .. n, d \in Results : G[<<i, d>>] = Letter(d, letters, i)
  <2>1. \A i \in 1 .. n, d \in Results : Letter(d, letters, i) \in Results
    BY LetterGrows DEF Grows
  <2> QED
    BY <2>1
<1> HIDE DEF G
<1>4. PICK f \in [0 .. n -> Results] : f[0] = r /\ \A i \in 1 .. n : f[i] = G[<<i, f[i - 1]>>]
  <2>1. DefinedUpTo(n, Results, r, G)
    BY <1>3, StepByStep
  <2> QED
    BY <2>1 DEF DefinedUpTo
<1>5. IsN(f)
  <2> SUFFICES ASSUME NEW i \in 0 .. n
               PROVE  f[i] = NextN(f, i)
    BY <1>4
  <2>1. CASE i = 0
    BY <1>4, <2>1
  <2>2. CASE i # 0
    <3>1. i \in 1 .. n /\ i - 1 \in 0 .. n
      BY <2>2
    <3>2. f[i - 1] \in Results
      BY <3>1
    <3> QED
      BY <1>3, <1>4, <2>2, <3>1, <3>2
  <2> QED
    BY <2>1, <2>2
<1>6. IsN(F)
  BY <1>5
<1> HIDE DEF F
<1>7. \A i \in 0 .. n : F[i] = NextN(F, i)
  <2> HIDE DEF NextN
  <2> QED
    BY <1>6
<1>8. F[0] = r
  BY <1>7
<1>9. \A i \in 1 .. n : F[i] = Letter(F[i - 1], letters, i)
  BY <1>7
<1>10. \A i \in 0 .. n : F[i] \in Results
  <2>1. \A i \in 1 .. n : F[i - 1] \in Results => F[i] = G[<<i, F[i - 1]>>]
    BY <1>3, <1>9
  <2> QED
    BY <1>3, <1>8, <2>1, StaysIn
<1>11. F \in [0 .. n -> Results]
  BY <1>6, <1>10
<1>12. LettersUpTo(F, r, letters)
  BY <1>1, <1>8, <1>9, <1>11 DEF LettersUpTo
<1> QED
  BY <1>1, <1>2, <1>12

LEMMA LettersGrow ==
  ASSUME Context, Machine, NEW r \in Results, NEW letters \in Seq(Letters)
  PROVE  Grows(ParseLetters(r, letters), r)
<1>1. PICK n \in Nat : n = Len(letters)
  OBVIOUS
<1>2. PICK f : LettersUpTo(f, r, letters) /\ ParseLetters(r, letters) = f[n]
  BY <1>1, LettersMade
<1>3. f \in [0 .. n -> Results] /\ f[0] = r /\ \A i \in 1 .. n : f[i] = Letter(f[i - 1], letters, i)
  BY <1>1, <1>2 DEF LettersUpTo
<1> DEFINE T == {i \in 0 .. n : Grows(f[i], r)}
<1>4. 0 \in T
  BY <1>3, GrowsItself
<1>5. ASSUME NEW i \in 1 .. n, i - 1 \in T
      PROVE  i \in T
  <2>1. Grows(f[i - 1], r) /\ f[i - 1] \in Results
    BY <1>3, <1>5
  <2>2. Grows(f[i], f[i - 1])
    BY <1>3, <2>1, LetterGrows
  <2>3. Grows(f[i], r)
    BY <2>1, <2>2, GrowsOn
  <2> QED
    BY <2>3
<1>6. n \in T
  <2> HIDE DEF T
  <2>1. \A k \in 0 .. n : k \in T
    BY <1>4, <1>5, CountUp
  <2> QED
    BY <2>1
<1> QED
  BY <1>2, <1>6

\* What becomes of a result with all the flags of the argument at c.
FlagsDone(z, r, s, D, c) ==
    IF ~AllFine(c) THEN z.error # "none"
    ELSE /\ Agrees(z, s \o Flagged(c), D)
         /\ z.current = IF TakesNext(given[c]) THEN c + 1 ELSE c

\* Nothing follows a flag at fault.
LEMMA LettersFail ==
  ASSUME Context, NEW c, Reader(c), IsOption(c), IsShorts(given[c]),
         NEW s \in Seq(Uses), NEW D \in DefaultTexts, NEW r, Agrees(r, s, D), r.current = c,
         NEW z, z = ParseLetters(r, given[c].name), ~AllFine(c)
  PROVE  z.error # "none"
<1>1. c \in 1 .. LastPlace /\ Machine /\ r \in Results
  BY DEF Reader, Agrees
<1>2. PICK letters \in Seq(Letters) : letters = given[c].name
  BY <1>1, GivenText DEF Context
<1>3. PICK n \in Nat \ {0} : n = Len(letters) /\ n = Len(FlagsAt(c))
  BY <1>1, <1>2, FlagsType, OptionFacts DEF Context
<1>4. PICK f : LettersUpTo(f, r, letters) /\ z = f[n]
  BY <1>1, <1>2, <1>3, LettersMade
<1>5. f \in [0 .. n -> Results] /\ f[0] = r /\ \A i \in 1 .. n : f[i] = Letter(f[i - 1], letters, i)
  BY <1>3, <1>4 DEF LettersUpTo
<1> DEFINE Reads(q) == \E t \in Seq(Uses) : Agrees(q, t, D)
           Good(k) == IF \A i \in 1 .. k : Fine(c, i)
                      THEN Reads(f[k]) /\ (k < n => f[k].current = c)
                      ELSE f[k].error # "none"
           T == {k \in 0 .. n : Good(k)}
<1>6. 0 \in T
  BY <1>5
<1>7. ASSUME NEW k \in 1 .. n, k - 1 \in T
      PROVE  k \in T
  <2>1. PICK q : q = f[k - 1]
    OBVIOUS
  <2>2. f[k] = Letter(q, letters, k) /\ k - 1 < n
    BY <1>5, <2>1
  <2>3. (\A i \in 1 .. k : Fine(c, i)) <=> (\A i \in 1 .. k - 1 : Fine(c, i)) /\ Fine(c, k)
    OBVIOUS
  <2>4. CASE ~\A i \in 1 .. k - 1 : Fine(c, i)
    <3>1. q.error # "none"
      BY <1>7, <2>1, <2>4
    <3>2. f[k] = q
      BY <2>2, <3>1 DEF Letter
    <3> QED
      BY <2>3, <2>4, <3>1, <3>2
  <2>5. CASE \A i \in 1 .. k - 1 : Fine(c, i)
    <3>1. Reads(q) /\ q.current = c
      BY <1>7, <2>1, <2>2, <2>5
    <3>2. PICK t \in Seq(Uses) : Agrees(q, t, D)
      BY <3>1
    <3>3. k \in 1 .. Len(given[c].name) /\ f[k] = Letter(q, given[c].name, k)
      BY <1>2, <1>3, <2>2
    <3>4. FlagDone(f[k], q, t, D, c, k)
      BY <3>1, <3>2, <3>3, LetterDoes
    <3>5. CASE ~Fine(c, k)
      BY <2>3, <3>4, <3>5 DEF FlagDone
    <3>6. CASE Fine(c, k) /\ ~Known(FlagsAt(c)[k])
      <4>1. f[k] = q
        BY <3>4, <3>6 DEF FlagDone
      <4> QED
        BY <2>3, <2>5, <3>1, <3>6, <4>1
    <3>7. CASE Fine(c, k) /\ Known(FlagsAt(c)[k])
      <4>1. PICK use \in Uses : use = Setting(FlagsAt(c)[k], c)
        <5>1. given[c].eq \in BOOLEAN /\ given[c] \in Texts /\ ~given[c].eq
          BY <1>1, GivenText, OptionFacts DEF Context
        <5>2. names[FlagsAt(c)[k]] \in OptionSet /\ Detail(names[FlagsAt(c)[k]]) \in OptionDetails
          BY <3>7, NamesKnown
        <5>3. PICK d \in OptionDetails : d = Detail(names[FlagsAt(c)[k]])
          BY <5>2
        <5>4. CASE d.implicit # <<>>
          <6>1. Setting(FlagsAt(c)[k], c) = <<names[FlagsAt(c)[k]], Head(d.implicit)>>
            BY <5>1, <5>3, <5>4 DEF Setting
          <6>2. Head(d.implicit) \in Texts
            BY <5>4, OneText
          <6> QED
            BY <5>2, <6>1, <6>2 DEF Uses
        <5>5. CASE d.implicit = <<>>
          <6>1. c < LastPlace
            BY <3>7, <5>1, <5>3, <5>5 DEF Fine, HasImplicit
          <6>2. c + 1 \in 1 .. LastPlace
            BY <1>1, <6>1 DEF Context, LastPlace
          <6>3. given[c + 1] \in Texts
            BY <6>2, GivenText DEF Context
          <6>4. Setting(FlagsAt(c)[k], c) = <<names[FlagsAt(c)[k]], given[c + 1]>>
            BY <5>1, <5>3, <5>5 DEF Setting
          <6> QED
            BY <5>2, <6>3, <6>4 DEF Uses
        <5> QED
          BY <5>4, <5>5
      <4>2. Append(t, use) \in Seq(Uses) /\ Agrees(f[k], Append(t, use), D)
        BY <3>4, <3>7, <4>1 DEF FlagDone
      <4>3. k < n => f[k].current = c
        <5>1. ~given[c].eq
          BY <1>1, OptionFacts
        <5>2. k < n => HasImplicit(names[FlagsAt(c)[k]])
          BY <1>3, <3>7, <5>1 DEF Fine
        <5> QED
          BY <3>4, <3>7, <5>2 DEF FlagDone
      <4>4. Reads(f[k])
        BY <4>2
      <4> QED
        BY <2>3, <2>5, <3>7, <4>3, <4>4
    <3> QED
      BY <3>5, <3>6, <3>7
  <2> QED
    BY <2>4, <2>5
<1>8. n \in T
  <2> HIDE DEF T, Good
  <2>1. n \in Nat /\ n \in 0 .. n
    OBVIOUS
  <2>2. \A k \in 0 .. n : k \in T
    BY <1>6, <1>7, <2>1, CountUp
  <2> QED
    BY <2>1, <2>2
<1> QED
  BY <1>3, <1>4, <1>8 DEF AllFine

LEMMA LettersDo ==
  ASSUME Context, NEW c, Reader(c), IsOption(c), IsShorts(given[c]),
         NEW s \in Seq(Uses), NEW D \in DefaultTexts, NEW r, Agrees(r, s, D), r.current = c,
         NEW z, z = ParseLetters(r, given[c].name)
  PROVE  FlagsDone(z, r, s, D, c)
<1>1. c \in 1 .. LastPlace /\ Machine /\ r \in Results
  BY DEF Reader, Agrees
<1>2. PICK letters \in Seq(Letters) : letters = given[c].name
  BY <1>1, GivenText DEF Context
<1>3. PICK n \in Nat \ {0} : n = Len(letters) /\ n = Len(FlagsAt(c))
  BY <1>1, <1>2, FlagsType, OptionFacts DEF Context
<1>4. PICK f : LettersUpTo(f, r, letters) /\ z = f[n]
  BY <1>1, <1>2, <1>3, LettersMade
<1>5. f \in [0 .. n -> Results] /\ f[0] = r /\ \A i \in 1 .. n : f[i] = Letter(f[i - 1], letters, i)
  BY <1>3, <1>4 DEF LettersUpTo
<1>6. SUFFICES ASSUME AllFine(c)
               PROVE  /\ Agrees(z, s \o Flagged(c), D)
                      /\ z.current = IF TakesNext(given[c]) THEN c + 1 ELSE c
  BY LettersFail DEF FlagsDone
<1>7. ~Unclear(c)
  BY <1>1, <1>6, FineIsClear
<1>8. PICK u : FlaggedUpTo(u, c) /\ Flagged(c) = u[n]
  BY <1>1, <1>3, <1>7, FlaggedMade
<1>9. /\ u \in [0 .. n -> Seq(Uses)] /\ u[0] = <<>>
      /\ \A i \in 1 .. n : u[i] = IF Known(FlagsAt(c)[i]) THEN Append(u[i - 1], Setting(FlagsAt(c)[i], c))
                                  ELSE u[i - 1]
  BY <1>3, <1>8 DEF FlaggedUpTo
<1>10. ~given[c].eq
  BY <1>1, OptionFacts
<1> DEFINE At(k) == IF k = n /\ TakesNext(given[c]) THEN c + 1 ELSE c
           T == {k \in 0 .. n : Agrees(f[k], s \o u[k], D) /\ f[k].current = At(k)}
<1>11. 0 \in T
  <2>1. s \o u[0] = s
    BY <1>9
  <2>2. At(0) = c
    OBVIOUS
  <2>3. Agrees(f[0], s \o u[0], D) /\ f[0].current = c /\ 0 \in 0 .. n
    BY <1>5, <2>1
  <2> QED
    BY <2>2, <2>3
<1>12. ASSUME NEW k \in 1 .. n, k - 1 \in T
       PROVE  k \in T
  <2>1. PICK q, name : q = f[k - 1] /\ name = FlagsAt(c)[k]
    OBVIOUS
  <2>2. f[k] = Letter(q, given[c].name, k) /\ k - 1 < n /\ k \in 1 .. Len(given[c].name)
    BY <1>2, <1>3, <1>5, <2>1
  <2>3. PICK v \in Seq(Uses) : v = u[k - 1]
    BY <1>9
  <2>4. PICK t \in Seq(Uses) : t = s \o v
    <3>1. s \o v \in Seq(Uses)
      OBVIOUS
    <3> QED
      BY <3>1
  <2>5. Agrees(q, t, D) /\ q.current = c
    <3>1. At(k - 1) = c
      BY <2>2
    <3>2. Agrees(f[k - 1], s \o u[k - 1], D) /\ f[k - 1].current = At(k - 1)
      BY <1>12
    <3> QED
      BY <2>1, <2>3, <2>4, <3>1, <3>2
  <2>6. FlagDone(f[k], q, t, D, c, k)
    BY <2>2, <2>5, LetterDoes
  <2>7. Fine(c, k)
    BY <1>3, <1>6 DEF AllFine
  <2>8. TakesNext(given[c]) <=> Known(FlagsAt(c)[n]) /\ ~HasImplicit(names[FlagsAt(c)[n]])
    BY <1>1, <1>3, <1>10, OptionFacts
  <2>9. CASE ~Known(name)
    <3>1. f[k] = q /\ u[k] = v
      BY <1>9, <2>1, <2>3, <2>6, <2>7, <2>9 DEF FlagDone
    <3>2. ~(k = n /\ TakesNext(given[c]))
      BY <2>1, <2>8, <2>9
    <3> QED
      <4>1. Agrees(f[k], s \o u[k], D) /\ f[k].current = At(k)
        BY <2>3, <2>4, <2>5, <3>1, <3>2
      <4> QED
        BY <4>1
  <2>10. CASE Known(name)
    <3>1. PICK use \in Uses : use = Setting(name, c)
      BY <1>1, <1>3, <1>7, <2>1, <2>10, SettingType
    <3>2. u[k] = Append(v, use)
      BY <1>9, <2>1, <2>3, <2>10, <3>1
    <3>3. s \o u[k] = Append(t, use)
      BY <2>4, <3>2
    <3>4. /\ Agrees(f[k], Append(t, use), D)
          /\ f[k].current = IF HasImplicit(names[name]) THEN c ELSE c + 1
      BY <1>10, <2>1, <2>6, <2>7, <2>10, <3>1 DEF FlagDone
    <3>5. ~HasImplicit(names[name]) => k = n
      BY <1>3, <1>10, <2>1, <2>7, <2>10 DEF Fine
    <3>6. HasImplicit(names[name]) <=> ~(k = n /\ TakesNext(given[c]))
      BY <2>1, <2>8, <2>10, <3>5
    <3> QED
      <4>1. Agrees(f[k], s \o u[k], D)
        BY <3>3, <3>4
      <4>2. f[k].current = At(k)
        BY <3>4, <3>6
      <4> QED
        BY <4>1, <4>2
  <2> QED
    BY <2>9, <2>10
<1>13. n \in T
  <2> HIDE DEF T
  <2>1. n \in Nat /\ n \in 0 .. n
    OBVIOUS
  <2>2. \A k \in 0 .. n : k \in T
    BY <1>11, <1>12, <2>1, CountUp
  <2> QED
    BY <2>1, <2>2
<1>14. At(n) = IF TakesNext(given[c]) THEN c + 1 ELSE c
  OBVIOUS
<1> QED
  BY <1>4, <1>8, <1>13, <1>14

LEMMA LongDoes ==
  ASSUME Context, NEW c, Reader(c), IsOption(c), IsLong(given[c]), Known(given[c].name),
         NEW s \in Seq(Uses), NEW D \in DefaultTexts, NEW r, Agrees(r, s, D), r.current = c,
         NEW z, z = IF given[c].eq THEN ParseOption(r, names[given[c].name], Behind(given[c]))
                    ELSE CheckedParseArg(r, names[given[c].name])
  PROVE  FlagsDone(z, r, s, D, c) /\ Grows(z, r)
<1>1. c \in 1 .. LastPlace /\ Machine /\ r \in Results
  BY DEF Reader, Agrees
<1>2. PICK name : name = given[c].name /\ Known(name)
  OBVIOUS
<1>o. PICK o \in OptionSet : o = names[name]
  BY <1>2, NamesKnown
<1>3. ~IsShorts(given[c])
  BY DEF IsLong, IsShorts
<1>4. FlagsAt(c) = <<name>> /\ Len(FlagsAt(c)) = 1 /\ FlagsAt(c)[1] = name
  <2>1. FlagsAt(c) = <<name>>
    BY <1>1, <1>2, <1>o, <1>3, FlagsType DEF Context
  <2> QED
    BY <2>1
<1>5. AllFine(c) <=> Fine(c, 1)
  <2>1. 1 .. 1 = {1}
    OBVIOUS
  <2> QED
    BY <1>4, <2>1 DEF AllFine
<1>6. TakesNext(given[c]) <=> ~given[c].eq /\ ~HasImplicit(o)
  BY <1>1, <1>2, <1>o, <1>4, OptionFacts
<1>7. PICK text : text = IF given[c].eq THEN Behind(given[c]) ELSE TextFor(o, c)
  OBVIOUS
<1>8. Setting(name, c) = <<o, text>>
  BY <1>2, <1>o, <1>7 DEF Setting, TextFor, HasImplicit
<1>9. AllFine(c) => s \o Flagged(c) = Append(s, <<o, text>>)
  <2> SUFFICES ASSUME AllFine(c)
               PROVE  s \o Flagged(c) = Append(s, <<o, text>>)
    OBVIOUS
  <2>1. ~Unclear(c)
    BY <1>1, FineIsClear
  <2>2. PICK u : FlaggedUpTo(u, c) /\ Flagged(c) = u[1]
    BY <1>1, <1>4, <2>1, FlaggedMade
  <2>3. PICK use \in Uses : use = <<o, text>>
    <3>1. 1 \in 1 .. Len(FlagsAt(c))
      BY <1>4
    <3>2. Setting(FlagsAt(c)[1], c) \in Uses
      BY <1>1, <1>2, <1>o, <1>4, <2>1, <3>1, SettingType
    <3> QED
      BY <1>4, <1>8, <3>2
  <2>4. u[0] = <<>> /\ 1 \in 1 .. 1 /\ 1 - 1 = 0
    BY <2>2 DEF FlaggedUpTo
  <2>5. u[1] = Append(u[1 - 1], use)
    BY <1>2, <1>o, <1>4, <1>8, <2>2, <2>3, <2>4 DEF FlaggedUpTo
  <2>6. u[1] = Append(<<>>, use)
    BY <2>4, <2>5
  <2>7. s \o Append(<<>>, use) = Append(s, use)
    OBVIOUS
  <2> QED
    BY <2>2, <2>3, <2>6, <2>7
<1>10. CASE given[c].eq
  <2>1. text \in Texts /\ text = Behind(given[c])
    BY <1>1, <1>7, <1>10, GivenText, BehindText DEF Context
  <2>2. z = ParseOption(r, o, text)
    BY <1>2, <1>o, <1>10, <2>1
  <2>3. AllFine(c) <=> ~Refuses(o, text)
    BY <1>2, <1>o, <1>4, <1>5, <1>8, <1>10 DEF Fine
  <2>4. Grows(z, r)
    BY <1>1, <2>1, <2>2, ParseOptionGrows
  <2>5. CASE Refuses(o, text)
    <3>1. z.error # "none"
      BY <1>1, <2>1, <2>2, <2>5, ParseOptionGrows
    <3> QED
      BY <2>3, <2>4, <2>5, <3>1 DEF FlagsDone
  <2>6. CASE ~Refuses(o, text)
    <3>1. ParsedAs(z, r, o, text)
      BY <1>1, <2>1, <2>2, <2>6, ParseOptionDoes
    <3>2. Agrees(z, Append(s, <<o, text>>), D)
      BY <2>1, <2>6, <3>1, SetOnce
    <3>3. z.current = c
      BY <3>1 DEF ParsedAs
    <3> QED
      BY <1>6, <1>9, <1>10, <2>3, <2>4, <2>6, <3>2, <3>3 DEF FlagsDone
  <2> QED
    BY <2>5, <2>6
<1>11. CASE ~given[c].eq
  <2>1. z = CheckedParseArg(r, o) /\ text = TextFor(o, c)
    BY <1>2, <1>o, <1>7, <1>11
  <2>2. IF (HasImplicit(o) \/ c < LastPlace) /\ ~Refuses(o, text)
        THEN /\ Agrees(z, Append(s, <<o, text>>), D)
             /\ z.current = IF HasImplicit(o) THEN c ELSE c + 1
        ELSE z.error # "none"
    BY <2>1, CheckedDoes
  <2>3. AllFine(c) <=> (HasImplicit(o) \/ c < LastPlace) /\ ~Refuses(o, text)
    BY <1>2, <1>o, <1>4, <1>5, <1>8, <1>11 DEF Fine
  <2>4. Grows(z, r)
    BY <1>1, <2>1, CheckedParseArgGrows
  <2> QED
    BY <1>6, <1>9, <1>11, <2>2, <2>3, <2>4 DEF FlagsDone
<1> QED
  BY <1>1, <1>10, <1>11, GivenText DEF Context

-----------------------------------------------------------------------------
(* Places                                                                  *)

\* Only the arguments before "--" that are no values are options.
LEMMA PlaceFacts ==
  ASSUME Context, NEW c \in 1 .. LastPlace, Ahead(c)
  PROVE  /\ LastPlace \in Nat /\ End \in 1 .. LastPlace + 1
         /\ IsTerminator(given[c]) => End = c
         /\ ~IsTerminator(given[c]) => End > c
         /\ IsOption(c) <=> ~IsTerminator(given[c]) /\ IsFlag(given[c])
         /\ IsFree(c) <=> ~IsTerminator(given[c]) /\ ~IsFlag(given[c])
<1>1. PICK n \in Nat : n = LastPlace
  BY DEF Context, LastPlace
<1>2. PICK e \in 1 .. n + 1 : e = End
  BY <1>1, EndIs DEF Context
<1>3. e >= c /\ ~IsValue[c]
  BY <1>1, <1>2 DEF Ahead
<1>4. IsTerminator(given[c]) => e <= c
  BY <1>2, <1>3, EndIs DEF Context
<1>5. ~IsTerminator(given[c]) => e # c
  <2>1. e <= n => IsTerminator(given[e])
    BY <1>1, <1>2, EndIs DEF Context
  <2> QED
    BY <1>1, <2>1
<1>6. IsTerminator(given[c]) => ~IsFlag(given[c])
  <2> SUFFICES ASSUME IsTerminator(given[c])
               PROVE  ~IsFlag(given[c])
    OBVIOUS
  <2>1. given[c].name = <<>> /\ given[c].dashes = 2
    BY DEF IsTerminator
  <2>2. Len(<<>>) = 0
    OBVIOUS
  <2> QED
    BY <2>1, <2>2 DEF IsFlag, IsLong, IsShorts
<1>7. IsTerminator(given[c]) <=> e = c
  BY <1>3, <1>4, <1>5
<1>8. ~IsTerminator(given[c]) <=> c < e
  BY <1>1, <1>3, <1>7
<1>9. ~(c > e)
  BY <1>1, <1>3
<1> QED
  BY <1>1, <1>2, <1>3, <1>7, <1>8, <1>9 DEF IsOption, IsFree

\* An argument that is neither an option nor free sets nothing.
LEMMA NothingThere ==
  ASSUME Context, NEW c \in 1 .. LastPlace, ~IsOption(c), ~IsFree(c), Unrefused(Settings[c - 1])
  PROVE  /\ Settings[c] = Settings[c - 1]
         /\ ~IsFaulty(c) /\ ~IsLeftOver(c)
<1>1. c - 1 \in 0 .. LastPlace
  BY DEF Context, LastPlace
<1>2. PICK s \in Seq(Uses) : s = Settings[c - 1]
  BY <1>1, SettingsAre
<1>3. Settings[c] = s \o <<>>
  <2>1. Added(s, c) = <<>>
    BY DEF Added
  <2> QED
    BY <1>2, <2>1, SettingsAre
<1>4. Settings[c] = s
  BY <1>3
<1>5. ~Unclear(c)
  BY DEF Unclear
<1> QED
  BY <1>2, <1>4, <1>5 DEF IsFaulty, IsLeftOver, Unrefused

\* What comes after an option that makes sense.
LEMMA NextPlace ==
  ASSUME Context, NEW c \in 1 .. LastPlace, Ahead(c), IsOption(c), ~IsFaulty(c),
         Unrefused(Settings[c - 1])
  PROVE  IF TakesNext(given[c])
         THEN /\ c + 1 \in 1 .. LastPlace
              /\ Settings[c + 1] = Settings[c] /\ ~IsFaulty(c + 1) /\ ~IsLeftOver(c + 1)
              /\ Ahead(c + 2)
         ELSE Ahead(c + 1)
<1>1. PICK n \in Nat : n = LastPlace
  BY DEF Context, LastPlace
<1>2. PICK e \in 1 .. n + 1 : e = End
  BY <1>1, EndIs DEF Context
<1>3. c < e /\ ~IsValue[c]
  BY <1>2 DEF IsOption
<1>4. c + 1 <= n => (IsValue[c + 1] <=> TakesNext(given[c]))
  <2> SUFFICES ASSUME c + 1 <= n
               PROVE  IsValue[c + 1] <=> TakesNext(given[c])
    OBVIOUS
  <2>1. PICK d : d = c + 1
    OBVIOUS
  <2>2. d \in 0 .. LastPlace /\ d > 1 /\ d - 1 = c
    BY <1>1, <2>1
  <2>3. IsValue[d] <=> d > 1 /\ ~IsValue[d - 1] /\ TakesNext(given[d - 1])
    BY <2>2, ValuesAre DEF Context
  <2> QED
    BY <1>3, <2>1, <2>2, <2>3
<1>5. CASE ~TakesNext(given[c])
  <2>1. e >= c + 1
    BY <1>1, <1>3
  <2> QED
    BY <1>1, <1>2, <1>4, <1>5, <2>1 DEF Ahead
<1>6. CASE TakesNext(given[c])
  <2>1. ~Unclear(c) /\ Unrefused(Settings[c])
    BY OptionFaults
  <2>2. c # n
    BY <1>1, <1>6, <2>1 DEF Unclear
  <2>3. c + 1 \in 1 .. n /\ c + 1 <= n
    BY <1>1, <2>2
  <2>4. IsValue[c + 1]
    BY <1>4, <1>6, <2>3
  <2>5. e # c + 1
    BY <1>1, <1>2, <2>3, <2>4, EndIs DEF Context
  <2>6. e >= c + 2 /\ ~(c + 1 > e)
    BY <1>1, <1>3, <2>5
  <2>7. ~IsOption(c + 1) /\ ~IsFree(c + 1)
    BY <1>2, <2>4, <2>6 DEF IsOption, IsFree
  <2>8. Settings[c + 1] = Settings[c] /\ ~IsFaulty(c + 1) /\ ~IsLeftOver(c + 1)
    <3>1. PICK d \in 1 .. LastPlace : d = c + 1
      BY <1>1, <2>3
    <3>2. d - 1 = c
      BY <1>1, <3>1
    <3>3. Settings[d] = Settings[d - 1] /\ ~IsFaulty(d) /\ ~IsLeftOver(d)
      BY <2>1, <2>7, <3>1, <3>2, NothingThere
    <3> QED
      BY <3>1, <3>2, <3>3
  <2>9. c + 2 <= n => ~IsValue[c + 2]
    <3> SUFFICES ASSUME c + 2 <= n
                 PROVE  ~IsValue[c + 2]
      OBVIOUS
    <3>1. PICK d : d = c + 2
      OBVIOUS
    <3>2. d \in 0 .. LastPlace /\ d - 1 = c + 1
      BY <1>1, <3>1
    <3>3. IsValue[d] => ~IsValue[d - 1]
      BY <3>2, ValuesAre DEF Context
    <3> QED
      BY <2>4, <3>1, <3>2, <3>3
  <2>10. Ahead(c + 2)
    BY <1>1, <1>2, <2>6, <2>9 DEF Ahead
  <2> QED
    BY <1>1, <1>6, <2>3, <2>8, <2>10
<1> QED
  BY <1>5, <1>6

LEMMA UnknownDoes ==
  ASSUME Context, NEW c \in 1 .. LastPlace, IsOption(c), ~Known(given[c].name), IsLong(given[c]),
         NEW s \in Seq(Uses), NEW D, NEW r, Agrees(r, s, D), r.current = c,
         NEW z, z = IF setup.unrecognised THEN r ELSE Throw(r, "option_not_exists")
  PROVE  FlagsDone(z, r, s, D, c) /\ Grows(z, r)
<1>1. r \in Results
  BY DEF Agrees
<1>2. ~IsShorts(given[c])
  BY DEF IsLong, IsShorts
<1>3. PICK name : name = given[c].name /\ ~Known(name)
  OBVIOUS
<1>4. FlagsAt(c) = <<name>> /\ Len(FlagsAt(c)) = 1 /\ FlagsAt(c)[1] = name
  <2>1. FlagsAt(c) = <<name>>
    BY <1>2, <1>3, FlagsType DEF Context
  <2> QED
    BY <2>1
<1>5. AllFine(c) <=> setup.unrecognised
  <2>1. 1 .. 1 = {1}
    OBVIOUS
  <2>2. Fine(c, 1) <=> setup.unrecognised
    BY <1>3, <1>4 DEF Fine
  <2> QED
    BY <1>4, <2>1, <2>2 DEF AllFine
<1>6. ~TakesNext(given[c])
  BY <1>2, <1>3 DEF TakesNext
<1>7. CASE setup.unrecognised
  <2>1. PICK u : FlaggedUpTo(u, c) /\ Flagged(c) = u[1]
    <3>1. ~Unclear(c)
      BY <1>5, <1>7, FineIsClear
    <3> QED
      BY <1>4, <3>1, FlaggedMade
  <2>2. 1 \in 1 .. 1 /\ 1 - 1 = 0
    OBVIOUS
  <2>3. u[1] = u[1 - 1]
    BY <1>3, <1>4, <2>1, <2>2 DEF FlaggedUpTo
  <2>4. u[1] = <<>>
    BY <2>1, <2>2, <2>3 DEF FlaggedUpTo
  <2>5. s \o <<>> = s
    OBVIOUS
  <2> QED
    BY <1>1, <1>5, <1>6, <1>7, <2>1, <2>4, <2>5, GrowsItself DEF FlagsDone
<1>8. CASE ~setup.unrecognised
  <2>1. "option_not_exists" \in SpecErrors \union ParseErrors
    BY DEF ParseErrors
  <2>2. Grows(z, r) /\ z.error # "none"
    BY <1>1, <1>8, <2>1, ThrowGrows
  <2> QED
    BY <1>5, <1>8, <2>2 DEF FlagsDone
<1> QED
  BY <1>7, <1>8

-----------------------------------------------------------------------------
(* Reading what is no option                                               *)

\* A result whose positional options go on elsewhere.
LEMMA PassedAgrees ==
  ASSUME NEW r, NEW s, NEW D, Agrees(r, s, D), NEW next \in Nat \ {0},
         NEW q, q = [r EXCEPT !.next = next],
         \A i \in DOMAIN setup.positional : i < next => i \notin Open(s)
  PROVE  /\ Agrees(q, s, D) /\ Grows(q, r)
         /\ q.current = r.current
<1>1. r \in Results
  BY DEF Agrees
<1>2. /\ q \in Results /\ q.next = next
      /\ q.defined = r.defined /\ q.current = r.current /\ q.sequential = r.sequential
      /\ q.error = r.error /\ q.count = r.count /\ q.default = r.default /\ q.value = r.value
  BY <1>1 DEF Results
<1>3. Matches(q, s) /\ Values(q, s, D)
  BY <1>2 DEF Agrees, Matches, Values
<1>4. r.current \in Nat
  BY <1>1 DEF Results
<1>5. Lengths(r) => Lengths(q)
  BY <1>2 DEF Lengths
<1> QED
  BY <1>2, <1>3, <1>4, <1>5 DEF Agrees, Grows

\* The positional option that the argument at p is for makes no sense of it.
Misplaced(s, p) ==
    LET name == setup.positional[Min(Open(s))]
    IN  Open(s) # {} /\ (Known(name) => Refuses(names[name], given[p]))

LEMMA FreeFaults ==
  ASSUME Context, NEW p \in 1 .. LastPlace, IsFree(p), ~Unclear(p), Unrefused(Settings[p - 1])
  PROVE  /\ IsFaulty(p) <=> Misplaced(Settings[p - 1], p)
         /\ Settings[p] = Settings[p - 1] \o Positional(Settings[p - 1], p)
         /\ IsLeftOver(p) <=> Positional(Settings[p - 1], p) = <<>>
         /\ Unrefused(Settings[p]) <=> Unrefused(Positional(Settings[p - 1], p))
<1>1. p - 1 \in 0 .. LastPlace
  BY DEF Context, LastPlace
<1>2. PICK s \in Seq(Uses) : s = Settings[p - 1]
  BY <1>1, SettingsAre
<1>3. ~IsOption(p)
  <2>1. PICK e \in Nat : e = End
    BY EndIs DEF Context, LastPlace
  <2> QED
    BY <2>1 DEF IsOption, IsFree
<1>4. PICK t \in Seq(Uses) : t = Positional(s, p)
  BY PositionalType
<1>5. Settings[p] = s \o t
  <2>1. Added(s, p) = t
    BY <1>3, <1>4 DEF Added
  <2> QED
    BY <1>2, <2>1, SettingsAre
<1>6. Unrefused(Settings[p]) <=> Unrefused(t)
  BY <1>2, <1>5, UnrefusedOf
<1>7. Settings[p] = s <=> t = <<>>
  <2>1. t = <<>> => s \o t = s
    OBVIOUS
  <2>2. t # <<>> => Len(s \o t) # Len(s)
    <3>1. PICK m \in Nat, n \in Nat : m = Len(s) /\ n = Len(t)
      OBVIOUS
    <3>2. t # <<>> => n # 0
      BY <3>1, EmptySeq
    <3>3. Len(s \o t) = m + n
      BY <3>1
    <3> QED
      BY <3>1, <3>2, <3>3
  <2> QED
    BY <1>5, <2>1, <2>2
<1>8. IsLeftOver(p) <=> t = <<>>
  BY <1>2, <1>3, <1>7 DEF IsLeftOver
<1>9. PICK name : name = setup.positional[Min(Open(s))]
  OBVIOUS
<1>10. IsFaulty(p) <=> (Open(s) # {} /\ ~Known(name)) \/ ~Unrefused(t)
  BY <1>2, <1>6, <1>9 DEF IsFaulty, Unrefused
<1>11. CASE Open(s) = {} \/ ~Known(name)
  <2>1. t = <<>>
    BY <1>4, <1>9, <1>11 DEF Positional
  <2>2. Unrefused(t)
    BY <2>1 DEF Unrefused
  <2>3. IsFaulty(p) <=> Misplaced(s, p)
    BY <1>9, <1>10, <1>11, <2>2 DEF Misplaced
  <2> QED
    BY <1>2, <1>4, <1>5, <1>6, <1>8, <2>3
<1>12. CASE Open(s) # {} /\ Known(name)
  <2>u. PICK use : use = <<names[name], given[p]>>
    OBVIOUS
  <2>1. use = <<names[name], given[p]>> /\ use[1] = names[name] /\ use[2] = given[p]
    BY <2>u
  <2>2. t = <<use>>
    BY <1>4, <1>9, <1>12, <2>1 DEF Positional
  <2>3. Unrefused(<<use>>) <=> ~Refuses(use[1], use[2])
    <3>1. DOMAIN <<use>> = {1} /\ <<use>>[1] = use
      OBVIOUS
    <3> QED
      BY <3>1 DEF Unrefused
  <2>4. IsFaulty(p) <=> Misplaced(s, p)
    BY <1>9, <1>10, <1>12, <2>1, <2>2, <2>3 DEF Misplaced
  <2> QED
    BY <1>2, <1>4, <1>5, <1>6, <1>8, <2>4
<1> QED
  BY <1>11, <1>12

\* What becomes of a result with an argument that is no option.
FreeDone(z, s, D, c) ==
    IF Misplaced(s, c) THEN z.error # "none" ELSE Agrees(z, s \o Positional(s, c), D)

LEMMA PositionalDoes ==
  ASSUME Context, NEW c \in 1 .. LastPlace, NEW s \in Seq(Uses), NEW D \in DefaultTexts,
         NEW r, Agrees(r, s, D), NEW z, z = ConsumePositional(r, given[c])
  PROVE  /\ FreeDone(z, s, D, c) /\ Grows(z, r)
         /\ z.current = r.current
         /\ Consumed(r) <=> Open(s) # {}
<1>1. Places(r) = Open(s)
  BY PlacesAre
<1>2. r \in Results /\ r.current \in Nat
  BY DEF Agrees, Results
<1>3. Consumed(r) <=> Open(s) # {}
  BY <1>1 DEF Consumed
<1>4. PICK n \in Nat : n = Len(setup.positional) /\ DOMAIN setup.positional = 1 .. n
  <2>1. setup.positional \in Seq(Seq(Letters))
    BY Shapes DEF Context
  <2> QED
    BY <2>1
<1>5. CASE Open(s) = {}
  <2>1. z = [r EXCEPT !.next = n + 1] /\ n + 1 \in Nat \ {0}
    BY <1>3, <1>4, <1>5 DEF ConsumePositional
  <2>2. Agrees(z, s, D) /\ Grows(z, r) /\ z.current = r.current
    BY <1>5, <2>1, PassedAgrees
  <2>3. Positional(s, c) = <<>> /\ s \o <<>> = s
    BY <1>5 DEF Positional
  <2>4. ~Misplaced(s, c)
    BY <1>5 DEF Misplaced
  <2> QED
    BY <1>3, <2>2, <2>3, <2>4 DEF FreeDone
<1>6. CASE Open(s) # {}
  <2>1. PICK i \in 1 .. n : i = Min(Open(s)) /\ i \in Open(s) /\ \A j \in Open(s) : i <= j
    BY <1>4, <1>6, OpenAre
  <2>2. PICK name, o : name = setup.positional[i] /\ o = names[name]
    OBVIOUS
  <2>3. CASE ~Known(name)
    <3>1. z = Throw(r, "option_not_exists")
      BY <1>1, <1>3, <1>6, <2>1, <2>2, <2>3 DEF ConsumePositional
    <3>2. "option_not_exists" \in SpecErrors \union ParseErrors
      BY DEF ParseErrors
    <3>3. Grows(z, r) /\ z.error # "none"
      BY <1>2, <3>1, <3>2, ThrowGrows
    <3>4. z.current = r.current
      BY <1>2, <3>1 DEF Throw, Results
    <3>5. Misplaced(s, c)
      BY <1>6, <2>1, <2>2, <2>3 DEF Misplaced
    <3> QED
      BY <1>3, <1>6, <3>3, <3>4, <3>5 DEF FreeDone
  <2>4. CASE Known(name)
    <3>1. o \in OptionSet
      BY <2>2, <2>4, NamesKnown
    <3>2. PICK text \in Texts : text = given[c]
      BY GivenText DEF Context
    <3>3. PICK q : q = ParseOption(r, o, text)
      OBVIOUS
    <3>4. Grows(q, r) /\ q.current = r.current /\ q \in Results
      BY <1>2, <3>1, <3>3, ParseOptionGrows DEF Grows
    <3>5. PICK next \in Nat \ {0} : next = IF IsContainer(o) THEN i ELSE i + 1
      OBVIOUS
    <3>6. z = [q EXCEPT !.next = next]
      BY <1>1, <1>3, <1>6, <2>1, <2>2, <2>4, <3>2, <3>3, <3>5 DEF ConsumePositional
    <3>7. Misplaced(s, c) <=> Refuses(o, text)
      BY <1>6, <2>1, <2>2, <2>4, <3>2 DEF Misplaced
    <3>8. /\ z \in Results /\ z.error = q.error
          /\ z.defined = q.defined /\ z.current = q.current
          /\ z.count = q.count /\ z.default = q.default /\ z.value = q.value
      BY <3>4, <3>6 DEF Results
    <3>9. Grows(z, r)
      <4>1. Lengths(q) => Lengths(z)
        BY <3>8 DEF Lengths
      <4> QED
        BY <3>4, <3>8, <4>1 DEF Grows
    <3>10. CASE Refuses(o, text)
      <4>1. q.error # "none"
        BY <1>2, <3>1, <3>3, <3>10, ParseOptionGrows
      <4> QED
        BY <1>3, <1>6, <3>4, <3>7, <3>8, <3>9, <3>10, <4>1 DEF FreeDone
    <3>11. CASE ~Refuses(o, text)
      <4>1. ParsedAs(q, r, o, text)
        BY <1>2, <3>1, <3>3, <3>11, ParseOptionDoes
      <4>2. PICK use \in Uses : use = <<o, text>>
        BY <3>1 DEF Uses
      <4>3. PICK t \in Seq(Uses) : t = Append(s, use)
        <5>1. Append(s, use) \in Seq(Uses)
          OBVIOUS
        <5> QED
          BY <5>1
      <4>4. Agrees(q, t, D)
        BY <3>1, <3>11, <4>1, <4>2, <4>3, SetOnce
      <4>5. Open(t) \subseteq Open(s)
        BY <4>3, OpenLess
      <4>6. ~IsContainer(o) => i \notin Open(t)
        <5>1. PICK m \in Nat : m = Len(s)
          OBVIOUS
        <5>2. m + 1 \in DOMAIN t /\ t[m + 1] = use
          BY <4>3, <5>1
        <5>3. t[m + 1][1] = o
          BY <4>2, <5>2
        <5> QED
          BY <2>2, <2>4, <5>2, <5>3 DEF Open
      <4>7. \A j \in DOMAIN setup.positional : j < next => j \notin Open(t)
        <5> SUFFICES ASSUME NEW j \in 1 .. n, j < next, j \in Open(t)
                     PROVE  FALSE
          BY <1>4
        <5>1. j \in Open(s)
          BY <4>5
        <5>2. i <= j
          BY <2>1, <5>1
        <5>3. ~IsContainer(o) /\ j = i
          BY <3>5, <5>2
        <5> QED
          BY <4>6, <5>3
      <4>8. Agrees(z, t, D)
        BY <3>6, <4>4, <4>7, PassedAgrees
      <4>9. s \o Positional(s, c) = t
        <5>1. Positional(s, c) = <<use>>
          BY <1>6, <2>1, <2>2, <2>4, <3>2, <4>2 DEF Positional
        <5>2. s \o <<use>> = Append(s, use)
          OBVIOUS
        <5> QED
          BY <4>3, <5>1, <5>2
      <4> QED
        BY <1>3, <1>6, <3>4, <3>7, <3>8, <3>9, <3>11, <4>8, <4>9 DEF FreeDone
    <3> QED
      BY <3>10, <3>11
  <2> QED
    BY <2>3, <2>4
<1> QED
  BY <1>5, <1>6

-----------------------------------------------------------------------------
(* What is kept                                                            *)

LEMMA KeptOn ==
  ASSUME Context, NEW c \in 1 .. LastPlace, NEW v, NEW k, Kept(v, k, c), ~IsLeftOver(c)
  PROVE  Kept(v, k, c + 1)
<1>1. PICK n \in Nat : n = LastPlace
  BY DEF Context, LastPlace
<1>2. LeftOver[c] = LeftOver[c - 1] /\ (c + 1) - 1 = c
  BY <1>1, LeftOverAre DEF Context
<1>3. k \in 1 .. c + 1 /\ \A i \in c + 1 .. n : i \in c .. n
  BY <1>1 DEF Kept
<1> QED
  BY <1>1, <1>2, <1>3 DEF Kept

LEMMA KeptLeft ==
  ASSUME Context, NEW c \in 1 .. LastPlace, NEW v, NEW k, Kept(v, k, c), IsLeftOver(c),
         NEW w, w = [v EXCEPT ![k] = v[c]]
  PROVE  Kept(w, k + 1, c + 1)
<1>1. PICK n \in Nat : n = LastPlace
  BY DEF Context, LastPlace
<1>2. k \in 1 .. c /\ v \in Seq(Texts) /\ Len(v) = n /\ v[c] = given[c]
  BY <1>1 DEF Kept
<1>3. given[c] \in Texts
  BY GivenText DEF Context
<1>4. k \in 1 .. n
  BY <1>1, <1>2
<1>5. w \in Seq(Texts) /\ Len(w) = n /\ w[k] = given[c] /\ \A i \in 1 .. n : i # k => w[i] = v[i]
  BY <1>2, <1>3, <1>4
<1>6. PICK l \in Seq(Texts) : l = LeftOver[c - 1]
  <2>1. c - 1 \in 0 .. LastPlace
    BY <1>1
  <2> QED
    BY <2>1, LeftOverAre DEF Context
<1>7. LeftOver[c] = Append(l, given[c])
  BY <1>6, LeftOverAre DEF Context
<1>e. (c + 1) - 1 = c
  BY <1>1
<1>8. Len(l) = k - 1 /\ \A i \in 1 .. k - 1 : v[i] = l[i]
  BY <1>6 DEF Kept
<1>9. PICK m \in Seq(Texts) : m = Append(l, given[c])
  <2>1. Append(l, given[c]) \in Seq(Texts)
    BY <1>3
  <2> QED
    BY <2>1
<1>10. Len(m) = k /\ m[k] = given[c] /\ \A i \in 1 .. k - 1 : m[i] = l[i]
  BY <1>2, <1>3, <1>8, <1>9
<1>11. \A i \in 1 .. (k + 1) - 1 : w[i] = m[i]
  <2> SUFFICES ASSUME NEW i \in 1 .. (k + 1) - 1
               PROVE  w[i] = m[i]
    OBVIOUS
  <2>1. i = k \/ (i \in 1 .. k - 1 /\ i # k /\ i \in 1 .. n)
    BY <1>2, <1>4
  <2> QED
    BY <1>5, <1>8, <1>10, <2>1
<1>12. \A i \in c + 1 .. n : w[i] = given[i]
  <2> SUFFICES ASSUME NEW i \in c + 1 .. n
               PROVE  w[i] = given[i]
    OBVIOUS
  <2>1. i # k /\ i \in 1 .. n /\ i \in c .. n
    BY <1>2
  <2> QED
    BY <1>1, <1>5, <2>1 DEF Kept
<1>13. k + 1 \in 1 .. c + 1 /\ Len(m) = (k + 1) - 1
  BY <1>2, <1>10
<1> QED
  BY <1>1, <1>5, <1>7, <1>e, <1>9, <1>11, <1>12, <1>13 DEF Kept

-----------------------------------------------------------------------------
(* The meaning of a command line does not change                           *)

SameProgram == setup' = setup /\ names' = names /\ given' = given

LEMMA SameBasics ==
  ASSUME SameProgram
  PROVE  LastPlace' = LastPlace /\ OptionSet' = OptionSet
BY DEF SameProgram, LastPlace, OptionSet

LEMMA SameValues ==
  ASSUME SameProgram
  PROVE  IsValue' = IsValue
BY SameBasics DEF SameProgram, IsValue, TakesNext, Known, HasImplicit, Detail

LEMMA SameEnd ==
  ASSUME SameProgram
  PROVE  End' = End
BY SameBasics, SameValues DEF SameProgram, End

LEMMA SameKinds ==
  ASSUME SameProgram, NEW p
  PROVE  (IsOption(p)' <=> IsOption(p)) /\ (IsFree(p)' <=> IsFree(p))
BY SameValues, SameEnd DEF SameProgram, IsOption, IsFree

LEMMA SameUnclear ==
  ASSUME SameProgram, NEW p
  PROVE  Unclear(p)' <=> Unclear(p)
BY SameBasics, SameEnd, SameKinds DEF SameProgram, Unclear, TakesNext, Known, HasImplicit, Detail

LEMMA SameFlagged ==
  ASSUME SameProgram, NEW p
  PROVE  Flagged(p)' = Flagged(p)
BY DEF SameProgram, Flagged, FlagsAt, Known, Setting, Detail

LEMMA SameOpen ==
  ASSUME SameProgram, NEW s
  PROVE  Open(s)' = Open(s)
BY DEF SameProgram, Open, Known, IsContainer, Detail

LEMMA SamePositional ==
  ASSUME SameProgram, NEW s, NEW p
  PROVE  Positional(s, p)' = Positional(s, p)
BY SameOpen DEF SameProgram, Positional, Known

LEMMA SameSettings ==
  ASSUME SameProgram
  PROVE  Settings' = Settings
<1>1. LastPlace' = LastPlace
  BY SameBasics
<1>2. \A p : (IsOption(p)' <=> IsOption(p)) /\ (IsFree(p)' <=> IsFree(p)) /\ (Unclear(p)' <=> Unclear(p))
  BY SameKinds, SameUnclear
<1>3. \A p : Flagged(p)' = Flagged(p)
  BY SameFlagged
<1>4. \A s, p : Positional(s, p)' = Positional(s, p)
  BY SamePositional
<1> QED
  BY <1>1, <1>2, <1>3, <1>4 DEF Settings

LEMMA SameFaults ==
  ASSUME SameProgram, NEW p
  PROVE  IsFaulty(p)' <=> IsFaulty(p)
BY SameUnclear, SameKinds, SameOpen, SameSettings DEF SameProgram, IsFaulty, Known, Refuses, Detail

LEMMA SameLeftOver ==
  ASSUME SameProgram
  PROVE  LeftOver' = LeftOver
<1>1. \A p : IsLeftOver(p)' <=> IsLeftOver(p)
  BY SameKinds, SameSettings DEF SameProgram, IsLeftOver, Known
<1> QED
  BY <1>1, SameBasics DEF SameProgram, LeftOver

LEMMA SameDefaults ==
  ASSUME SameProgram
  PROVE  NoDefaults' = NoDefaults /\ AllDefaults' = AllDefaults
BY SameBasics, SameSettings, SameEnd DEF SameProgram, NoDefaults, AllDefaults, DefaultOf, Detail

LEMMA SameAmbiguous ==
  ASSUME SameProgram
  PROVE  /\ IsAmbiguous' <=> IsAmbiguous
         /\ \A n : Named(n)' <=> Named(n)
BY SameBasics DEF SameProgram, IsAmbiguous, Detail, Named, Known

LEMMA SameTexts ==
  ASSUME SameProgram, NEW o, NEW t
  PROVE  (Refuses(o, t)' <=> Refuses(o, t)) /\ ValueFrom(o, t)' = ValueFrom(o, t)
BY DEF SameProgram, Refuses, ValueFrom, IsContainer, Stored, Detail

LEMMA SameMistakes ==
  ASSUME SameProgram
  PROVE  /\ IsMistaken' <=> IsMistaken
         /\ DefaultsFit' <=> DefaultsFit
<1>1. OptionSet' = OptionSet /\ LastPlace' = LastPlace
  BY SameBasics
<1>2. \A o : DefaultOf(o)' = DefaultOf(o)
  BY SameSettings, SameEnd DEF SameProgram, DefaultOf, Detail
<1>3. \A o, t : Refuses(o, t)' <=> Refuses(o, t)
  BY SameTexts
<1>4. \A o : HasWrongDefault(o)' <=> HasWrongDefault(o)
  BY <1>2, <1>3 DEF HasWrongDefault
<1>5. (IsAmbiguous' <=> IsAmbiguous) /\ \A p : IsFaulty(p)' <=> IsFaulty(p)
  BY SameAmbiguous, SameFaults
<1> QED
  BY <1>1, <1>4, <1>5 DEF IsMistaken, DefaultsFit

LEMMA MatchesNext ==
  ASSUME SameProgram, NEW r, r = result', Matches(r, Settings[r.current - 1])
  PROVE  Matches(result, Settings[result.current - 1])'
<1>1. Settings' = Settings /\ OptionSet' = OptionSet /\ setup' = setup
  BY SameSettings, SameBasics DEF SameProgram
<1>2. \A s : Open(s)' = Open(s)
  BY SameOpen
<1>3. \A o, t : Refuses(o, t)' <=> Refuses(o, t)
  BY SameTexts
<1> QED
  BY <1>1, <1>2, <1>3 DEF Matches

LEMMA ValuesNext ==
  ASSUME SameProgram, NEW r, r = result'
  PROVE  /\ Values(r, Settings[r.current - 1], NoDefaults)
              => Values(result, Settings[result.current - 1], NoDefaults)'
         /\ Values(r, Settings[r.current - 1], AllDefaults)
              => Values(result, Settings[result.current - 1], AllDefaults)'
<1>1. Settings' = Settings /\ OptionSet' = OptionSet
  BY SameSettings, SameBasics
<1>2. NoDefaults' = NoDefaults /\ AllDefaults' = AllDefaults
  BY SameDefaults
<1>3. \A o, t : ValueFrom(o, t)' = ValueFrom(o, t)
  BY SameTexts
<1>4. Values(r, Settings[r.current - 1], NoDefaults)
        => Values(result, Settings[result.current - 1], NoDefaults)'
  BY <1>1, <1>2, <1>3 DEF Values
<1>5. Values(r, Settings[r.current - 1], AllDefaults)
        => Values(result, Settings[result.current - 1], AllDefaults)'
  BY <1>1, <1>2, <1>3 DEF Values
<1> QED
  BY <1>4, <1>5

LEMMA KeptNext ==
  ASSUME SameProgram, NEW r, r = result', NEW v, v = argv', NEW k, k = nextKeep',
         Kept(v, k, r.current)
  PROVE  Kept(argv, nextKeep, result.current)'
<1>1. LastPlace' = LastPlace /\ LeftOver' = LeftOver /\ given' = given
  BY SameBasics, SameLeftOver DEF SameProgram
<1> QED
  BY <1>1 DEF Kept

LEMMA ReadNext ==
  ASSUME SameProgram, NEW r, r = result', NEW v, v = argv', NEW k, k = nextKeep'
  PROVE  /\ ReadBefore(r, v, k, NoDefaults) => ReadBefore(result, argv, nextKeep, NoDefaults)'
         /\ ReadBefore(r, v, k, AllDefaults) => ReadBefore(result, argv, nextKeep, AllDefaults)'
<1>1. LastPlace' = LastPlace
  BY SameBasics
<1>2. \A p : IsFaulty(p)' <=> IsFaulty(p)
  BY SameFaults
<1>3. Matches(r, Settings[r.current - 1]) => Matches(result, Settings[result.current - 1])'
  BY MatchesNext
<1>4. Kept(v, k, r.current) => Kept(argv, nextKeep, result.current)'
  BY KeptNext
<1>5. ASSUME ReadBefore(r, v, k, NoDefaults)
      PROVE  ReadBefore(result, argv, nextKeep, NoDefaults)'
  <2>1. Values(result, Settings[result.current - 1], NoDefaults)'
    BY <1>5, ValuesNext DEF ReadBefore
  <2> QED
    BY <1>1, <1>2, <1>3, <1>4, <1>5, <2>1 DEF ReadBefore
<1>6. ASSUME ReadBefore(r, v, k, AllDefaults)
      PROVE  ReadBefore(result, argv, nextKeep, AllDefaults)'
  <2>1. Values(result, Settings[result.current - 1], AllDefaults)'
    BY <1>6, ValuesNext DEF ReadBefore
  <2> QED
    BY <1>1, <1>2, <1>3, <1>4, <1>6, <2>1 DEF ReadBefore
<1> QED
  BY <1>5, <1>6

LEMMA AheadNext ==
  ASSUME SameProgram, NEW r, r = result', Ahead(r.current)
  PROVE  Ahead(result.current)'
BY SameBasics, SameEnd, SameValues DEF Ahead

LEMMA BoundsNext ==
  ASSUME setup' = setup, given' = given, NEW r, r = result', NEW v, v = argv',
         NEW k, k = nextKeep', NEW a, a = argc', InBounds(r, v, k, a)
  PROVE  InBounds(result, argv, nextKeep, argc)'
<1>1. LastPlace' = LastPlace /\ OptionSet' = OptionSet
  BY DEF LastPlace, OptionSet
<1>2. \A o : IsContainer(o)' <=> IsContainer(o)
  BY DEF IsContainer, Detail
<1> QED
  BY <1>1, <1>2 DEF InBounds, Lengths

-----------------------------------------------------------------------------
(* The next state                                                          *)

\* What every state after the definitions keeps.
LEMMA ProgramNext ==
  ASSUME OptionsInv, Defined, SameProgram, NEW r, r = result', r \in Results,
         r.defined = result.defined
  PROVE  /\ (setup \in Setups /\ given \in Seq(Texts) /\ result \in Results)'
         /\ Defined'
<1>1. setup' \in Setups /\ given' \in Seq(Texts)
  BY DEF OptionsInv, SameProgram
<1>2. OptionSet' = OptionSet
  BY SameBasics
<1>3. (result \in Results)'
  BY <1>2 DEF Results, Uses
<1>4. result.defined = Len(setup.options) /\ Named(Len(setup.options))
  BY DEF Defined
<1>5. (result.defined = Len(setup.options))'
  BY <1>4 DEF SameProgram
<1>6. Named(Len(setup.options))'
  BY <1>4, SameBasics DEF SameProgram, Named, Known, Detail
<1> QED
  BY <1>1, <1>3, <1>5, <1>6 DEF Defined

LEMMA ToArguments ==
  ASSUME OptionsInv, Defined, SameProgram, pc' = "arguments", argc' = LastPlace + 1,
         NEW r, r = result', r \in Results, r.defined = result.defined,
         NEW v, v = argv', NEW k, k = nextKeep', ReadBefore(r, v, k, NoDefaults),
         \A o \in OptionSet : ~r.default[o], Ahead(r.current)
  PROVE  OptionsInv'
<1>1. /\ (setup \in Setups /\ given \in Seq(Texts) /\ result \in Results)'
      /\ Defined'
  BY ProgramNext
<1>2. ReadBefore(result, argv, nextKeep, NoDefaults)' /\ Ahead(result.current)'
  BY ReadNext, AheadNext
<1>3. NoneDefault' /\ (argc = LastPlace + 1)'
  BY SameBasics DEF NoneDefault
<1>4. InArguments'
  BY <1>2, <1>3 DEF InArguments
<1>5. ~Parsed'
  BY DEF Parsed
<1> QED
  BY <1>1, <1>4, <1>5 DEF OptionsInv

LEMMA ToDefaults ==
  ASSUME OptionsInv, Sensible, SameProgram, pc' = "defaults", argc' = LastPlace + 1,
         NEW r, r = result', r \in Results, r.defined = result.defined,
         NEW v, v = argv', NEW k, k = nextKeep', ReadBefore(r, v, k, NoDefaults),
         \A o \in OptionSet : ~r.default[o],
         r.current = LastPlace + 1 \/ End < r.current,
         Settings[r.current - 1] = Settings[End - 1]
  PROVE  OptionsInv'
<1>1. /\ (setup \in Setups /\ given \in Seq(Texts) /\ result \in Results)'
      /\ Defined'
  BY ProgramNext DEF OptionsInv
<1>2. ReadBefore(result, argv, nextKeep, NoDefaults)'
  BY ReadNext
<1>3. NoneDefault' /\ (argc = LastPlace + 1)'
  BY SameBasics DEF NoneDefault
<1>4. /\ (result.current = LastPlace + 1 \/ End < result.current)'
      /\ (Settings[result.current - 1] = Settings[End - 1])'
  BY SameBasics, SameEnd, SameSettings
<1>5. InDefaults'
  BY <1>2, <1>3, <1>4 DEF InDefaults
<1>6. ~Parsed'
  BY DEF Parsed
<1> QED
  BY <1>1, <1>5, <1>6 DEF OptionsInv

LEMMA ToRest ==
  ASSUME OptionsInv, Sensible, SameProgram, pc' = "rest", argc' = LastPlace + 1,
         NEW r, r = result', r \in Results, r.defined = result.defined,
         NEW v, v = argv', NEW k, k = nextKeep', ReadBefore(r, v, k, AllDefaults),
         r.current = LastPlace + 1 \/ End < r.current, DefaultsFit
  PROVE  OptionsInv'
<1>1. /\ (setup \in Setups /\ given \in Seq(Texts) /\ result \in Results)'
      /\ Defined'
  BY ProgramNext DEF OptionsInv
<1>2. ReadBefore(result, argv, nextKeep, AllDefaults)'
  BY ReadNext
<1>3. (argc = LastPlace + 1)'
  BY SameBasics
<1>4. (result.current = LastPlace + 1 \/ End < result.current)'
  BY SameBasics, SameEnd
<1>5. InRest'
  BY <1>2, <1>3, <1>4 DEF InRest
<1>6. ~Parsed'
  BY DEF Parsed
<1>7. DefaultsFit'
  BY SameMistakes
<1> QED
  BY <1>1, <1>5, <1>6, <1>7 DEF OptionsInv

LEMMA ToFailed ==
  ASSUME OptionsInv, Sensible, SameProgram, pc' = "thrown",
         NEW r, r = result', r \in Results, r.defined = result.defined,
         NEW v, v = argv', NEW k, k = nextKeep', NEW a, a = argc',
         InBounds(r, v, k, a), k <= r.current, IsMistaken
  PROVE  OptionsInv'
<1>1. /\ (setup \in Setups /\ given \in Seq(Texts) /\ result \in Results)'
      /\ Defined'
  BY ProgramNext DEF OptionsInv
<1>b. InBounds(result, argv, nextKeep, argc)' /\ nextKeep' <= result'.current
  BY BoundsNext DEF SameProgram
<1>2. IsMistaken'
  BY SameMistakes
<1>3. ~Parsed' /\ ~Sensible'
  BY DEF Parsed, Sensible
<1>4. (result.defined = Len(setup.options))'
  BY <1>1 DEF Defined
<1> QED
  BY <1>1, <1>b, <1>2, <1>3, <1>4 DEF OptionsInv

LEMMA ToThrown ==
  ASSUME OptionsInv, Sensible, SameProgram, pc' = "thrown",
         NEW r, r = result', r \in Results, r.defined = result.defined,
         NEW v, v = argv', NEW k, k = nextKeep', NEW a, a = argc',
         InBounds(r, v, k, a), k <= r.current,
         NEW p \in 1 .. LastPlace, IsFaulty(p)
  PROVE  OptionsInv'
<1>1. IsMistaken
  BY DEF IsMistaken
<1> QED
  BY <1>1, ToFailed

LEMMA NextFree ==
  ASSUME Context, NEW c \in 1 .. LastPlace, Ahead(c), IsFree(c)
  PROVE  Ahead(c + 1)
<1>1. PICK n \in Nat, e \in Nat : n = LastPlace /\ e = End
  BY EndIs DEF Context, LastPlace
<1>2. ~IsFlag(given[c]) /\ e > c
  BY <1>1, PlaceFacts
<1>3. c + 1 <= n => ~IsValue[c + 1]
  <2>1. PICK d : d = c + 1
    OBVIOUS
  <2>2. d - 1 = c
    BY <1>1, <2>1
  <2>3. d <= n => d \in 0 .. LastPlace
    BY <1>1, <2>1
  <2>4. ~TakesNext(given[d - 1])
    BY <1>2, <2>2 DEF TakesNext
  <2>5. d <= n => ~IsValue[d]
    BY <2>3, <2>4, ValuesAre DEF Context
  <2> QED
    BY <2>1, <2>5
<1>4. e >= c + 1
  BY <1>1, <1>2
<1> QED
  BY <1>1, <1>3, <1>4 DEF Ahead

\* What is read so far is in bounds.
LEMMA ReadInBounds ==
  ASSUME Context, NEW r \in Results, NEW v, NEW k, NEW D \in DefaultTexts,
         ReadBefore(r, v, k, D)
  PROVE  InBounds(r, v, k, LastPlace + 1) /\ k <= r.current
<1>1. PICK c \in Nat, n \in Nat : c = r.current /\ n = LastPlace
  <2>1. r.current \in Nat /\ LastPlace \in Nat
    BY DEF Results, Context, LastPlace
  <2> QED
    BY <2>1
<1>2. c \in 1 .. n + 1 /\ Kept(v, k, c)
  BY <1>1 DEF ReadBefore
<1>3. k \in 1 .. c /\ v \in Seq(Texts) /\ Len(v) = n
  BY <1>1, <1>2 DEF Kept
<1>4. PICK s \in Seq(Uses) : s = Settings[c - 1]
  <2>1. c - 1 \in 0 .. LastPlace
    BY <1>1, <1>2
  <2> QED
    BY <2>1, SettingsAre
<1>5. ASSUME NEW o \in OptionSet, ~IsContainer(o)
      PROVE  Len(r.value[o]) <= 1
  <2>1. PICK t \in Seq(Texts) : t = TextsOf(o, s)
    BY TextsType
  <2>2. PICK d \in Seq(Texts) : d = D[o]
    BY DEF DefaultTexts
  <2>3. PICK x \in Seq(Texts) : x = d \o t
    <3>1. d \o t \in Seq(Texts)
      OBVIOUS
    <3> QED
      BY <3>1
  <2>4. r.value[o] = ValueFrom(o, x)
    BY <1>1, <1>4, <2>1, <2>2, <2>3 DEF ReadBefore, Values
  <2>5. CASE x = <<>>
    <3>1. r.value[o] = <<>> /\ Len(<<>>) = 0
      BY <1>5, <2>4, <2>5 DEF ValueFrom
    <3> QED
      BY <3>1
  <2>6. CASE x # <<>>
    <3>1. Last(x) \in Texts
      <4>1. Len(x) \in 1 .. Len(x)
        BY <2>6, EmptySeq
      <4> QED
        BY <4>1 DEF Last
    <3>2. r.value[o] = Stored(o, <<>>, Last(x))
      BY <1>5, <2>4, <2>6 DEF ValueFrom
    <3>3. <<>> \in Seq(Texts)
      OBVIOUS
    <3>4. Len(r.value[o]) = 1
      BY <1>5, <3>1, <3>2, <3>3, StoredType
    <3> QED
      BY <3>4
  <2> QED
    BY <2>5, <2>6
<1>6. k \in 1 .. LastPlace + 1 /\ LastPlace + 1 \in 1 .. LastPlace + 1 /\ r.current <= LastPlace + 1
      /\ k <= r.current
  BY <1>1, <1>2, <1>3
<1> QED
  BY <1>1, <1>3, <1>5, <1>6 DEF InBounds, Lengths

LEMMA StaysInBounds ==
  ASSUME Context, NEW r \in Results, NEW v, NEW k, NEW a, InBounds(r, v, k, a),
         k <= r.current, r.current <= LastPlace, NEW z, Grows(z, r)
  PROVE  InBounds(z, v, k, a) /\ k <= z.current
<1>1. /\ r.current \in Nat /\ z.current \in Nat /\ LastPlace \in Nat /\ k \in Nat
      /\ r.current <= z.current /\ z.current <= LastPlace
  <2>1. k \in Nat
    BY DEF InBounds
  <2> QED
    BY <2>1 DEF Results, Grows, Context, LastPlace
<1>2. k <= z.current /\ z.current <= LastPlace + 1
  BY <1>1
<1> QED
  BY <1>2 DEF InBounds, Grows

\* Where an argument leads that is neither "--" nor a value.
Outcome(z, c, D) == IF IsFaulty(c) THEN z.error # "none" ELSE Agrees(z, Settings[c], D)

UsesUp(c) == IsOption(c) /\ TakesNext(given[c])

LEMMA ArgumentFacts ==
  ASSUME OptionsInv, Reading
  PROVE  /\ Context /\ Sensible /\ Defined
         /\ result.current \in 1 .. LastPlace /\ result.current - 1 \in 0 .. LastPlace
         /\ result \in Results /\ argc = LastPlace + 1
         /\ Reader(result.current) /\ Ahead(result.current)
         /\ Agrees(result, Settings[result.current - 1], NoDefaults)
         /\ Unrefused(Settings[result.current - 1])
         /\ Kept(argv, nextKeep, result.current)
         /\ \A p \in 1 .. result.current - 1 : ~IsFaulty(p)
         /\ \A o \in OptionSet : ~result.default[o]
         /\ This = given[result.current]
<1>1. Context /\ Sensible /\ Defined /\ InArguments /\ result \in Results
  BY DEF OptionsInv, Reading, Sensible, Context, Defined
<1>2. PICK c \in Nat, n \in Nat : c = result.current /\ n = LastPlace
  <2>1. result.current \in Nat
    BY <1>1 DEF Results
  <2>2. LastPlace \in Nat
    BY <1>1 DEF Context, LastPlace
  <2> QED
    BY <2>1, <2>2
<1>3. ReadBefore(result, argv, nextKeep, NoDefaults) /\ argc = n + 1
  BY <1>1, <1>2 DEF InArguments
<1>4. c \in 1 .. n /\ c - 1 \in 0 .. n
  <2>1. c # n + 1
    BY <1>2, <1>3 DEF Reading
  <2>2. c \in 1 .. n + 1
    BY <1>2, <1>3 DEF ReadBefore
  <2> QED
    BY <2>1, <2>2
<1>5. Kept(argv, nextKeep, c) /\ \A p \in 1 .. c - 1 : ~IsFaulty(p)
  BY <1>2, <1>3 DEF ReadBefore
<1>6. Machine /\ \A i \in c .. n : argv[i] = given[i]
  BY <1>2, <1>3, <1>5 DEF Kept, Machine
<1>7. This = given[c]
  BY <1>2, <1>4, <1>6 DEF This
<1>8. Agrees(result, Settings[c - 1], NoDefaults) /\ Unrefused(Settings[c - 1])
  BY <1>1, <1>2, <1>3 DEF ReadBefore, Agrees, Matches, Unrefused
<1>9. Ahead(c) /\ \A o \in OptionSet : ~result.default[o]
  BY <1>1, <1>2 DEF InArguments, NoneDefault
<1> QED
  BY <1>1, <1>2, <1>3, <1>4, <1>5, <1>6, <1>7, <1>8, <1>9 DEF Reader

LEMMA ReadArguments ==
  ASSUME Context, result \in Results, ReadBefore(result, argv, nextKeep, NoDefaults),
         argc = LastPlace + 1
  PROVE  InBounds(result, argv, nextKeep, argc) /\ nextKeep <= result.current
<1>1. NoDefaults \in DefaultTexts
  <2>1. <<>> \in Seq(Texts)
    OBVIOUS
  <2> QED
    BY <2>1 DEF NoDefaults, DefaultTexts
<1> QED
  BY <1>1, ReadInBounds

LEMMA ArgumentInBounds ==
  ASSUME OptionsInv, Reading
  PROVE  /\ InBounds(result, argv, nextKeep, argc) /\ nextKeep <= result.current
         /\ result.current <= LastPlace
<1>1. Context /\ InArguments /\ result \in Results /\ argc = LastPlace + 1
  BY ArgumentFacts DEF OptionsInv, Reading
<1>2. ReadBefore(result, argv, nextKeep, NoDefaults)
  BY <1>1 DEF InArguments
<1>3. PICK n \in Nat : n = LastPlace
  BY <1>1 DEF Context, LastPlace
<1>4. result.current \in 1 .. n
  BY <1>3, ArgumentFacts
<1> QED
  BY <1>1, <1>2, <1>3, <1>4, ReadArguments

LEMMA ArgumentRead ==
  ASSUME OptionsInv, Reading, SameProgram, argc' = argc,
         NEW c, c = result.current, ~IsTerminator(given[c]),
         NEW z, Grows(z, result), Outcome(z, c, NoDefaults), Proceed(z),
         ~IsFaulty(c) => z.current = IF UsesUp(c) THEN c + 1 ELSE c,
         IF ~IsFaulty(c) /\ IsLeftOver(c) THEN Keep ELSE KeepNothing
  PROVE  OptionsInv'
<1>1. Context /\ Sensible /\ c \in 1 .. LastPlace /\ result \in Results /\ argc = LastPlace + 1
  BY ArgumentFacts
<1>2. PICK n \in Nat : n = LastPlace
  BY <1>1 DEF Context, LastPlace
<1>3. z \in Results /\ z.defined = result.defined /\ z.default = result.default
  BY DEF Grows
<1>4. CASE IsFaulty(c)
  <2>1. result' = z /\ pc' = "thrown"
    BY <1>4 DEF Outcome, Proceed
  <2>2. PICK v, k, a : v = argv /\ k = nextKeep /\ a = argc
    OBVIOUS
  <2>3. v = argv' /\ k = nextKeep' /\ a = argc'
    BY <1>4, <2>2 DEF KeepNothing
  <2>4. InBounds(z, v, k, a) /\ k <= z.current
    BY <1>1, <2>2, ArgumentInBounds, StaysInBounds
  <2> QED
    BY <1>1, <1>3, <1>4, <2>1, <2>3, <2>4, ToThrown
<1>5. CASE ~IsFaulty(c)
  <2>1. Agrees(z, Settings[c], NoDefaults)
    BY <1>5 DEF Outcome
  <2>2. z.error = "none" /\ z.current = IF UsesUp(c) THEN c + 1 ELSE c
    BY <1>5, <2>1 DEF Agrees, Matches
  <2>3. PICK d \in 1 .. n + 1 : /\ d = z.current + 1
                                /\ Settings[d - 1] = Settings[c]
                                /\ \A p \in 1 .. d - 1 : ~IsFaulty(p)
                                /\ Ahead(d)
                                /\ d = c + 1 \/ (d = c + 2 /\ c + 1 \in 1 .. n /\ ~IsLeftOver(c + 1))
    <3>1. \A p \in 1 .. c : ~IsFaulty(p)
      <4>1. \A p \in 1 .. c - 1 : ~IsFaulty(p)
        BY ArgumentFacts
      <4>2. \A p \in 1 .. c : p \in 1 .. c - 1 \/ p = c
        BY <1>1, <1>2
      <4> QED
        BY <1>5, <4>1, <4>2
    <3>2. Ahead(c) /\ Unrefused(Settings[c - 1])
      BY ArgumentFacts
    <3>3. CASE UsesUp(c)
      <4>1. /\ c + 1 \in 1 .. n /\ Settings[c + 1] = Settings[c]
            /\ ~IsFaulty(c + 1) /\ ~IsLeftOver(c + 1) /\ Ahead(c + 2)
        BY <1>1, <1>2, <1>5, <3>2, <3>3, NextPlace DEF UsesUp
      <4>2. c + 2 \in 1 .. n + 1 /\ c + 2 = z.current + 1 /\ (c + 2) - 1 = c + 1
        BY <1>1, <1>2, <2>2, <3>3, <4>1
      <4>3. \A p \in 1 .. c + 1 : p \in 1 .. c \/ p = c + 1
        BY <1>1, <1>2
      <4>4. \A p \in 1 .. (c + 2) - 1 : ~IsFaulty(p)
        BY <3>1, <4>1, <4>2, <4>3
      <4> QED
        BY <4>1, <4>2, <4>4
    <3>4. CASE ~UsesUp(c)
      <4>1. Ahead(c + 1)
        <5>1. IsOption(c) \/ IsFree(c)
          BY <1>1, <3>2, PlaceFacts
        <5>2. IsOption(c) => ~TakesNext(given[c])
          BY <3>4 DEF UsesUp
        <5> QED
          BY <1>1, <1>5, <3>2, <5>1, <5>2, NextPlace, NextFree
      <4>2. c + 1 \in 1 .. n + 1 /\ c + 1 = z.current + 1 /\ (c + 1) - 1 = c
        BY <1>1, <1>2, <2>2, <3>4
      <4> QED
        BY <3>1, <4>1, <4>2
    <3> QED
      BY <3>3, <3>4
  <2>4. PICK r : r = [z EXCEPT !.current = d]
    OBVIOUS
  <2>5. d \in Nat \ {0}
    BY <1>2
  <2>6. result' = r /\ pc' = "arguments"
    <3>1. result' = [z EXCEPT !.current = z.current + 1] /\ pc' = pc
      BY <1>3, <2>2 DEF Proceed, Results
    <3> QED
      BY <2>3, <2>4, <3>1 DEF Reading
  <2>7. /\ r \in Results /\ r.current = d /\ r.defined = result.defined
        /\ r.default = result.default
    BY <1>3, <2>4, <2>5, MovedTo
  <2>8. Agrees(r, Settings[d - 1], NoDefaults)
    BY <2>1, <2>3, <2>4, <2>5, MovedAgrees
  <2>9. PICK v, k : v = argv' /\ k = nextKeep'
    OBVIOUS
  <2>10. Kept(argv, nextKeep, c)
    BY ArgumentFacts
  <2>11. Kept(v, k, c + 1)
    <3>1. CASE IsLeftOver(c)
      <4>1. v = [argv EXCEPT ![nextKeep] = argv[c]] /\ k = nextKeep + 1
        BY <1>5, <2>9, <3>1 DEF Keep, This
      <4> QED
        BY <1>1, <2>10, <3>1, <4>1, KeptLeft
    <3>2. CASE ~IsLeftOver(c)
      <4>1. v = argv /\ k = nextKeep
        BY <1>5, <2>9, <3>2 DEF KeepNothing
      <4> QED
        BY <1>1, <2>10, <3>2, <4>1, KeptOn
    <3> QED
      BY <3>1, <3>2
  <2>12. Kept(v, k, d)
    <3>1. d = c + 2 => Kept(v, k, (c + 1) + 1)
      <4> SUFFICES ASSUME d = c + 2
                   PROVE  Kept(v, k, (c + 1) + 1)
        OBVIOUS
      <4>1. c + 1 \in 1 .. LastPlace /\ ~IsLeftOver(c + 1)
        BY <1>1, <1>2, <2>3
      <4> QED
        BY <1>1, <2>11, <4>1, KeptOn
    <3>2. (c + 1) + 1 = c + 2
      BY <1>1, <1>2
    <3> QED
      BY <2>3, <2>11, <3>1, <3>2
  <2>13. ReadBefore(r, v, k, NoDefaults)
    BY <1>2, <2>3, <2>7, <2>8, <2>12 DEF ReadBefore, Agrees
  <2>14. \A o \in OptionSet : ~r.default[o]
    BY <2>7, ArgumentFacts
  <2>15. argc' = LastPlace + 1 /\ Ahead(r.current)
    BY <1>1, <2>3, <2>7
  <2> QED
    BY <1>1, <2>6, <2>7, <2>9, <2>13, <2>14, <2>15, ArgumentFacts, ToArguments
<1> QED
  BY <1>4, <1>5

-----------------------------------------------------------------------------
(* The actions                                                             *)

\* Every kind of option leads to an outcome.
LEMMA OptionOutcome ==
  ASSUME OptionsInv, Reading, NEW c, c = result.current, IsOption(c),
         NEW z, FlagsDone(z, result, Settings[c - 1], NoDefaults, c)
  PROVE  /\ Outcome(z, c, NoDefaults)
         /\ ~IsFaulty(c) => z.current = IF UsesUp(c) THEN c + 1 ELSE c
<1>1. Context /\ c \in 1 .. LastPlace /\ Unrefused(Settings[c - 1])
  BY ArgumentFacts
<1>2. IsFaulty(c) <=> ~AllFine(c)
  BY <1>1, OptionFaults
<1>3. ~IsFaulty(c) => Settings[c] = Settings[c - 1] \o Flagged(c)
  BY <1>1, OptionFaults
<1>4. UsesUp(c) <=> TakesNext(given[c])
  BY DEF UsesUp
<1> QED
  BY <1>2, <1>3, <1>4 DEF FlagsDone, Outcome

LEMMA ShortOptionsStep ==
  ASSUME OptionsInv, ShortOptions
  PROVE  OptionsInv'
<1>1. PICK c : c = result.current
  OBVIOUS
<1>2. Reading /\ SameProgram /\ argc' = argc /\ KeepNothing
  BY DEF ShortOptions, SameProgram, KeepNothing
<1>3. /\ Context /\ c \in 1 .. LastPlace /\ Reader(c) /\ Ahead(c) /\ result \in Results
      /\ Agrees(result, Settings[c - 1], NoDefaults) /\ This = given[c]
      /\ c - 1 \in 0 .. LastPlace
  BY <1>1, <1>2, ArgumentFacts
<1>4. IsShorts(given[c]) /\ ~IsTerminator(given[c]) /\ ~IsLong(given[c])
  BY <1>3 DEF ShortOptions, IsShorts, IsTerminator, IsLong
<1>5. IsOption(c) /\ ~IsFree(c)
  BY <1>3, <1>4, PlaceFacts DEF IsFlag
<1>6. PICK z : z = ParseLetters(result, given[c].name)
  OBVIOUS
<1>7. Settings[c - 1] \in Seq(Uses) /\ NoDefaults \in DefaultTexts
  BY <1>3, SettingsAre DEF NoDefaults, DefaultTexts
<1>8. FlagsDone(z, result, Settings[c - 1], NoDefaults, c)
  BY <1>1, <1>3, <1>4, <1>5, <1>6, <1>7, LettersDo
<1>9. Grows(z, result)
  <2>1. given[c].name \in Seq(Letters) /\ Machine
    BY <1>3, GivenText DEF Context, Reader
  <2> QED
    BY <1>3, <1>6, <2>1, LettersGrow
<1>10. Proceed(z)
  BY <1>3, <1>6 DEF ShortOptions
<1>11. ~IsLeftOver(c)
  BY <1>4, <1>5 DEF IsLeftOver
<1> QED
  BY <1>1, <1>2, <1>4, <1>5, <1>8, <1>9, <1>10, <1>11, OptionOutcome, ArgumentRead

LEMMA LongOptionStep ==
  ASSUME OptionsInv, LongOption
  PROVE  OptionsInv'
<1>1. PICK c : c = result.current
  OBVIOUS
<1>2. Reading /\ SameProgram /\ argc' = argc /\ KeepNothing
  BY DEF LongOption, SameProgram, KeepNothing
<1>3. /\ Context /\ c \in 1 .. LastPlace /\ Reader(c) /\ Ahead(c) /\ result \in Results
      /\ Agrees(result, Settings[c - 1], NoDefaults) /\ This = given[c]
      /\ c - 1 \in 0 .. LastPlace
  BY <1>1, <1>2, ArgumentFacts
<1>4. IsLong(given[c]) /\ Known(given[c].name) /\ ~IsTerminator(given[c])
  <2>1. IsLong(given[c]) /\ Known(given[c].name)
    BY <1>3 DEF LongOption
  <2>2. Len(<<>>) = 0
    OBVIOUS
  <2> QED
    BY <2>1, <2>2 DEF IsLong, IsTerminator
<1>5. IsOption(c) /\ ~IsFree(c)
  BY <1>3, <1>4, PlaceFacts DEF IsFlag
<1>6. PICK z : z = IF given[c].eq THEN ParseOption(result, names[given[c].name], Behind(given[c]))
                   ELSE CheckedParseArg(result, names[given[c].name])
  OBVIOUS
<1>7. Settings[c - 1] \in Seq(Uses) /\ NoDefaults \in DefaultTexts
  BY <1>3, SettingsAre DEF NoDefaults, DefaultTexts
<1>8. FlagsDone(z, result, Settings[c - 1], NoDefaults, c) /\ Grows(z, result)
  BY <1>1, <1>3, <1>4, <1>5, <1>6, <1>7, LongDoes
<1>9. Proceed(z)
  BY <1>3, <1>6 DEF LongOption
<1>10. ~IsLeftOver(c)
  BY <1>4, <1>5 DEF IsLeftOver
<1> QED
  BY <1>1, <1>2, <1>4, <1>5, <1>8, <1>9, <1>10, OptionOutcome, ArgumentRead

LEMMA UnknownLongOptionStep ==
  ASSUME OptionsInv, UnknownLongOption
  PROVE  OptionsInv'
<1>1. PICK c : c = result.current
  OBVIOUS
<1>2. Reading /\ SameProgram /\ argc' = argc
  BY DEF UnknownLongOption, SameProgram
<1>3. /\ Context /\ c \in 1 .. LastPlace /\ Ahead(c) /\ result \in Results
      /\ Agrees(result, Settings[c - 1], NoDefaults) /\ This = given[c]
      /\ c - 1 \in 0 .. LastPlace
  BY <1>1, <1>2, ArgumentFacts
<1>4. IsLong(given[c]) /\ ~Known(given[c].name) /\ ~IsTerminator(given[c])
  <2>1. IsLong(given[c]) /\ ~Known(given[c].name)
    BY <1>3 DEF UnknownLongOption
  <2>2. Len(<<>>) = 0
    OBVIOUS
  <2> QED
    BY <2>1, <2>2 DEF IsLong, IsTerminator
<1>5. IsOption(c)
  BY <1>3, <1>4, PlaceFacts DEF IsFlag
<1>6. PICK z : z = IF setup.unrecognised THEN result ELSE Throw(result, "option_not_exists")
  OBVIOUS
<1>7. Settings[c - 1] \in Seq(Uses)
  BY <1>3, SettingsAre
<1>8. FlagsDone(z, result, Settings[c - 1], NoDefaults, c) /\ Grows(z, result)
  BY <1>1, <1>3, <1>4, <1>5, <1>6, <1>7, UnknownDoes
<1>9. Proceed(z) /\ IF setup.unrecognised THEN Keep ELSE KeepNothing
  BY <1>6 DEF UnknownLongOption
<1>10. IsLeftOver(c)
  BY <1>4, <1>5 DEF IsLeftOver
<1>11. /\ Outcome(z, c, NoDefaults)
       /\ ~IsFaulty(c) => z.current = IF UsesUp(c) THEN c + 1 ELSE c
  BY <1>1, <1>2, <1>5, <1>8, OptionOutcome
<1>12. IsFaulty(c) <=> ~setup.unrecognised
  <2>1. given[c].name \in NamesIn(given[c])
    BY <1>4 DEF NamesIn, IsLong, IsShorts
  <2>2. ~setup.unrecognised => IsFaulty(c)
    BY <1>4, <1>5, <2>1 DEF IsFaulty, Unclear
  <2>3. setup.unrecognised => z.error = "none"
    BY <1>3, <1>6 DEF Agrees, Matches
  <2> QED
    BY <1>11, <2>2, <2>3 DEF Outcome
<1>13. IF ~IsFaulty(c) /\ IsLeftOver(c) THEN Keep ELSE KeepNothing
  BY <1>9, <1>10, <1>12
<1> QED
  BY <1>1, <1>2, <1>4, <1>8, <1>9, <1>11, <1>13, ArgumentRead

LEMMA FreeOutcome ==
  ASSUME Context, NEW c \in 1 .. LastPlace, IsFree(c), ~Unclear(c), Unrefused(Settings[c - 1]),
         NEW D, NEW z, FreeDone(z, Settings[c - 1], D, c)
  PROVE  /\ Outcome(z, c, D)
         /\ ~IsOption(c)
         /\ ~IsFaulty(c) => (IsLeftOver(c) <=> Open(Settings[c - 1]) = {})
<1>1. PICK s : s = Settings[c - 1]
  OBVIOUS
<1>2. /\ IsFaulty(c) <=> Misplaced(s, c)
      /\ Settings[c] = s \o Positional(s, c)
      /\ IsLeftOver(c) <=> Positional(s, c) = <<>>
  BY <1>1, FreeFaults
<1>3. Outcome(z, c, D)
  BY <1>1, <1>2 DEF FreeDone, Outcome
<1>4. ~IsOption(c)
  <2>1. PICK e \in Nat : e = End
    BY EndIs DEF Context, LastPlace
  <2> QED
    BY <2>1 DEF IsOption, IsFree
<1>5. ~Misplaced(s, c) => (Positional(s, c) = <<>> <=> Open(s) = {})
  <2> SUFFICES ASSUME ~Misplaced(s, c)
               PROVE  Positional(s, c) = <<>> <=> Open(s) = {}
    OBVIOUS
  <2>1. CASE Open(s) = {}
    BY <2>1 DEF Positional
  <2>2. CASE Open(s) # {}
    <3>1. Known(setup.positional[Min(Open(s))])
      BY <2>2 DEF Misplaced
    <3>2. \A use : <<use>> # <<>>
      OBVIOUS
    <3> QED
      BY <2>2, <3>1, <3>2 DEF Positional
  <2> QED
    BY <2>1, <2>2
<1> QED
  BY <1>1, <1>2, <1>3, <1>4, <1>5

LEMMA NoFlagStep ==
  ASSUME OptionsInv, NoFlag
  PROVE  OptionsInv'
<1>1. PICK c : c = result.current
  OBVIOUS
<1>2. Reading /\ SameProgram /\ argc' = argc
  BY DEF NoFlag, SameProgram
<1>3. /\ Context /\ c \in 1 .. LastPlace /\ Ahead(c) /\ result \in Results
      /\ Agrees(result, Settings[c - 1], NoDefaults) /\ This = given[c]
      /\ c - 1 \in 0 .. LastPlace /\ Unrefused(Settings[c - 1])
  BY <1>1, <1>2, ArgumentFacts
<1>4. ~IsTerminator(given[c]) /\ ~IsFlag(given[c])
  BY <1>3 DEF NoFlag
<1>5. IsFree(c) /\ ~IsOption(c) /\ c < End
  BY <1>3, <1>4, PlaceFacts
<1>6. Unclear(c) <=> IsWrong(given[c]) /\ ~setup.unrecognised
  BY <1>5 DEF Unclear
<1>7. ~UsesUp(c)
  BY <1>5 DEF UsesUp
<1>8. CASE Unclear(c)
  <2>1. PICK z : z = Throw(result, "option_syntax")
    OBVIOUS
  <2>2. Proceed(z) /\ KeepNothing
    BY <1>3, <1>6, <1>8, <2>1 DEF NoFlag
  <2>3. "option_syntax" \in SpecErrors \union ParseErrors
    BY DEF ParseErrors
  <2>4. Grows(z, result) /\ z.error # "none"
    BY <1>3, <2>1, <2>3, ThrowGrows
  <2>5. IsFaulty(c)
    BY <1>8 DEF IsFaulty
  <2>6. Outcome(z, c, NoDefaults)
    BY <2>4, <2>5 DEF Outcome
  <2> QED
    BY <1>1, <1>2, <1>4, <2>2, <2>4, <2>5, <2>6, ArgumentRead
<1>9. CASE ~Unclear(c)
  <2>1. PICK z : z = ConsumePositional(result, given[c])
    OBVIOUS
  <2>2. Proceed(z) /\ IF Consumed(result) THEN KeepNothing ELSE Keep
    BY <1>3, <1>6, <1>9, <2>1 DEF NoFlag
  <2>3. Settings[c - 1] \in Seq(Uses) /\ NoDefaults \in DefaultTexts
    BY <1>3, SettingsAre DEF NoDefaults, DefaultTexts
  <2>4. /\ FreeDone(z, Settings[c - 1], NoDefaults, c) /\ Grows(z, result)
        /\ z.current = c
        /\ Consumed(result) <=> Open(Settings[c - 1]) # {}
    BY <1>1, <1>3, <2>1, <2>3, PositionalDoes
  <2>5. /\ Outcome(z, c, NoDefaults)
        /\ ~IsFaulty(c) => (IsLeftOver(c) <=> Open(Settings[c - 1]) = {})
    BY <1>3, <1>5, <1>9, <2>4, FreeOutcome
  <2>6. IsFaulty(c) => Open(Settings[c - 1]) # {}
    BY <1>3, <1>5, <1>9, FreeFaults DEF Misplaced
  <2>7. IF ~IsFaulty(c) /\ IsLeftOver(c) THEN Keep ELSE KeepNothing
    BY <2>2, <2>4, <2>5, <2>6
  <2> QED
    BY <1>1, <1>2, <1>4, <1>7, <2>2, <2>4, <2>5, <2>7, ArgumentRead
<1> QED
  BY <1>8, <1>9

LEMMA TerminatorStep ==
  ASSUME OptionsInv, Terminator
  PROVE  OptionsInv'
<1>1. PICK c : c = result.current
  OBVIOUS
<1>2. Reading /\ SameProgram /\ argc' = argc
  BY DEF Terminator, SameProgram
<1>3. /\ Context /\ Sensible /\ c \in 1 .. LastPlace /\ Ahead(c) /\ result \in Results
      /\ Agrees(result, Settings[c - 1], NoDefaults) /\ This = given[c]
      /\ c - 1 \in 0 .. LastPlace /\ Unrefused(Settings[c - 1])
      /\ Kept(argv, nextKeep, c) /\ argc = LastPlace + 1
  BY <1>1, <1>2, ArgumentFacts
<1>4. IsTerminator(given[c])
  BY <1>3 DEF Terminator
<1>5. End = c /\ ~IsOption(c) /\ ~IsFree(c)
  BY <1>3, <1>4, PlaceFacts
<1>6. Settings[c] = Settings[c - 1] /\ ~IsFaulty(c) /\ ~IsLeftOver(c)
  BY <1>3, <1>5, NothingThere
<1>7. PICK d \in Nat \ {0} : d = c + 1 /\ d - 1 = c /\ d \in 1 .. LastPlace + 1 /\ c < d
  BY <1>3 DEF Context, LastPlace
<1>8. PICK r : r = [result EXCEPT !.current = d]
  OBVIOUS
<1>9. result' = r
  BY <1>1, <1>3, <1>7, <1>8 DEF Terminator, Results
<1>10. r \in Results /\ r.current = d /\ r.defined = result.defined /\ r.default = result.default
  BY <1>3, <1>8, MovedTo
<1>11. Agrees(r, Settings[d - 1], NoDefaults)
  BY <1>3, <1>6, <1>7, <1>8, MovedAgrees
<1>12. Kept(argv, nextKeep, d)
  BY <1>3, <1>6, <1>7, KeptOn
<1>13. \A p \in 1 .. d - 1 : ~IsFaulty(p)
  <2>1. \A p \in 1 .. c - 1 : ~IsFaulty(p)
    BY <1>1, <1>2, ArgumentFacts
  <2>2. \A p \in 1 .. d - 1 : p \in 1 .. c - 1 \/ p = c
    BY <1>3, <1>7
  <2> QED
    BY <1>6, <2>1, <2>2
<1>14. PICK v, k : v = argv' /\ k = nextKeep' /\ v = argv /\ k = nextKeep
  BY DEF Terminator
<1>15. ReadBefore(r, v, k, NoDefaults)
  BY <1>7, <1>10, <1>11, <1>12, <1>13, <1>14 DEF ReadBefore, Agrees
<1>16. \A o \in OptionSet : ~r.default[o]
  BY <1>2, <1>10, ArgumentFacts
<1>17. End < r.current /\ Settings[r.current - 1] = Settings[End - 1]
  BY <1>5, <1>6, <1>7, <1>10
<1>18. pc' = "defaults" /\ argc' = LastPlace + 1
  BY <1>2, <1>3 DEF Terminator
<1> QED
  BY <1>2, <1>3, <1>9, <1>10, <1>14, <1>15, <1>16, <1>17, <1>18, ToDefaults

LEMMA EndOfArgumentsStep ==
  ASSUME OptionsInv, EndOfArguments
  PROVE  OptionsInv'
<1>1. SameProgram /\ pc = "arguments" /\ pc' = "defaults" /\ result.current = argc
      /\ result' = result /\ argv' = argv /\ nextKeep' = nextKeep /\ argc' = argc
  BY DEF EndOfArguments, SameProgram
<1>2. Sensible /\ InArguments /\ result \in Results /\ given \in Seq(Texts)
  BY <1>1 DEF OptionsInv, Sensible
<1>3. PICK n \in Nat : n = LastPlace
  BY <1>2 DEF LastPlace
<1>4. PICK r, v, k : r = result /\ v = argv /\ k = nextKeep
  OBVIOUS
<1>5. ReadBefore(r, v, k, NoDefaults) /\ argc = n + 1 /\ Ahead(r.current) /\ NoneDefault
  BY <1>2, <1>3, <1>4 DEF InArguments
<1>6. r.current = LastPlace + 1 /\ End = LastPlace + 1
  <2>1. r.current = n + 1
    BY <1>1, <1>4, <1>5
  <2>2. End \in 1 .. n + 1 /\ End >= n + 1
    BY <1>2, <1>3, <1>5, <2>1, EndIs DEF Ahead
  <2> QED
    BY <1>3, <2>1, <2>2
<1>7. \A o \in OptionSet : ~r.default[o]
  BY <1>4, <1>5 DEF NoneDefault
<1>8. Settings[r.current - 1] = Settings[End - 1]
  BY <1>6
<1>9. r = result' /\ v = argv' /\ k = nextKeep' /\ argc' = LastPlace + 1
  BY <1>1, <1>3, <1>4, <1>5
<1> QED
  BY <1>1, <1>2, <1>4, <1>5, <1>6, <1>7, <1>8, <1>9, ToDefaults

-----------------------------------------------------------------------------
(* The defaults                                                            *)

\* One option has got its default.
HasGot(q, r, o) ==
    /\ q \in Results
    /\ q.default = [r.default EXCEPT ![o] = TRUE]
    /\ q.value = [r.value EXCEPT ![o] = Stored(o, r.value[o], Head(Detail(o).default))]
    /\ q.defined = r.defined /\ q.current = r.current /\ q.next = r.next
    /\ q.sequential = r.sequential /\ q.error = r.error /\ q.count = r.count

LEMMA DefaultText ==
  ASSUME Context, NEW o \in OptionSet, HasDefault(o)
  PROVE  Head(Detail(o).default) \in Texts /\ Detail(o).default = <<Head(Detail(o).default)>>
<1>1. Detail(o) \in OptionDetails
  BY Shapes DEF Context
<1> QED
  BY <1>1, OneText DEF HasDefault

\* An option that does not take its default.
Unfit(o) == Refuses(o, Head(Detail(o).default))

LEMMA DefaultThrows ==
  ASSUME NEW r \in Results, NEW o \in OptionSet, Unfit(o), NEW q, q = WithDefault(r, o)
  PROVE  /\ q \in Results /\ q.error # "none"
         /\ q.defined = r.defined /\ q.current = r.current /\ q.value = r.value
<1>1. PICK d : d = [r EXCEPT !.default[o] = TRUE]
  OBVIOUS
<1>2. d \in Results /\ d.defined = r.defined /\ d.current = r.current /\ d.value = r.value
  BY <1>1 DEF Results
<1>3. q = Throw(d, "argument_incorrect_type")
  BY <1>1 DEF WithDefault, Unfit
<1>4. "argument_incorrect_type" \in SpecErrors \union ParseErrors
  BY DEF ParseErrors
<1>5. q \in Results /\ q.error # "none" /\ q = [d EXCEPT !.error = "argument_incorrect_type"]
  BY <1>2, <1>3, <1>4, ThrowType
<1>6. q.defined = d.defined /\ q.current = d.current /\ q.value = d.value
  BY <1>2, <1>5 DEF Results
<1> QED
  BY <1>2, <1>5, <1>6

LEMMA DefaultDoes ==
  ASSUME Context, NEW r \in Results, NEW o \in OptionSet, HasDefault(o), ~Unfit(o)
  PROVE  HasGot(WithDefault(r, o), r, o)
<1>1. PICK h \in Texts : h = Head(Detail(o).default)
  BY DefaultText
<1>2. r.value \in [OptionSet -> Seq(Texts)] /\ r.default \in [OptionSet -> BOOLEAN]
  BY DEF Results
<1>3. PICK v \in Seq(Texts) : v = Stored(o, r.value[o], h)
  BY <1>1, <1>2, StoredType
<1>4. PICK values : values = [r.value EXCEPT ![o] = v] /\ values \in [OptionSet -> Seq(Texts)]
  <2>1. [r.value EXCEPT ![o] = v] \in [OptionSet -> Seq(Texts)]
    BY <1>2
  <2> QED
    BY <2>1
<1>5. PICK defaults : defaults = [r.default EXCEPT ![o] = TRUE]
                      /\ defaults \in [OptionSet -> BOOLEAN]
  <2>1. [r.default EXCEPT ![o] = TRUE] \in [OptionSet -> BOOLEAN]
    BY <1>2
  <2> QED
    BY <2>1
<1>6. WithDefault(r, o) = [r EXCEPT !.default = defaults, !.value = values]
  <2>1. PICK d : d = [r EXCEPT !.default[o] = TRUE]
    OBVIOUS
  <2>2. d = [r EXCEPT !.default = defaults] /\ d.value = r.value
    BY <1>5, <2>1 DEF Results
  <2>3. WithDefault(r, o) = [d EXCEPT !.value[o] = Stored(o, @, h)]
    BY <1>1, <2>1 DEF WithDefault, Unfit
  <2>4. [d EXCEPT !.value[o] = Stored(o, @, h)] = [d EXCEPT !.value = values]
    BY <1>3, <1>4, <2>2 DEF Results
  <2> QED
    BY <2>2, <2>3, <2>4 DEF Results
<1>7. PICK q : q = WithDefault(r, o)
  OBVIOUS
<1>8. /\ q \in Results
      /\ q.default = defaults /\ q.value = values
      /\ q.defined = r.defined /\ q.current = r.current /\ q.next = r.next
      /\ q.sequential = r.sequential /\ q.error = r.error /\ q.count = r.count
  BY <1>4, <1>5, <1>6, <1>7 DEF Results
<1> QED
  BY <1>1, <1>3, <1>4, <1>5, <1>7, <1>8 DEF HasGot

\* The options 1 .. m that want their default have it, and nothing else is new.
Filled(q, r, m) ==
    /\ q \in Results
    /\ q.defined = r.defined /\ q.current = r.current /\ q.next = r.next
    /\ q.sequential = r.sequential /\ q.error = r.error /\ q.count = r.count
    /\ \A o \in OptionSet :
          /\ q.default[o] <=> o <= m /\ WantsDefault(r, o)
          /\ q.value[o] = IF o <= m /\ WantsDefault(r, o)
                          THEN Stored(o, <<>>, Head(Detail(o).default)) ELSE r.value[o]

\* Before the defaults an option has a value only if it was used.
Unset(r) ==
    \A o \in OptionSet : ~r.default[o] /\ (r.count[o] = 0 => r.value[o] = <<>>)

LEMMA FillOne ==
  ASSUME Context, NEW r \in Results, Unset(r), NEW m \in Nat, NEW q, Filled(q, r, m),
         NEW o \in OptionSet, o = m \/ o = m + 1, WantsDefault(r, o) => ~Unfit(o),
         NEW z, z = IF WantsDefault(q, o) THEN WithDefault(q, o) ELSE q
  PROVE  Filled(z, r, o)
<1>1. q \in Results /\ q.count = r.count
  BY DEF Filled
<1>2. OptionSet = 1 .. Len(setup.options) /\ Len(setup.options) \in Nat
  BY Shapes DEF Context
<1>3. \A p \in OptionSet : ~r.default[p]
  BY DEF Unset
<1>4. CASE o = m
  <2>1. ~WantsDefault(q, o)
    <3>1. q.default[o] <=> WantsDefault(r, o)
      BY <1>2, <1>4 DEF Filled
    <3> QED
      BY <1>1, <1>3, <3>1 DEF WantsDefault
  <2> QED
    BY <1>4, <2>1
<1>5. CASE o = m + 1
  <2>1. ~q.default[o] /\ q.value[o] = r.value[o]
    BY <1>2, <1>5 DEF Filled
  <2>2. WantsDefault(q, o) <=> WantsDefault(r, o)
    BY <1>1, <1>3, <2>1 DEF WantsDefault
  <2>3. \A p \in OptionSet : p <= o <=> p <= m \/ p = o
    BY <1>2, <1>5
  <2>4. CASE ~WantsDefault(r, o)
    <3>1. z = q
      BY <2>2, <2>4
    <3>2. \A p \in OptionSet : p <= o /\ WantsDefault(r, p) <=> p <= m /\ WantsDefault(r, p)
      BY <2>3, <2>4
    <3> QED
      BY <3>1, <3>2 DEF Filled
  <2>5. CASE WantsDefault(r, o)
    <3>1. z = WithDefault(q, o) /\ HasDefault(o) /\ ~Unfit(o) /\ r.value[o] = <<>>
      BY <2>2, <2>5 DEF WantsDefault, Unset
    <3>2. HasGot(z, q, o)
      BY <1>1, <3>1, DefaultDoes
    <3>3. /\ z.default = [q.default EXCEPT ![o] = TRUE]
          /\ z.value = [q.value EXCEPT ![o] = Stored(o, q.value[o], Head(Detail(o).default))]
      BY <3>2 DEF HasGot
    <3>4. /\ z \in Results
          /\ z.defined = q.defined /\ z.current = q.current /\ z.next = q.next
          /\ z.sequential = q.sequential /\ z.error = q.error /\ z.count = q.count
      BY <3>2 DEF HasGot
    <3>5. q.default \in [OptionSet -> BOOLEAN] /\ q.value \in [OptionSet -> Seq(Texts)]
      BY <1>1 DEF Results
    <3>6. ASSUME NEW p \in OptionSet
          PROVE  /\ z.default[p] <=> p <= o /\ WantsDefault(r, p)
                 /\ z.value[p] = IF p <= o /\ WantsDefault(r, p)
                                 THEN Stored(p, <<>>, Head(Detail(p).default)) ELSE r.value[p]
      <4>1. CASE p = o
        <5>1. z.default[p] /\ p <= o
          BY <2>3, <3>3, <3>5, <4>1
        <5>2. z.value[p] = Stored(o, <<>>, Head(Detail(o).default))
          BY <2>1, <3>1, <3>3, <3>5, <4>1
        <5> QED
          BY <2>5, <4>1, <5>1, <5>2
      <4>2. CASE p # o
        <5>1. z.default[p] = q.default[p] /\ z.value[p] = q.value[p]
          BY <3>3, <3>5, <4>2
        <5>2. p <= o <=> p <= m
          BY <2>3, <4>2
        <5> QED
          BY <5>1, <5>2 DEF Filled
      <4> QED
        BY <4>1, <4>2
    <3> QED
      BY <3>4, <3>6 DEF Filled
  <2> QED
    BY <2>4, <2>5
<1> QED
  BY <1>4, <1>5

\* One of the options 1 .. m wants its default and does not take it.
Spoilt(r, m) == \E o \in OptionSet : o <= m /\ WantsDefault(r, o) /\ Unfit(o)

FilledOrFailed(q, r, m) ==
    IF Spoilt(r, m)
    THEN /\ q \in Results /\ q.error # "none"
         /\ q.defined = r.defined /\ q.current = r.current /\ Lengths(q)
    ELSE Filled(q, r, m)

LEMMA LengthsFilled ==
  ASSUME Context, NEW r \in Results, NEW m, NEW q, Filled(q, r, m), Lengths(r)
  PROVE  Lengths(q)
<1> SUFFICES ASSUME NEW o \in OptionSet, ~IsContainer(o)
             PROVE  Len(q.value[o]) <= 1
  BY DEF Lengths
<1>1. CASE q.value[o] = r.value[o]
  BY <1>1 DEF Lengths
<1>2. CASE q.value[o] # r.value[o]
  <2>1. HasDefault(o) /\ q.value[o] = Stored(o, <<>>, Head(Detail(o).default))
    BY <1>2 DEF Filled, WantsDefault
  <2>2. PICK h \in Texts : h = Head(Detail(o).default)
    BY <2>1, DefaultText
  <2>3. <<>> \in Seq(Texts)
    OBVIOUS
  <2>4. Len(Stored(o, <<>>, h)) = 1
    BY <2>2, <2>3, StoredType
  <2>5. q.value[o] = Stored(o, <<>>, h)
    BY <2>1, <2>2
  <2>6. \A x : Len(x) = 1 => Len(x) <= 1
    OBVIOUS
  <2> QED
    BY <2>4, <2>5, <2>6
<1> QED
  BY <1>1, <1>2

LEMMA FillNext ==
  ASSUME Context, NEW r \in Results, Unset(r), r.error = "none", Lengths(r),
         NEW m \in Nat, NEW q, FilledOrFailed(q, r, m),
         NEW o \in OptionSet, o = m \/ o = m + 1,
         NEW z, z = IF q.error = "none" /\ WantsDefault(q, o) THEN WithDefault(q, o) ELSE q
  PROVE  FilledOrFailed(z, r, o)
<1>1. OptionSet = 1 .. Len(setup.options) /\ Len(setup.options) \in Nat
  BY Shapes DEF Context
<1>2. \A p \in OptionSet : p <= o <=> p <= m \/ p = o
  BY <1>1
<1>3. CASE Spoilt(r, m)
  <2>1. Spoilt(r, o)
    BY <1>2, <1>3 DEF Spoilt
  <2> QED
    BY <1>3, <2>1 DEF FilledOrFailed
<1>4. CASE ~Spoilt(r, m)
  <2>1. Filled(q, r, m) /\ q.error = "none" /\ q \in Results
    BY <1>4 DEF FilledOrFailed, Filled
  <2>2. z = IF WantsDefault(q, o) THEN WithDefault(q, o) ELSE q
    BY <2>1
  <2>3. CASE WantsDefault(r, o) => ~Unfit(o)
    <3>1. ~Spoilt(r, o)
      BY <1>2, <1>4, <2>3 DEF Spoilt
    <3>2. Filled(z, r, o)
      BY <2>1, <2>2, <2>3, FillOne
    <3> QED
      BY <3>1, <3>2 DEF FilledOrFailed
  <2>4. CASE WantsDefault(r, o) /\ Unfit(o)
    <3>1. Spoilt(r, o)
      BY <1>2, <2>4 DEF Spoilt
    <3>2. o = m + 1
      <4>1. ~(o <= m)
        BY <1>4, <2>4 DEF Spoilt
      <4> QED
        BY <1>1, <4>1
    <3>3. ~q.default[o] /\ q.count = r.count
      <4>1. ~(o <= m)
        BY <1>1, <3>2
      <4> QED
        BY <2>1, <4>1 DEF Filled
    <3>4. WantsDefault(q, o)
      BY <2>4, <3>3 DEF WantsDefault
    <3>5. z = WithDefault(q, o)
      BY <2>2, <3>4
    <3>6. /\ z \in Results /\ z.error # "none"
          /\ z.defined = q.defined /\ z.current = q.current /\ z.value = q.value
      BY <2>1, <2>4, <3>5, DefaultThrows
    <3>7. q.defined = r.defined /\ q.current = r.current /\ Lengths(q)
      BY <2>1, LengthsFilled DEF Filled
    <3>8. Lengths(z)
      BY <3>6, <3>7 DEF Lengths
    <3> QED
      BY <3>1, <3>6, <3>7, <3>8 DEF FilledOrFailed
  <2> QED
    BY <2>3, <2>4
<1> QED
  BY <1>3, <1>4

LEMMA DefaultsFill ==
  ASSUME Context, NEW r \in Results, Unset(r), r.error = "none", Lengths(r)
  PROVE  FilledOrFailed(WithDefaults(r), r, Len(setup.options))
<1>1. PICK N \in Nat : N = Len(setup.options) /\ OptionSet = 1 .. N
  BY Shapes DEF Context
<1>2. PICK n \in Nat : n = 2 * N
  BY <1>1
<1> DEFINE At(i) == (i + 1) \div 2
           Fill(q, i) == IF q.error = "none" /\ WantsDefault(q, At(i))
                         THEN WithDefault(q, At(i)) ELSE q
           NextN(f, i) == LET o == (i + 1) \div 2 IN
                          IF i = 0 THEN r
                          ELSE IF f[i - 1].error = "none" /\ WantsDefault(f[i - 1], o)
                               THEN WithDefault(f[i - 1], o)
                          ELSE f[i - 1]
           IsN(f) == f = [i \in 0 .. n |-> NextN(f, i)]
           G == [id \in (1 .. n) \X Results |-> Fill(id[2], id[1])]
           F == CHOOSE f : IsN(f)
<1>3. WithDefaults(r) = F[n]
  BY <1>1, <1>2 DEF WithDefaults
<1>4. \A i \in 1 .. n : At(i) \in OptionSet /\ (At(i) = At(i - 1) \/ At(i) = At(i - 1) + 1)
                        /\ At(i - 1) \in Nat
  BY <1>1, <1>2
<1>5. /\ G \in [(1 .. n) \X Results -> Results]
      /\ \A i \in 1 .. n, d \in Results : G[<<i, d>>] = Fill(d, i)
  <2>1. \A i \in 1 .. n, d \in Results : Fill(d, i) \in Results
    <3> SUFFICES ASSUME NEW i \in 1 .. n, NEW d \in Results
                 PROVE  Fill(d, i) \in Results
      OBVIOUS
    <3>1. PICK o \in OptionSet : o = At(i)
      BY <1>4
    <3>2. WantsDefault(d, o) => WithDefault(d, o) \in Results
      BY DefaultDoes, DefaultThrows DEF WantsDefault, HasGot
    <3> QED
      BY <3>1, <3>2
  <2> HIDE DEF Fill
  <2> QED
    BY <2>1
<1> HIDE DEF G
<1>6. PICK f \in [0 .. n -> Results] : f[0] = r /\ \A i \in 1 .. n : f[i] = G[<<i, f[i - 1]>>]
  <2>1. DefinedUpTo(n, Results, r, G)
    BY <1>5, StepByStep
  <2> QED
    BY <2>1 DEF DefinedUpTo
<1>7. IsN(f)
  <2> SUFFICES ASSUME NEW i \in 0 .. n
               PROVE  f[i] = NextN(f, i)
    BY <1>6
  <2>1. CASE i = 0
    BY <1>6, <2>1
  <2>2. CASE i # 0
    <3>1. i \in 1 .. n /\ i - 1 \in 0 .. n
      BY <2>2
    <3>2. f[i - 1] \in Results
      BY <3>1
    <3>3. f[i] = Fill(f[i - 1], i)
      BY <1>5, <1>6, <3>1, <3>2
    <3> QED
      BY <2>2, <3>3
  <2> QED
    BY <2>1, <2>2
<1>8. IsN(F)
  BY <1>7
<1> HIDE DEF F
<1>9. \A i \in 0 .. n : F[i] = NextN(F, i)
  <2> HIDE DEF NextN
  <2> QED
    BY <1>8
<1>10. F[0] = r
  BY <1>9
<1>11. \A i \in 1 .. n : F[i] = Fill(F[i - 1], i)
  BY <1>9
<1> DEFINE T == {i \in 0 .. n : FilledOrFailed(F[i], r, At(i))}
<1>12. 0 \in T
  <2>1. At(0) = 0
    OBVIOUS
  <2>2. \A o \in OptionSet : ~(o <= 0) /\ ~r.default[o]
    BY <1>1 DEF Unset
  <2>3. FilledOrFailed(r, r, 0)
    BY <2>2 DEF Filled, FilledOrFailed, Spoilt
  <2> QED
    BY <1>10, <2>1, <2>3
<1>13. ASSUME NEW i \in 1 .. n, i - 1 \in T
       PROVE  i \in T
  <2>1. FilledOrFailed(F[i - 1], r, At(i - 1))
    BY <1>13
  <2>2. PICK m \in Nat, o \in OptionSet : m = At(i - 1) /\ o = At(i) /\ (o = m \/ o = m + 1)
    <3>1. At(i - 1) \in Nat
      BY <1>4
    <3>2. At(i) \in OptionSet /\ (At(i) = At(i - 1) \/ At(i) = At(i - 1) + 1)
      BY <1>4
    <3> QED
      BY <3>1, <3>2
  <2>3. PICK q, z : q = F[i - 1] /\ z = F[i]
    OBVIOUS
  <2>4. z = IF q.error = "none" /\ WantsDefault(q, o) THEN WithDefault(q, o) ELSE q
    BY <1>11, <2>2, <2>3
  <2>5. FilledOrFailed(z, r, o)
    BY <2>1, <2>2, <2>3, <2>4, FillNext
  <2> QED
    BY <2>2, <2>3, <2>5
<1>14. n \in T
  <2> HIDE DEF T
  <2>1. n \in Nat /\ n \in 0 .. n
    OBVIOUS
  <2>2. \A i \in 0 .. n : i \in T
    BY <1>12, <1>13, <2>1, CountUp
  <2> QED
    BY <2>1, <2>2
<1>15. At(n) = N
  BY <1>2
<1> QED
  BY <1>1, <1>3, <1>14, <1>15

LEMMA DefaultsType == Context => NoDefaults \in DefaultTexts /\ AllDefaults \in DefaultTexts
<1> SUFFICES ASSUME Context
             PROVE  NoDefaults \in DefaultTexts /\ AllDefaults \in DefaultTexts
  OBVIOUS
<1>1. ASSUME NEW o \in OptionSet
      PROVE  DefaultOf(o) \in Seq(Texts)
  <2>1. Detail(o) \in OptionDetails
    BY Shapes DEF Context
  <2>2. Detail(o).default \in Seq(Texts)
    BY <2>1, OneText
  <2> QED
    BY <2>2 DEF DefaultOf
<1> QED
  BY <1>1 DEF NoDefaults, AllDefaults, DefaultTexts

LEMMA UnsetBefore ==
  ASSUME Context, NEW r, NEW s \in Seq(Uses), Agrees(r, s, NoDefaults),
         \A o \in OptionSet : ~r.default[o]
  PROVE  /\ Unset(r)
         /\ \A o \in OptionSet : r.count[o] = 0 <=> TextsOf(o, s) = <<>>
<1>1. ASSUME NEW o \in OptionSet
      PROVE  /\ r.count[o] = 0 <=> TextsOf(o, s) = <<>>
             /\ r.count[o] = 0 => r.value[o] = <<>>
  <2>1. PICK t \in Seq(Texts) : t = TextsOf(o, s)
    BY TextsType
  <2>2. r.count[o] = Len(t)
    BY <2>1 DEF Agrees, Matches
  <2>3. Len(t) = 0 <=> t = <<>>
    BY EmptySeq
  <2>4. r.value[o] = ValueFrom(o, NoDefaults[o] \o t)
    BY <2>1 DEF Agrees, Values
  <2>5. NoDefaults[o] = <<>> /\ <<>> \o <<>> = <<>>
    BY DEF NoDefaults
  <2>6. t = <<>> => r.value[o] = <<>>
    BY <2>4, <2>5, WordsOfNone DEF ValueFrom
  <2> QED
    BY <2>1, <2>2, <2>3, <2>6
<1> QED
  BY <1>1 DEF Unset

LEMMA FilledAgrees ==
  ASSUME Context, NEW r, NEW s \in Seq(Uses), Agrees(r, s, NoDefaults),
         \A o \in OptionSet : ~r.default[o], s = Settings[End - 1],
         NEW q, Filled(q, r, Len(setup.options))
  PROVE  Agrees(q, s, AllDefaults)
<1>1. Unset(r) /\ \A o \in OptionSet : r.count[o] = 0 <=> TextsOf(o, s) = <<>>
  BY UnsetBefore
<1>2. q \in Results /\ Matches(q, s)
  BY DEF Filled, Agrees, Matches
<1>3. ASSUME NEW o \in OptionSet
      PROVE  q.value[o] = ValueFrom(o, AllDefaults[o] \o TextsOf(o, s))
  <2>1. PICK t \in Seq(Texts) : t = TextsOf(o, s)
    BY TextsType
  <2>2. o <= Len(setup.options)
    BY Shapes DEF Context
  <2>3. q.value[o] = IF WantsDefault(r, o) THEN Stored(o, <<>>, Head(Detail(o).default))
                     ELSE r.value[o]
    BY <2>2 DEF Filled
  <2>4. AllDefaults[o] = IF t = <<>> THEN Detail(o).default ELSE <<>>
    BY <2>1 DEF AllDefaults, DefaultOf
  <2>5. WantsDefault(r, o) <=> HasDefault(o) /\ t = <<>>
    BY <1>1, <2>1 DEF WantsDefault
  <2>6. CASE WantsDefault(r, o)
    <3>1. PICK h \in Texts : h = Head(Detail(o).default) /\ Detail(o).default = <<h>>
      BY <2>5, <2>6, DefaultText
    <3>2. AllDefaults[o] \o t = <<h>>
      BY <2>4, <2>5, <2>6, <3>1
    <3>3. <<h>> # <<>> /\ Last(<<h>>) = h
      BY DEF Last
    <3>4. IsContainer(o) => Stored(o, <<>>, h) = AllWords(<<h>>)
      <4>1. <<>> \in Seq(Texts)
        OBVIOUS
      <4>2. PICK w \in Seq(Texts) : w = Words(h)
        BY WordsType
      <4>3. <<>> \o w = w
        OBVIOUS
      <4> QED
        BY <4>1, <4>2, <4>3, StoredType, WordsOfOne
    <3>5. q.value[o] = ValueFrom(o, <<h>>)
      BY <2>3, <2>6, <3>1, <3>3, <3>4 DEF ValueFrom
    <3> QED
      BY <2>1, <3>2, <3>5
  <2>7. CASE ~WantsDefault(r, o)
    <3>1. AllDefaults[o] = <<>> /\ NoDefaults[o] = <<>>
      BY <2>4, <2>5, <2>7 DEF HasDefault, NoDefaults
    <3>2. r.value[o] = ValueFrom(o, NoDefaults[o] \o t)
      BY <2>1 DEF Agrees, Values
    <3> QED
      BY <2>1, <2>3, <2>7, <3>1, <3>2
  <2> QED
    BY <2>6, <2>7
<1> QED
  BY <1>2, <1>3 DEF Agrees, Values

LEMMA DefaultsStep ==
  ASSUME OptionsInv, Defaults
  PROVE  OptionsInv'
<1>1. SameProgram /\ pc = "defaults" /\ result' = WithDefaults(result)
      /\ pc' = (IF WithDefaults(result).error = "none" THEN "rest" ELSE "thrown")
      /\ argv' = argv /\ nextKeep' = nextKeep /\ argc' = argc
  BY DEF Defaults, SameProgram
<1>2. Context /\ Sensible /\ InDefaults /\ result \in Results
  BY <1>1 DEF OptionsInv, Sensible, Context, Defined
<1>3. PICK r, v, k, q : r = result /\ v = argv /\ k = nextKeep /\ q = WithDefaults(r)
  OBVIOUS
<1>4. PICK c \in Nat, n \in Nat : c = r.current /\ n = LastPlace
  <2>1. r.current \in Nat
    BY <1>2, <1>3 DEF Results
  <2>2. LastPlace \in Nat
    BY <1>2 DEF Context, LastPlace
  <2> QED
    BY <2>1, <2>2
<1>5. /\ ReadBefore(r, v, k, NoDefaults) /\ argc = n + 1 /\ \A o \in OptionSet : ~r.default[o]
      /\ c = n + 1 \/ End < c
      /\ Settings[c - 1] = Settings[End - 1]
  BY <1>2, <1>3, <1>4 DEF InDefaults, NoneDefault
<1>6. c \in 1 .. n + 1 /\ c - 1 \in 0 .. n
  BY <1>4, <1>5 DEF ReadBefore
<1>7. PICK s \in Seq(Uses) : s = Settings[c - 1]
  BY <1>2, <1>4, <1>6, SettingsAre
<1>8. Agrees(r, s, NoDefaults)
  BY <1>2, <1>3, <1>4, <1>5, <1>7 DEF ReadBefore, Agrees
<1>9. Unset(r) /\ \A o \in OptionSet : r.count[o] = 0 <=> TextsOf(o, Settings[End - 1]) = <<>>
  BY <1>2, <1>3, <1>5, <1>7, <1>8, UnsetBefore
<1>10. InBounds(r, v, k, argc) /\ k <= r.current
  BY <1>2, <1>3, <1>4, <1>5, ReadArguments
<1>11. PICK N \in Nat : N = Len(setup.options) /\ OptionSet = 1 .. N
  BY <1>2, Shapes DEF Context
<1>12. FilledOrFailed(q, r, N)
  BY <1>2, <1>3, <1>8, <1>9, <1>10, <1>11, DefaultsFill DEF Agrees, Matches, InBounds
<1>13. \A o \in OptionSet :
          /\ o <= N
          /\ WantsDefault(r, o) => DefaultOf(o) = Detail(o).default
          /\ DefaultOf(o) # <<>> => WantsDefault(r, o) /\ DefaultOf(o) = Detail(o).default
  <2> SUFFICES ASSUME NEW o \in OptionSet
               PROVE  /\ o <= N
                      /\ WantsDefault(r, o) => DefaultOf(o) = Detail(o).default
                      /\ DefaultOf(o) # <<>> =>
                            WantsDefault(r, o) /\ DefaultOf(o) = Detail(o).default
    OBVIOUS
  <2>1. o <= N
    BY <1>11
  <2>2. WantsDefault(r, o) <=> HasDefault(o) /\ TextsOf(o, Settings[End - 1]) = <<>>
    BY <1>5, <1>9 DEF WantsDefault
  <2> QED
    BY <2>1, <2>2 DEF DefaultOf, HasDefault
<1>14. q = result' /\ v = argv' /\ k = nextKeep' /\ argc' = LastPlace + 1
  BY <1>1, <1>3, <1>4, <1>5
<1>15. CASE Spoilt(r, N)
  <2>1. /\ q \in Results /\ q.error # "none"
        /\ q.defined = r.defined /\ q.current = r.current /\ Lengths(q)
    BY <1>12, <1>15 DEF FilledOrFailed
  <2>2. pc' = "thrown"
    BY <1>1, <1>3, <2>1
  <2>3. PICK o \in OptionSet : WantsDefault(r, o) /\ Unfit(o)
    BY <1>15 DEF Spoilt
  <2>4. HasWrongDefault(o)
    BY <1>13, <2>3 DEF HasWrongDefault, Unfit, WantsDefault, HasDefault
  <2>5. IsMistaken
    BY <2>4 DEF IsMistaken
  <2>6. PICK a : a = argc
    OBVIOUS
  <2>7. InBounds(q, v, k, a) /\ k <= q.current
    BY <1>10, <2>1, <2>6 DEF InBounds
  <2> QED
    BY <1>1, <1>2, <1>3, <1>14, <2>1, <2>2, <2>5, <2>6, <2>7, ToFailed
<1>16. CASE ~Spoilt(r, N)
  <2>1. Filled(q, r, Len(setup.options))
    BY <1>11, <1>12, <1>16 DEF FilledOrFailed
  <2>2. Agrees(q, s, AllDefaults)
    BY <1>2, <1>5, <1>7, <1>8, <2>1, FilledAgrees
  <2>3. q \in Results /\ q.current = c /\ q.defined = result.defined
    BY <1>3, <1>4, <2>1 DEF Filled
  <2>4. ReadBefore(q, v, k, AllDefaults)
    BY <1>4, <1>5, <1>7, <2>2, <2>3 DEF ReadBefore, Agrees
  <2>5. q.current = LastPlace + 1 \/ End < q.current
    BY <1>4, <1>5, <2>3
  <2>6. pc' = "rest"
    BY <1>1, <1>3, <2>2 DEF Agrees, Matches
  <2>7. DefaultsFit
    <3> SUFFICES ASSUME NEW o \in OptionSet, HasWrongDefault(o)
                 PROVE  FALSE
      BY DEF DefaultsFit
    <3>1. o <= N /\ WantsDefault(r, o) /\ Unfit(o)
      BY <1>13 DEF HasWrongDefault, Unfit
    <3> QED
      BY <1>16, <3>1 DEF Spoilt
  <2> QED
    BY <1>1, <1>2, <1>14, <2>3, <2>4, <2>5, <2>6, <2>7, ToRest
<1> QED
  BY <1>15, <1>16

-----------------------------------------------------------------------------
(* What follows the options                                                *)

LEMMA RestFacts ==
  ASSUME OptionsInv, pc = "rest"
  PROVE  /\ Context /\ Sensible
         /\ result.current \in 1 .. LastPlace + 1 /\ LastPlace \in Nat
         /\ result \in Results /\ argc = LastPlace + 1
         /\ result.current = LastPlace + 1 \/ End < result.current
         /\ Agrees(result, Settings[result.current - 1], AllDefaults)
         /\ Settings[result.current - 1] \in Seq(Uses)
         /\ Unrefused(Settings[result.current - 1])
         /\ Kept(argv, nextKeep, result.current)
         /\ \A p \in 1 .. result.current - 1 : ~IsFaulty(p)
<1>1. Context /\ Sensible /\ InRest /\ result \in Results
  BY DEF OptionsInv, Sensible, Context, Defined
<1>2. PICK c \in Nat, n \in Nat : c = result.current /\ n = LastPlace
  <2>1. result.current \in Nat
    BY <1>1 DEF Results
  <2>2. LastPlace \in Nat
    BY <1>1 DEF Context, LastPlace
  <2> QED
    BY <2>1, <2>2
<1>3. ReadBefore(result, argv, nextKeep, AllDefaults) /\ argc = n + 1 /\ (c = n + 1 \/ End < c)
  BY <1>1, <1>2 DEF InRest
<1>4. c \in 1 .. n + 1 /\ c - 1 \in 0 .. n
  BY <1>2, <1>3 DEF ReadBefore
<1>5. Kept(argv, nextKeep, c) /\ \A p \in 1 .. c - 1 : ~IsFaulty(p)
  BY <1>2, <1>3 DEF ReadBefore
<1>6. Agrees(result, Settings[c - 1], AllDefaults) /\ Unrefused(Settings[c - 1])
  BY <1>1, <1>2, <1>3 DEF ReadBefore, Agrees, Matches, Unrefused
<1>7. Settings[c - 1] \in Seq(Uses)
  BY <1>1, <1>2, <1>4, SettingsAre
<1> QED
  BY <1>1, <1>2, <1>3, <1>4, <1>5, <1>6, <1>7

LEMMA RestInBounds ==
  ASSUME OptionsInv, pc = "rest"
  PROVE  InBounds(result, argv, nextKeep, argc) /\ nextKeep <= result.current
<1>1. Context /\ InRest /\ result \in Results
  BY RestFacts DEF OptionsInv
<1>2. ReadBefore(result, argv, nextKeep, AllDefaults) /\ argc = LastPlace + 1
  BY <1>1 DEF InRest
<1>3. AllDefaults \in DefaultTexts
  BY <1>1, DefaultsType
<1> QED
  BY <1>1, <1>2, <1>3, ReadInBounds

\* What follows "--" is free.
LEMMA FreeBehind ==
  ASSUME Context, NEW p \in 1 .. LastPlace, End < p
  PROVE  IsFree(p) /\ ~Unclear(p)
<1>1. PICK e \in Nat : e = End
  BY EndIs DEF Context, LastPlace
<1>2. ~(p < End) /\ p > End
  BY <1>1
<1> QED
  BY <1>2 DEF IsFree, Unclear, IsOption

LEMMA ConsumeRestStep ==
  ASSUME OptionsInv, ConsumeRest
  PROVE  OptionsInv'
<1>1. SameProgram /\ pc = "rest" /\ result.current < argc /\ Consumed(result)
      /\ argv' = argv /\ nextKeep' = nextKeep /\ argc' = argc /\ DefaultsFit
  BY DEF ConsumeRest, SameProgram, OptionsInv
<1>2. PICK c : c = result.current
  OBVIOUS
<1>3. /\ Context /\ Sensible /\ result \in Results /\ argc = LastPlace + 1
      /\ Agrees(result, Settings[c - 1], AllDefaults) /\ Settings[c - 1] \in Seq(Uses)
      /\ Unrefused(Settings[c - 1]) /\ Kept(argv, nextKeep, c)
      /\ \A p \in 1 .. c - 1 : ~IsFaulty(p)
  BY <1>1, <1>2, RestFacts
<1>4. PICK n \in Nat : n = LastPlace
  BY <1>1, RestFacts
<1>5. c \in 1 .. n /\ End < c
  BY <1>1, <1>2, <1>4, RestFacts
<1>6. This = given[c]
  <2>1. c \in c .. n
    BY <1>5
  <2> QED
    BY <1>2, <1>3, <1>4, <2>1 DEF This, Kept
<1>7. IsFree(c) /\ ~Unclear(c)
  BY <1>3, <1>4, <1>5, FreeBehind
<1>8. PICK z : z = ConsumePositional(result, given[c])
  OBVIOUS
<1>9. /\ FreeDone(z, Settings[c - 1], AllDefaults, c) /\ Grows(z, result)
      /\ z.current = c
      /\ Consumed(result) <=> Open(Settings[c - 1]) # {}
  BY <1>2, <1>3, <1>4, <1>5, <1>8, DefaultsType, PositionalDoes
<1>10. /\ Outcome(z, c, AllDefaults)
       /\ ~IsFaulty(c) => ~IsLeftOver(c)
  BY <1>1, <1>3, <1>4, <1>5, <1>7, <1>9, FreeOutcome
<1>11. Proceed(z)
  BY <1>6, <1>8 DEF ConsumeRest
<1>12. z \in Results /\ z.defined = result.defined
  BY <1>9 DEF Grows
<1>13. CASE IsFaulty(c)
  <2>1. result' = z /\ pc' = "thrown"
    BY <1>10, <1>11, <1>13 DEF Outcome, Proceed
  <2>2. PICK v, k, a : v = argv /\ k = nextKeep /\ a = argc
    OBVIOUS
  <2>3. v = argv' /\ k = nextKeep' /\ a = argc'
    BY <1>1, <2>2
  <2>4. InBounds(result, v, k, a) /\ k <= result.current
    BY <1>1, <2>2, RestInBounds
  <2>5. InBounds(z, v, k, a) /\ k <= z.current
    <3>1. result.current <= LastPlace
      BY <1>2, <1>4, <1>5
    <3> QED
      BY <1>3, <1>9, <2>4, <3>1, StaysInBounds
  <2> QED
    BY <1>1, <1>3, <1>4, <1>5, <1>12, <1>13, <2>1, <2>3, <2>5, ToThrown
<1>14. CASE ~IsFaulty(c)
  <2>1. Agrees(z, Settings[c], AllDefaults)
    BY <1>10, <1>14 DEF Outcome
  <2>2. z.error = "none"
    BY <2>1 DEF Agrees, Matches
  <2>3. PICK d \in Nat \ {0} : d = c + 1 /\ d - 1 = c /\ d \in 1 .. n + 1
    BY <1>4, <1>5
  <2>4. PICK r : r = [z EXCEPT !.current = d]
    OBVIOUS
  <2>5. result' = r /\ pc' = "rest"
    <3>1. result' = [z EXCEPT !.current = z.current + 1] /\ pc' = pc
      BY <1>12, <2>2, <1>11 DEF Proceed, Results
    <3> QED
      BY <1>1, <1>9, <2>3, <2>4, <3>1
  <2>6. r \in Results /\ r.current = d /\ r.defined = result.defined
    BY <1>12, <2>4, MovedTo
  <2>7. Agrees(r, Settings[d - 1], AllDefaults)
    BY <2>1, <2>3, <2>4, MovedAgrees
  <2>8. \A p \in 1 .. d - 1 : ~IsFaulty(p)
    <3>1. \A p \in 1 .. d - 1 : p \in 1 .. c - 1 \/ p = c
      BY <1>5, <2>3
    <3> QED
      BY <1>3, <1>14, <3>1
  <2>9. Kept(argv, nextKeep, d)
    BY <1>3, <1>4, <1>5, <1>10, <1>14, <2>3, KeptOn
  <2>10. PICK v, k : v = argv' /\ k = nextKeep' /\ v = argv /\ k = nextKeep
    BY <1>1
  <2>11. ReadBefore(r, v, k, AllDefaults)
    BY <1>4, <2>3, <2>6, <2>7, <2>8, <2>9, <2>10 DEF ReadBefore, Agrees
  <2>12. End < r.current
    <3>1. PICK e \in Nat : e = End
      BY <1>3, EndIs DEF Context, LastPlace
    <3> QED
      BY <1>5, <2>3, <2>6, <3>1
  <2>13. argc' = LastPlace + 1
    BY <1>1, <1>3
  <2> QED
    BY <1>1, <1>3, <2>5, <2>6, <2>10, <2>11, <2>12, <2>13, ToRest
<1> QED
  BY <1>13, <1>14

\* An argument behind the options that nobody takes.
LEMMA NobodyTakes ==
  ASSUME Context, NEW p \in 1 .. LastPlace, End < p, Unrefused(Settings[p - 1]),
         Open(Settings[p - 1]) = {}
  PROVE  Settings[p] = Settings[p - 1] /\ ~IsFaulty(p) /\ IsLeftOver(p)
<1>1. IsFree(p) /\ ~Unclear(p)
  BY FreeBehind
<1>2. p - 1 \in 0 .. LastPlace
  BY DEF Context, LastPlace
<1>3. PICK s \in Seq(Uses) : s = Settings[p - 1]
  BY <1>2, SettingsAre
<1>4. Positional(s, p) = <<>> /\ ~Misplaced(s, p)
  BY <1>3 DEF Positional, Misplaced
<1>5. Settings[p] = s \o <<>> /\ ~IsFaulty(p) /\ IsLeftOver(p)
  BY <1>1, <1>3, <1>4, FreeFaults
<1>6. s \o <<>> = s
  OBVIOUS
<1> QED
  BY <1>3, <1>5, <1>6

\* What argv holds at last.
Moved(v, k, c, i) == IF i < k THEN v[i] ELSE given[i + c - k]

LEMMA RestLeftOver ==
  ASSUME Context, NEW c \in 1 .. LastPlace + 1, NEW v, NEW k, Kept(v, k, c),
         Unrefused(Settings[c - 1]),
         c = LastPlace + 1 \/ (End < c /\ Open(Settings[c - 1]) = {})
  PROVE  /\ Settings[LastPlace] = Settings[c - 1]
         /\ \A p \in c .. LastPlace : ~IsFaulty(p)
         /\ Len(LeftOver[LastPlace]) = k + LastPlace - c
         /\ \A i \in 1 .. k + LastPlace - c : LeftOver[LastPlace][i] = Moved(v, k, c, i)
<1>0. PICK n \in Nat : n = LastPlace
  BY DEF Context, LastPlace
<1>1. PICK s : n = LastPlace /\ s = Settings[c - 1]
  BY <1>0
<1>2. PICK m \in Nat : m = n + 1 - c /\ c \in 1 .. n + 1
  BY <1>1
<1>3. k \in 1 .. c /\ Len(LeftOver[c - 1]) = k - 1 /\ \A i \in 1 .. k - 1 : v[i] = LeftOver[c - 1][i]
  BY DEF Kept
<1> DEFINE Holds(l, j) == Len(l) = k - 1 + j /\ \A i \in 1 .. k - 1 + j : l[i] = Moved(v, k, c, i)
           Good(j) == /\ Settings[c - 1 + j] = s
                      /\ \A p \in c .. c - 1 + j : ~IsFaulty(p)
                      /\ Holds(LeftOver[c - 1 + j], j)
           T == {j \in 0 .. m : Good(j)}
<1>4. 0 \in T
  <2>1. c - 1 + 0 = c - 1 /\ k - 1 + 0 = k - 1
    BY <1>2, <1>3
  <2>2. \A p \in c .. c - 1 + 0 : ~IsFaulty(p)
    BY <1>2
  <2>3. \A i \in 1 .. k - 1 : LeftOver[c - 1][i] = Moved(v, k, c, i)
    BY <1>3 DEF Moved
  <2>4. Holds(LeftOver[c - 1], 0)
    BY <1>3, <2>1, <2>3
  <2> HIDE DEF Holds
  <2>5. Good(0)
    BY <1>1, <2>1, <2>2, <2>4
  <2> QED
    BY <2>5
<1>5. ASSUME NEW j \in 1 .. m, j - 1 \in T
      PROVE  j \in T
  <2>1. PICK p : p = c - 1 + j
    OBVIOUS
  <2>2. p \in 1 .. n /\ p - 1 = c - 1 + (j - 1) /\ c # n + 1 /\ p >= c
    BY <1>2, <2>1
  <2>3. Good(j - 1)
    BY <1>5
  <2>4. /\ Settings[p - 1] = s /\ \A x \in c .. p - 1 : ~IsFaulty(x)
        /\ Holds(LeftOver[p - 1], j - 1)
    <3> HIDE DEF Holds
    <3> QED
      BY <2>2, <2>3
  <2>5. End < p /\ Open(s) = {} /\ Unrefused(s)
    <3>1. PICK e \in Nat : e = End
      BY EndIs DEF Context, LastPlace
    <3> QED
      BY <1>1, <2>2, <3>1
  <2>6. Settings[p] = s /\ ~IsFaulty(p) /\ IsLeftOver(p)
    BY <1>1, <2>2, <2>4, <2>5, NobodyTakes
  <2>7. PICK l \in Seq(Texts) : l = LeftOver[p - 1]
    <3>1. p - 1 \in 0 .. LastPlace
      BY <1>1, <2>2
    <3> QED
      BY <3>1, LeftOverAre DEF Context
  <2>8. given[p] \in Texts
    BY <1>1, <2>2, GivenText DEF Context
  <2>9. LeftOver[p] = Append(l, given[p])
    BY <1>1, <2>2, <2>6, <2>7, LeftOverAre DEF Context
  <2>10. PICK h \in Seq(Texts) : h = Append(l, given[p])
    <3>1. Append(l, given[p]) \in Seq(Texts)
      BY <2>8
    <3> QED
      BY <3>1
  <2>11. PICK x \in Nat : x = k - 1 + (j - 1) /\ x + 1 = k - 1 + j
    BY <1>3
  <2>12. Len(l) = x /\ \A i \in 1 .. x : l[i] = Moved(v, k, c, i)
    BY <2>4, <2>7, <2>11
  <2>13. Len(h) = x + 1 /\ h[x + 1] = given[p] /\ \A i \in 1 .. x : h[i] = l[i]
    BY <2>8, <2>10, <2>12
  <2>14. Moved(v, k, c, x + 1) = given[p]
    <3>1. ~(x + 1 < k) /\ x + 1 + c - k = p
      BY <1>2, <1>3, <2>1, <2>11
    <3> QED
      BY <3>1 DEF Moved
  <2>15. \A i \in 1 .. x + 1 : h[i] = Moved(v, k, c, i)
    <3>1. \A i \in 1 .. x + 1 : i \in 1 .. x \/ i = x + 1
      OBVIOUS
    <3> QED
      BY <2>12, <2>13, <2>14, <3>1
  <2>16. Holds(LeftOver[p], j)
    BY <2>9, <2>10, <2>11, <2>13, <2>15
  <2>17. \A y \in c .. p : ~IsFaulty(y)
    <3>1. \A y \in c .. p : y \in c .. p - 1 \/ y = p
      BY <1>2, <2>2
    <3> QED
      BY <2>4, <2>6, <3>1
  <2> HIDE DEF Holds
  <2>18. Good(j)
    BY <2>1, <2>6, <2>16, <2>17
  <2> QED
    BY <2>18
<1>6. m \in T
  <2> HIDE DEF T, Good, Holds
  <2>1. m \in 0 .. m
    OBVIOUS
  <2>2. \A j \in 0 .. m : j \in T
    BY <1>4, <1>5, CountUp
  <2> QED
    BY <2>1, <2>2
<1>7. c - 1 + m = n /\ k - 1 + m = k + n - c
  BY <1>2, <1>3
<1>8. Good(m)
  BY <1>6
<1>9. Settings[n] = s /\ \A p \in c .. n : ~IsFaulty(p)
  <2> HIDE DEF Holds
  <2> QED
    BY <1>7, <1>8
<1>10. Holds(LeftOver[n], m)
  <2> HIDE DEF Holds
  <2> QED
    BY <1>7, <1>8
<1> QED
  BY <1>1, <1>7, <1>9, <1>10

LEMMA ToParsed ==
  ASSUME OptionsInv, Sensible, SameProgram, pc' \in {"parsed", "idle", "construct"}, result' = result,
         Agrees(result, Settings[LastPlace], AllDefaults),
         \A p \in 1 .. LastPlace : ~IsFaulty(p), DefaultsFit,
         NEW v, v = argv', NEW k, k = nextKeep', NEW a, a = argc', InBounds(result, v, k, a),
         SubSeq(v, 1, a - 1) = LeftOver[LastPlace]
  PROVE  OptionsInv'
<1>1. PICK r : r = result
  OBVIOUS
<1>b. InBounds(result, argv, nextKeep, argc)'
  BY <1>1, BoundsNext DEF SameProgram
<1>2. /\ (setup \in Setups /\ given \in Seq(Texts) /\ result \in Results)'
      /\ Defined'
  <2>1. r = result' /\ r \in Results /\ r.defined = result.defined /\ Defined
    BY <1>1 DEF OptionsInv
  <2> QED
    BY <2>1, ProgramNext
<1>3. Settings' = Settings /\ OptionSet' = OptionSet /\ setup' = setup /\ LastPlace' = LastPlace
      /\ LeftOver' = LeftOver /\ AllDefaults' = AllDefaults
  BY SameSettings, SameBasics, SameLeftOver, SameDefaults DEF SameProgram
<1>4. Matches(result, Settings[LastPlace])'
  <2>1. \A s : Open(s)' = Open(s)
    BY SameOpen
  <2>2. \A o, t : Refuses(o, t)' <=> Refuses(o, t)
    BY SameTexts
  <2> QED
    BY <1>3, <2>1, <2>2 DEF Matches, Agrees
<1>5. Values(result, Settings[LastPlace], AllDefaults)'
  <2>1. \A o, t : ValueFrom(o, t)' = ValueFrom(o, t)
    BY SameTexts
  <2> QED
    BY <1>3, <2>1 DEF Values, Agrees
<1>6. (\A p \in 1 .. LastPlace : ~IsFaulty(p))'
  BY <1>3, SameFaults
<1>7. (SubSeq(argv, 1, argc - 1) = LeftOver[LastPlace])'
  BY <1>3
<1>8. AllRead' /\ DefaultsFit'
  BY <1>4, <1>5, <1>6, <1>7, SameMistakes DEF AllRead
<1> QED
  BY <1>b, <1>2, <1>8 DEF OptionsInv

LEMMA KeepRestStep ==
  ASSUME OptionsInv, KeepRest
  PROVE  OptionsInv'
<1>1. SameProgram /\ pc = "rest" /\ pc' = "parsed" /\ result' = result /\ DefaultsFit
      /\ (result.current = argc \/ ~Consumed(result))
  BY DEF KeepRest, SameProgram, OptionsInv
<1>2. PICK c, v, k : c = result.current /\ v = argv /\ k = nextKeep
  OBVIOUS
<1>3. PICK n \in Nat : n = LastPlace
  BY <1>1, RestFacts
<1>4. /\ Context /\ Sensible /\ c \in 1 .. n + 1 /\ argc = n + 1 /\ (c = n + 1 \/ End < c)
      /\ Agrees(result, Settings[c - 1], AllDefaults) /\ Settings[c - 1] \in Seq(Uses)
      /\ Unrefused(Settings[c - 1]) /\ Kept(v, k, c) /\ \A p \in 1 .. c - 1 : ~IsFaulty(p)
  BY <1>1, <1>2, <1>3, RestFacts
<1>5. c = n + 1 \/ (End < c /\ Open(Settings[c - 1]) = {})
  <2>1. Places(result) = Open(Settings[c - 1])
    BY <1>4, PlacesAre
  <2> QED
    BY <1>1, <1>2, <1>4, <2>1 DEF Consumed
<1>6. PICK l \in Seq(Texts) : l = LeftOver[n]
  BY <1>3, <1>4, LeftOverAre DEF Context
<1>7. /\ Settings[n] = Settings[c - 1] /\ \A p \in c .. n : ~IsFaulty(p)
      /\ Len(l) = k + n - c /\ \A i \in 1 .. k + n - c : l[i] = Moved(v, k, c, i)
  BY <1>3, <1>4, <1>5, <1>6, RestLeftOver
<1>8. k \in 1 .. c /\ v \in Seq(Texts) /\ Len(v) = n /\ \A i \in c .. n : v[i] = given[i]
  BY <1>3, <1>4 DEF Kept
<1>9. PICK a \in Nat : a = argc' /\ a - 1 = k + n - c /\ a - 1 \in 0 .. n
  <2>1. argc' = k + (n + 1) - c
    BY <1>2, <1>4 DEF KeepRest
  <2> QED
    BY <1>3, <1>4, <1>8, <2>1
<1>b. PICK b \in 0 .. n : b = a - 1 /\ b = k + n - c
  BY <1>9
<1>10. PICK w : w = argv'
  OBVIOUS
<1>11. w = [i \in DOMAIN v |-> IF i \in k .. b THEN v[i + c - k] ELSE v[i]]
  BY <1>2, <1>9, <1>10, <1>b DEF KeepRest
<1>12. \A i \in k .. b : i + c - k \in c .. n
  <2>1. c \in 1 .. n + 1 /\ k \in 1 .. c
    BY <1>4, <1>8
  <2> QED
    BY <2>1, <1>b
<1>13. w \in Seq(Texts) /\ Len(w) = n
  <2>1. \A i \in 1 .. n : (IF i \in k .. b THEN v[i + c - k] ELSE v[i]) \in Texts
    <3> SUFFICES ASSUME NEW i \in 1 .. n
                 PROVE  (IF i \in k .. b THEN v[i + c - k] ELSE v[i]) \in Texts
      OBVIOUS
    <3>1. i \in k .. b => i + c - k \in 1 .. n
      BY <1>4, <1>12
    <3> QED
      BY <1>8, <3>1
  <2>2. w \in [1 .. n -> Texts]
    BY <1>8, <1>11, <2>1
  <2> QED
    BY <2>2, FunctionIsSeq
<1>14. \A i \in 1 .. b : w[i] = Moved(v, k, c, i)
  <2> SUFFICES ASSUME NEW i \in 1 .. b
               PROVE  w[i] = Moved(v, k, c, i)
    OBVIOUS
  <2>1. i \in 1 .. n
    BY <1>b
  <2>2. CASE i < k
    <3>1. w[i] = v[i]
      BY <1>8, <1>11, <2>1, <2>2
    <3> QED
      BY <2>2, <3>1 DEF Moved
  <2>3. CASE ~(i < k)
    <3>1. i \in k .. b
      <4>1. k \in 1 .. c /\ c \in 1 .. n + 1
        BY <1>4, <1>8
      <4> QED
        BY <1>b, <2>3, <4>1
    <3>2. w[i] = v[i + c - k]
      BY <1>8, <1>11, <2>1, <3>1
    <3>3. v[i + c - k] = given[i + c - k]
      BY <1>8, <1>12, <3>1
    <3> QED
      BY <2>3, <3>2, <3>3 DEF Moved
  <2> QED
    BY <2>2, <2>3
<1>15. SubSeq(w, 1, b) = l
  <2>1. PICK s \in Seq(Texts) : s = SubSeq(w, 1, b)
    <3>1. SubSeq(w, 1, b) \in Seq(Texts)
      BY <1>b, <1>13
    <3> QED
      BY <3>1
  <2>2. Len(s) = b /\ \A i \in 1 .. b : s[i] = w[i]
    BY <1>b, <1>13, <2>1
  <2>3. Len(s) = Len(l)
    BY <1>7, <1>b, <2>2
  <2>4. \A i \in 1 .. Len(s) : s[i] = l[i]
    BY <1>7, <1>b, <1>14, <2>2
  <2>5. s = l
    BY <2>3, <2>4, SeqEqual
  <2> QED
    BY <2>1, <2>5
<1>16. \A p \in 1 .. LastPlace : ~IsFaulty(p)
  <2>1. \A p \in 1 .. n : p \in 1 .. c - 1 \/ p \in c .. n
    BY <1>3, <1>4
  <2> QED
    BY <1>3, <1>4, <1>7, <2>1
<1>17. Agrees(result, Settings[LastPlace], AllDefaults)
  BY <1>3, <1>4, <1>7
<1>18. SubSeq(w, 1, a - 1) = LeftOver[LastPlace]
  BY <1>3, <1>6, <1>b, <1>15
<1>19. PICK keep : keep = nextKeep'
  OBVIOUS
<1>20. InBounds(result, w, keep, a)
  <2>1. keep = a
    BY <1>9, <1>19 DEF KeepRest
  <2>2. a \in 1 .. n + 1
    <3>1. a - 1 \in 0 .. n
      BY <1>9
    <3> QED
      BY <3>1
  <2>3. Lengths(result) /\ result.current <= LastPlace + 1
    BY <1>1, RestInBounds DEF InBounds
  <2> QED
    BY <1>3, <1>13, <2>1, <2>2, <2>3 DEF InBounds
<1> QED
  BY <1>1, <1>4, <1>9, <1>10, <1>16, <1>17, <1>18, <1>19, <1>20, ToParsed

-----------------------------------------------------------------------------
(* The other actions                                                       *)

LEMMA FreshType ==
  ASSUME NEW n \in Nat
  PROVE  FreshResult(n) \in Results /\ FreshResult(n).defined = n
<1>1. /\ [o \in OptionSet |-> 0] \in [OptionSet -> Nat]
      /\ [o \in OptionSet |-> FALSE] \in [OptionSet -> BOOLEAN]
      /\ [o \in OptionSet |-> <<>>] \in [OptionSet -> Seq(Texts)]
  OBVIOUS
<1>2. <<>> \in Seq(Uses) /\ "none" \in Errors
  BY DEF Errors
<1> QED
  BY <1>1, <1>2 DEF FreshResult, Results

LEMMA OptionsInit == Init => OptionsInv
<1> SUFFICES ASSUME Init
             PROVE  OptionsInv
  OBVIOUS
<1>1. setup \in Setups /\ pc = "define"
  BY DEF Init
<1>2. PICK n \in 0 .. MaxArguments : given \in [1 .. n -> Arguments]
  BY DEF Init
<1>3. given \in Seq(Texts)
  <2>1. n \in Nat /\ Arguments \subseteq Texts
    BY <1>2, OptionsAssumption
  <2>2. given \in [1 .. n -> Texts]
    BY <1>2, <2>1
  <2> QED
    BY <2>1, <2>2, FunctionIsSeq
<1>4. result = FreshResult(0)
  BY DEF Init, FreshResult
<1>5. result \in Results /\ result.defined = 0
  BY <1>4, FreshType
<1>6. Len(setup.options) \in Nat
  BY <1>1, Shapes
<1>7. Named(0)
  <2>1. DOMAIN names = {}
    BY DEF Init
  <2> QED
    BY <2>1 DEF Named
<1>8. Defining
  BY <1>4, <1>5, <1>6, <1>7 DEF Defining, Init, LastPlace
<1>9. ~Parsed /\ ~Sensible
  BY <1>1 DEF Parsed, Sensible
<1> QED
  BY <1>1, <1>3, <1>5, <1>8, <1>9 DEF OptionsInv

\* The definitions make no sense.
LEMMA ToRefused ==
  ASSUME OptionsInv, setup' = setup, given' = given, pc' \in {"thrown", "usage", "terminated"},
         NEW r, r = result', r \in Results, IsAmbiguous, NEW v, v = argv', NEW k, k = nextKeep',
         NEW a, a = argc', InBounds(r, v, k, a), k <= r.current
  PROVE  OptionsInv'
<1>1. IsAmbiguous' /\ IsMistaken'
  BY DEF IsAmbiguous, IsMistaken, Detail, OptionSet
<1>2. (result \in Results)'
  BY DEF Results, Uses, OptionSet
<1>3. (setup \in Setups /\ given \in Seq(Texts))'
  BY DEF OptionsInv
<1>4. ~Parsed' /\ ~Sensible'
  BY DEF Parsed, Sensible
<1>5. InBounds(result, argv, nextKeep, argc)' /\ (nextKeep <= result.current)'
  BY BoundsNext
<1> QED
  BY <1>1, <1>2, <1>3, <1>4, <1>5 DEF OptionsInv

\* The definitions leave the arguments alone.
LEMMA DefiningInBounds ==
  ASSUME Defining, given \in Seq(Texts), NEW r, r.current = result.current, r.value = result.value,
         r.count = result.count
  PROVE  InBounds(r, argv, nextKeep, argc) /\ nextKeep <= r.current
<1>1. PICK n \in Nat : n = LastPlace
  BY DEF LastPlace
<1>2. result.current = 1 /\ \A o \in OptionSet : result.value[o] = <<>> /\ result.count[o] = 0
  BY DEF Defining, FreshResult
<1>3. Lengths(r)
  <2>1. Len(<<>>) <= 1
    OBVIOUS
  <2> QED
    BY <1>2, <2>1 DEF Lengths
<1>4. 1 \in 1 .. n + 1 /\ n + 1 \in 1 .. n + 1 /\ 1 <= n + 1
  BY <1>1
<1>5. argv \in Seq(Texts) /\ Len(argv) = LastPlace /\ argc = n + 1 /\ nextKeep = 1
  BY <1>1 DEF Defining, LastPlace
<1> QED
  BY <1>1, <1>2, <1>3, <1>4, <1>5 DEF InBounds

\* An exception among the definitions.
LEMMA Refused ==
  ASSUME OptionsInv, pc = "define", setup' = setup, given' = given, UNCHANGED <<argv, argc, nextKeep>>,
         pc' = "thrown", NEW error \in SpecErrors \union ParseErrors,
         result' = Throw(result, error), IsAmbiguous
  PROVE  OptionsInv'
<1>1. Defining /\ given \in Seq(Texts) /\ result \in Results
  BY DEF OptionsInv
<1>2. PICK r : r = Throw(result, error)
  OBVIOUS
<1>3. r \in Results /\ r = [result EXCEPT !.error = error]
  BY <1>1, <1>2, ThrowType
<1>4. r.current = result.current /\ r.value = result.value /\ r.count = result.count
  BY <1>1, <1>3 DEF Results
<1>5. PICK v, k, a : v = argv /\ k = nextKeep /\ a = argc
  OBVIOUS
<1>6. InBounds(r, v, k, a) /\ k <= r.current
  BY <1>1, <1>4, <1>5, DefiningInBounds
<1>7. v = argv' /\ k = nextKeep' /\ a = argc' /\ r = result'
  BY <1>2, <1>5
<1> QED
  BY <1>3, <1>6, <1>7, ToRefused

LEMMA AddOptionStep ==
  ASSUME OptionsInv, AddOption
  PROVE  OptionsInv'
<1>1. /\ pc = "define" /\ setup' = setup /\ argv' = argv /\ argc' = argc
      /\ nextKeep' = nextKeep /\ given' = given
  BY DEF AddOption
<1>2. Defining /\ setup \in Setups /\ given \in Seq(Texts) /\ result \in Results
  BY <1>1 DEF OptionsInv
<1>3. PICK m \in Nat : m = result.defined /\ m < Len(setup.options)
  BY <1>2 DEF Defining, AddOption
<1>4. PICK o \in OptionSet : o = m + 1 /\ o = result.defined + 1 /\ o \in Nat
  <2>1. m + 1 \in OptionSet /\ m + 1 \in Nat
    BY <1>2, <1>3, Shapes
  <2> QED
    BY <1>3, <2>1
<1>5. PICK d : d = Detail(o)
  OBVIOUS
<1>6. PICK taken : taken = NamesOf(d) \intersect DOMAIN names
  OBVIOUS
<1>7. \/ /\ Malformed(d)
         /\ result' = Throw(result, "invalid_option_format")
         /\ pc' = "thrown"
      \/ /\ ~Malformed(d) /\ taken = {}
         /\ names' = Entered(NamesOf(d), o)
         /\ result' = [result EXCEPT !.defined = o]
         /\ pc' = pc
      \/ /\ taken # {}
         /\ result' = Throw(result, "option_exists")
         /\ pc' = "thrown"
  BY <1>4, <1>5, <1>6 DEF AddOption
<1>8. Named(m)
  BY <1>2, <1>3 DEF Defining
<1>9. {"invalid_option_format", "option_exists"} \subseteq SpecErrors \union ParseErrors
  BY DEF SpecErrors
<1>10. CASE Malformed(d) /\ result' = Throw(result, "invalid_option_format") /\ pc' = "thrown"
  <2>1. IsAmbiguous
    BY <1>5, <1>10 DEF IsAmbiguous
  <2> QED
    BY <1>1, <1>9, <1>10, <2>1, Refused
<1>11. CASE taken # {} /\ result' = Throw(result, "option_exists") /\ pc' = "thrown"
  <2>1. IsAmbiguous
    <3>1. PICK name : name \in NamesOf(d) /\ name \in DOMAIN names
      BY <1>6, <1>11
    <3>2. names[name] \in 1 .. m /\ name \in NamesOf(Detail(names[name]))
      BY <1>8, <3>1 DEF Named
    <3>3. PICK other : other = names[name]
      OBVIOUS
    <3>4. other \in OptionSet \ {o}
      BY <1>2, <1>3, <1>4, <3>2, <3>3, Shapes
    <3>5. NamesOf(Detail(o)) \intersect NamesOf(Detail(other)) # {}
      BY <1>5, <3>1, <3>2, <3>3
    <3> QED
      BY <3>4, <3>5 DEF IsAmbiguous
  <2> QED
    BY <1>1, <1>9, <1>11, <2>1, Refused
<1>12. CASE ~Malformed(d) /\ taken = {} /\ names' = Entered(NamesOf(d), o)
            /\ result' = [result EXCEPT !.defined = o] /\ pc' = pc
  <2>1. OptionSet' = OptionSet /\ LastPlace' = LastPlace
    BY <1>1 DEF OptionSet, LastPlace
  <2>2. result' = FreshResult(o)
    <3>1. PICK count, default, value :
             count = [x \in OptionSet |-> 0] /\ default = [x \in OptionSet |-> FALSE]
             /\ value = [x \in OptionSet |-> <<>>]
      OBVIOUS
    <3>2. result = [defined |-> m, current |-> 1, next |-> 1, sequential |-> <<>>, error |-> "none",
                    count |-> count, default |-> default, value |-> value]
      <4>1. result = FreshResult(m)
        BY <1>2, <1>3 DEF Defining
      <4> QED
        BY <3>1, <4>1 DEF FreshResult
    <3>3. result' = [defined |-> o, current |-> 1, next |-> 1, sequential |-> <<>>, error |-> "none",
                     count |-> count, default |-> default, value |-> value]
      BY <1>12, <3>2
    <3> QED
      BY <3>1, <3>3 DEF FreshResult
  <2>3. result' \in Results /\ result'.defined = o
    BY <1>4, <2>2, FreshType
  <2>4. PICK after : after = names' /\ DOMAIN after = DOMAIN names \union NamesOf(d)
                     /\ \A name \in DOMAIN after :
                           after[name] = IF name \in DOMAIN names THEN names[name] ELSE o
    BY <1>12 DEF Entered, Known
  <2>5. ASSUME NEW x \in 1 .. o
        PROVE  /\ ~Malformed(Detail(x))
               /\ \A name \in NamesOf(Detail(x)) : name \in DOMAIN after /\ after[name] = x
    <3>1. CASE x = o
      <4>1. \A name \in NamesOf(d) : name \notin DOMAIN names
        BY <1>6, <1>12
      <4> QED
        BY <1>5, <1>12, <2>4, <3>1, <4>1
    <3>2. CASE x # o
      <4>1. x \in 1 .. m
        BY <1>4, <3>2
      <4> QED
        BY <1>8, <2>4, <4>1 DEF Named, Known
    <3> QED
      BY <3>1, <3>2
  <2>6. ASSUME NEW name \in DOMAIN after
        PROVE  after[name] \in 1 .. o /\ name \in NamesOf(Detail(after[name]))
    <3>1. CASE name \in DOMAIN names
      <4>1. names[name] \in 1 .. m /\ name \in NamesOf(Detail(names[name])) /\ after[name] = names[name]
        BY <1>8, <2>4, <3>1 DEF Named
      <4> QED
        BY <1>4, <4>1
    <3>2. CASE name \notin DOMAIN names
      <4>1. after[name] = o /\ name \in NamesOf(d)
        BY <2>4, <3>2
      <4> QED
        BY <1>4, <1>5, <4>1
    <3> QED
      BY <3>1, <3>2
  <2>7. Named(o)'
    BY <1>1, <2>4, <2>5, <2>6 DEF Named, Known, Detail
  <2>8. Defining'
    <3>1. (result.defined \in 0 .. Len(setup.options))'
      BY <1>1, <1>3, <1>4, <2>3
    <3>2. Named(result.defined)'
      BY <2>3, <2>7 DEF Named
    <3>3. (result = FreshResult(result.defined))'
      BY <2>1, <2>2, <2>3 DEF FreshResult
    <3>4. (argv = given /\ argc = LastPlace + 1 /\ nextKeep = 1)'
      BY <1>1, <1>2, <2>1 DEF Defining
    <3> QED
      BY <3>1, <3>2, <3>3, <3>4 DEF Defining
  <2>9. (result \in Results)'
    BY <2>1, <2>3 DEF Results, Uses
  <2>10. (setup \in Setups /\ given \in Seq(Texts))' /\ pc' = "define"
    BY <1>1, <1>2, <1>12
  <2>11. ~Parsed' /\ ~Sensible'
    BY <2>10 DEF Parsed, Sensible
  <2> QED
    BY <2>8, <2>9, <2>10, <2>11 DEF OptionsInv
<1> QED
  BY <1>7, <1>10, <1>11, <1>12

LEMMA StartParseStep ==
  ASSUME OptionsInv, StartParse
  PROVE  OptionsInv'
<1>1. SameProgram /\ pc = "define" /\ pc' = "arguments" /\ argc' = argc
      /\ result.defined = Len(setup.options)
  BY DEF StartParse, SameProgram
<1>2. Defining /\ setup \in Setups /\ given \in Seq(Texts) /\ result \in Results
  BY <1>1 DEF OptionsInv
<1>3. Context /\ Defined
  BY <1>1, <1>2 DEF Defining, Context, Defined
<1>4. PICK r, v, k : r = result /\ v = argv /\ k = nextKeep
  OBVIOUS
<1>5. r = FreshResult(Len(setup.options)) /\ v = given /\ argc = LastPlace + 1 /\ k = 1
  BY <1>1, <1>2, <1>4 DEF Defining
<1>6. /\ r.current = 1 /\ r.next = 1 /\ r.sequential = <<>> /\ r.error = "none"
      /\ \A o \in OptionSet : r.count[o] = 0 /\ ~r.default[o] /\ r.value[o] = <<>>
  BY <1>5 DEF FreshResult
<1>7. PICK n \in Nat : n = LastPlace
  BY <1>2 DEF LastPlace
<1>8. r.current - 1 = 0 /\ Settings[r.current - 1] = <<>> /\ LeftOver[r.current - 1] = <<>>
  BY <1>3, <1>6, SettingsAre, LeftOverAre DEF Context
<1>9. Matches(r, <<>>)
  <2>1. Len(<<>>) = 0 /\ DOMAIN <<>> = {}
    OBVIOUS
  <2>2. \A o : TextsOf(o, <<>>) = <<>>
    BY TextsOfNone
  <2>3. \A i \in DOMAIN setup.positional : ~(i < r.next)
    <3>1. setup.positional \in Seq(Seq(Letters))
      BY <1>2, Shapes
    <3> QED
      BY <1>6, <3>1
  <2>4. \A o \in OptionSet : r.count[o] = Len(TextsOf(o, <<>>))
    BY <1>6, <2>1, <2>2
  <2> QED
    BY <1>6, <2>1, <2>3, <2>4 DEF Matches
<1>10. Values(r, <<>>, NoDefaults)
  <2> SUFFICES ASSUME NEW o \in OptionSet
               PROVE  r.value[o] = ValueFrom(o, NoDefaults[o] \o TextsOf(o, <<>>))
    BY DEF Values
  <2>1. NoDefaults[o] \o TextsOf(o, <<>>) = <<>>
    BY TextsOfNone DEF NoDefaults
  <2> QED
    BY <1>6, <2>1, WordsOfNone DEF ValueFrom
<1>11. Kept(v, k, r.current)
  <2>1. Len(<<>>) = 0
    OBVIOUS
  <2>2. v \in Seq(Texts) /\ Len(v) = LastPlace
    BY <1>2, <1>5 DEF LastPlace
  <2>3. k \in 1 .. r.current /\ Len(LeftOver[r.current - 1]) = k - 1
    BY <1>5, <1>6, <1>8, <2>1
  <2>4. \A i \in 1 .. k - 1 : v[i] = LeftOver[r.current - 1][i]
    BY <1>5
  <2>5. \A i \in r.current .. LastPlace : v[i] = given[i]
    BY <1>5
  <2> QED
    BY <2>2, <2>3, <2>4, <2>5 DEF Kept
<1>12. ReadBefore(r, v, k, NoDefaults)
  <2>1. r.current \in 1 .. LastPlace + 1
    BY <1>6, <1>7
  <2>2. \A p \in 1 .. r.current - 1 : ~IsFaulty(p)
    BY <1>6
  <2> QED
    BY <1>8, <1>9, <1>10, <1>11, <2>1, <2>2 DEF ReadBefore
<1>13. Ahead(r.current)
  <2>1. PICK e \in Nat : e = End /\ e >= 1
    <3>1. End \in Nat /\ End >= 1
      BY <1>2, <1>7, EndIs
    <3> QED
      BY <3>1
  <2>2. 1 <= n => ~IsValue[1]
    <3>1. 1 <= n => 1 \in 0 .. LastPlace
      BY <1>7
    <3> QED
      BY <1>2, <3>1, ValuesAre
  <2> QED
    BY <1>6, <1>7, <2>1, <2>2 DEF Ahead
<1>14. r = result' /\ v = argv' /\ k = nextKeep' /\ argc' = LastPlace + 1
  BY <1>4, <1>5 DEF StartParse
<1>15. r \in Results /\ r.defined = result.defined /\ \A o \in OptionSet : ~r.default[o]
  BY <1>2, <1>4, <1>6
<1> QED
  BY <1>1, <1>3, <1>12, <1>13, <1>14, <1>15, ToArguments

\* The program ends where an argument or a definition makes no sense.
LEMMA CatchStep ==
  ASSUME OptionsInv, Catch
  PROVE  OptionsInv'
<1>1. SameProgram /\ pc = "thrown" /\ result' = result
      /\ pc' = IF result.defined < Len(setup.options) THEN "terminated" ELSE "usage"
  BY DEF Catch, SameProgram
<1>2. /\ setup \in Setups /\ given \in Seq(Texts) /\ result \in Results
      /\ IsMistaken
      /\ result.defined = Len(setup.options) \/ IsAmbiguous
  BY <1>1 DEF OptionsInv
<1>c. PICK r, v, k, a : r = result /\ v = argv /\ k = nextKeep /\ a = argc
  OBVIOUS
<1>d. r = result' /\ v = argv' /\ k = nextKeep' /\ a = argc' /\ r \in Results
  BY <1>2, <1>c DEF Catch
<1>e. InBounds(r, v, k, a) /\ k <= r.current
  BY <1>1, <1>c DEF OptionsInv
<1>3. CASE IsAmbiguous
  <2>1. pc' \in {"thrown", "usage", "terminated"}
    BY <1>1
  <2> QED
    BY <1>1, <1>3, <1>d, <1>e, <2>1, ToRefused DEF SameProgram
<1>4. CASE ~IsAmbiguous
  <2>2. pc' = "usage"
    <3>1. result.defined = Len(setup.options) /\ Len(setup.options) \in Nat
      BY <1>2, <1>4, Shapes
    <3>2. ~(result.defined < Len(setup.options))
      BY <3>1
    <3> QED
      BY <1>1, <3>2
  <2>3. IsMistaken'
    BY <1>1, <1>2, SameMistakes
  <2>4. (setup \in Setups /\ given \in Seq(Texts) /\ result \in Results)'
    BY <1>1, <1>2, SameBasics DEF SameProgram, Results, Uses
  <2>5. ~Parsed' /\ ~Sensible'
    BY <2>2 DEF Parsed, Sensible
  <2>6. InBounds(result, argv, nextKeep, argc)' /\ (nextKeep <= result.current)'
    BY <1>1, <1>d, <1>e, BoundsNext DEF SameProgram
  <2> QED
    BY <2>2, <2>3, <2>4, <2>5, <2>6 DEF OptionsInv
<1> QED
  BY <1>3, <1>4

\* An option that is set stays set.
LEMMA SetStays ==
  ASSUME Context, NEW o, NEW p \in 0 .. LastPlace, TextsOf(o, Settings[p]) # <<>>
  PROVE  TextsOf(o, Settings[LastPlace]) # <<>>
<1>1. PICK n \in Nat : n = LastPlace
  BY DEF Context, LastPlace
<1>2. PICK m \in Nat : m = n - p
  <2>1. n - p \in Nat
    BY <1>1
  <2> QED
    BY <2>1
<1> DEFINE T == {k \in 0 .. m : TextsOf(o, Settings[p + k]) # <<>>}
<1>3. 0 \in T
  <2>1. p + 0 = p
    BY <1>1
  <2> QED
    BY <1>2, <2>1
<1>4. ASSUME NEW k \in 1 .. m, k - 1 \in T
      PROVE  k \in T
  <2>1. PICK a \in 0 .. n, b \in 1 .. n : a = p + (k - 1) /\ b = p + k
    <3>1. p + (k - 1) \in 0 .. n /\ p + k \in 1 .. n
      BY <1>1, <1>2
    <3> QED
      BY <3>1
  <2>2. b - 1 = a
    BY <1>1, <2>1
  <2>3. PICK s \in Seq(Uses) : s = Settings[a]
    BY <1>1, <2>1, SettingsAre
  <2>4. PICK t \in Seq(Uses) : t = Added(s, b)
    BY <1>1, AddedType
  <2>5. Settings[b] = s \o t /\ s \o t \in Seq(Uses)
    <3>1. Settings[b] = Settings[b - 1] \o Added(Settings[b - 1], b)
      BY <1>1, SettingsAre
    <3>2. s \o t \in Seq(Uses)
      OBVIOUS
    <3> QED
      BY <2>2, <2>3, <2>4, <3>1, <3>2
  <2>6. TextsOf(o, s) # <<>>
    BY <1>4, <2>1, <2>3
  <2>7. PICK i \in DOMAIN s : s[i][1] = o
    BY <2>6, TextsEmpty
  <2>8. i \in DOMAIN (s \o t) /\ (s \o t)[i] = s[i]
    OBVIOUS
  <2>9. TextsOf(o, s \o t) # <<>>
    BY <2>5, <2>7, <2>8, TextsEmpty
  <2>10. k \in 0 .. m
    BY <1>2
  <2> QED
    BY <2>1, <2>5, <2>9, <2>10
<1>5. m \in T
  <2> HIDE DEF T
  <2>1. \A k \in 0 .. m : k \in T
    BY <1>3, <1>4, CountUp
  <2> QED
    BY <2>1
<1>6. p + m = LastPlace
  BY <1>1, <1>2
<1> QED
  BY <1>5, <1>6

\* The names of the client are different.
LEMMA ClientNames ==
  ASSUME setup = ClientSetup, setup \in Setups
  PROVE  /\ OptionSet = {1, 2}
         /\ Detail(1) = String(<<"f">>, <<"t", "F">>, <<>>)
         /\ Detail(2) = String(<<"o">>, <<"o", "D">>, <<Word(<<"r">>)>>)
         /\ NamesOf(Detail(1)) = {<<"f">>, <<"t", "F">>}
         /\ NamesOf(Detail(2)) = {<<"o">>, <<"o", "D">>}
         /\ ~IsAmbiguous
<1>1. setup.options = <<String(<<"f">>, <<"t", "F">>, <<>>),
                        String(<<"o">>, <<"o", "D">>, <<Word(<<"r">>)>>)>>
  BY DEF ClientSetup
<1>2. Len(setup.options) = 2
  BY <1>1
<1>3. OptionSet = {1, 2}
  <2>1. OptionSet = 1 .. 2
    BY <1>2, Shapes
  <2> QED
    BY <2>1
<1>4. /\ Detail(1) = String(<<"f">>, <<"t", "F">>, <<>>)
      /\ Detail(2) = String(<<"o">>, <<"o", "D">>, <<Word(<<"r">>)>>)
  BY <1>1 DEF Detail
<1>5. <<"f">> # <<>> /\ <<"t", "F">> # <<>> /\ <<"o">> # <<>> /\ <<"o", "D">> # <<>>
  OBVIOUS
<1>6. /\ NamesOf(Detail(1)) = {<<"f">>, <<"t", "F">>}
      /\ NamesOf(Detail(2)) = {<<"o">>, <<"o", "D">>}
  BY <1>4, <1>5 DEF NamesOf, String
<1>7. <<"f">> # <<"o">> /\ <<"f">> # <<"o", "D">> /\ <<"t", "F">> # <<"o">> /\ <<"t", "F">> # <<"o", "D">>
  <2>1. <<"f">>[1] = "f" /\ <<"o">>[1] = "o" /\ <<"t", "F">>[1] = "t" /\ <<"o", "D">>[1] = "o"
    OBVIOUS
  <2>2. "f" # "o" /\ "t" # "o"
    OBVIOUS
  <2> QED
    BY <2>1, <2>2
<1>8. NamesOf(Detail(1)) \intersect NamesOf(Detail(2)) = {}
  BY <1>6, <1>7
<1>9. ~Malformed(Detail(1)) /\ ~Malformed(Detail(2))
  <2>1. Detail(1).long = <<"t", "F">> /\ Detail(2).long = <<"o", "D">>
    BY <1>4 DEF String
  <2>2. Len(<<"t", "F">>) # 1 /\ Len(<<"o", "D">>) # 1
    OBVIOUS
  <2> QED
    BY <1>6, <2>1, <2>2 DEF Malformed
<1>10. ~IsAmbiguous
  BY <1>3, <1>8, <1>9 DEF IsAmbiguous
<1> QED
  BY <1>3, <1>4, <1>6, <1>10

\* An option that takes one text has a value if there is a text for it.
LEMMA HasItsText ==
  ASSUME NEW o, Detail(o).type = "string", NEW D \in Seq(Texts), NEW T \in Seq(Texts),
         D # <<>> \/ T # <<>>
  PROVE  ValueFrom(o, D \o T) # <<>>
<1>1. D \o T # <<>>
  <2>1. Len(D \o T) = Len(D) + Len(T) /\ Len(D) \in Nat /\ Len(T) \in Nat /\ Len(<<>>) = 0
    OBVIOUS
  <2>2. (D # <<>> => Len(D) # 0) /\ (T # <<>> => Len(T) # 0)
    BY EmptySeq
  <2>3. Len(D \o T) # 0
    BY <2>1, <2>2
  <2> QED
    BY <2>1, <2>3
<1>2. ~IsContainer(o)
  BY DEF IsContainer
<1>3. ValueFrom(o, D \o T) = Stored(o, <<>>, Last(D \o T))
  BY <1>1, <1>2 DEF ValueFrom
<1>4. Stored(o, <<>>, Last(D \o T)) = <<Last(D \o T)>>
  BY DEF Stored
<1>5. \A x : <<x>> # <<>>
  OBVIOUS
<1> QED
  BY <1>3, <1>4, <1>5

LEMMA UseResultStep ==
  ASSUME OptionsInv, UseResult
  PROVE  OptionsInv'
<1>1. SameProgram /\ pc = "parsed" /\ setup = ClientSetup /\ result' = result
      /\ argv' = argv /\ argc' = argc
  BY DEF UseResult, SameProgram
<1>2. /\ Context /\ Sensible /\ AllRead /\ DefaultsFit
      /\ Named(Len(setup.options)) /\ setup \in Setups
  BY <1>1 DEF OptionsInv, Sensible, Parsed, Context, Defined
<1>3. /\ OptionSet = {1, 2}
      /\ Detail(1) = String(<<"f">>, <<"t", "F">>, <<>>)
      /\ Detail(2) = String(<<"o">>, <<"o", "D">>, <<Word(<<"r">>)>>)
      /\ NamesOf(Detail(1)) = {<<"f">>, <<"t", "F">>}
      /\ NamesOf(Detail(2)) = {<<"o">>, <<"o", "D">>}
  BY <1>1, <1>2, ClientNames
<1>4. /\ Known(<<"f">>) /\ names[<<"f">>] = 1
      /\ Known(<<"t", "F">>) /\ names[<<"t", "F">>] = 1
      /\ Known(<<"o">>) /\ names[<<"o">>] = 2
  <2>1. 1 .. Len(setup.options) = {1, 2}
    BY <1>2, <1>3, Shapes
  <2>2. \A name \in NamesOf(Detail(1)) : Known(name) /\ names[name] = 1
    BY <1>2, <2>1 DEF Named
  <2>3. \A name \in NamesOf(Detail(2)) : Known(name) /\ names[name] = 2
    BY <1>2, <2>1 DEF Named
  <2> QED
    BY <1>3, <2>2, <2>3
<1>5. PICK n \in Nat, e \in Nat : n = LastPlace /\ e = End /\ e - 1 \in 0 .. n
  <2>1. LastPlace \in Nat /\ End \in Nat /\ End - 1 \in 0 .. LastPlace
    BY <1>2, EndIs DEF Context, LastPlace
  <2> QED
    BY <2>1
<1>6. PICK s \in Seq(Uses) : s = Settings[n]
  <2>1. n \in 0 .. LastPlace
    BY <1>5
  <2> QED
    BY <1>2, <2>1, SettingsAre
<1>7. ASSUME NEW o \in {1, 2}
      PROVE  /\ result.count[o] = Len(TextsOf(o, s))
             /\ result.value[o] = ValueFrom(o, AllDefaults[o] \o TextsOf(o, s))
             /\ AllDefaults[o] \in Seq(Texts) /\ TextsOf(o, s) \in Seq(Texts)
  <2>1. result.count[o] = Len(TextsOf(o, s))
    BY <1>2, <1>3, <1>5, <1>6 DEF AllRead, Matches
  <2>2. result.value[o] = ValueFrom(o, AllDefaults[o] \o TextsOf(o, s))
    BY <1>2, <1>3, <1>5, <1>6 DEF AllRead, Values
  <2>3. AllDefaults[o] \in Seq(Texts)
    BY <1>2, <1>3, DefaultsType DEF DefaultTexts
  <2> QED
    BY <1>6, <2>1, <2>2, <2>3, TextsType
<1>8. Detail(1).type = "string" /\ Detail(2).type = "string" /\ Detail(2).default # <<>>
  <2>1. \A x : <<x>> # <<>>
    OBVIOUS
  <2> QED
    BY <1>3, <2>1 DEF String
<1>9. CountOf(<<"t", "F">>) # 0 => HasValue(<<"f">>)
  <2> SUFFICES ASSUME CountOf(<<"t", "F">>) # 0
               PROVE  HasValue(<<"f">>)
    OBVIOUS
  <2>1. result.count[1] # 0
    BY <1>4 DEF CountOf
  <2>2. TextsOf(1, s) # <<>>
    <3>1. Len(<<>>) = 0
      OBVIOUS
    <3> QED
      BY <1>7, <2>1, <3>1
  <2>3. result.value[1] # <<>>
    BY <1>7, <1>8, <2>2, HasItsText
  <2> QED
    BY <1>4, <2>3 DEF HasValue
<1>10. HasValue(<<"o">>)
  <2>1. AllDefaults[2] # <<>> \/ TextsOf(2, s) # <<>>
    <3>1. CASE TextsOf(2, Settings[End - 1]) = <<>>
      <4>1. AllDefaults[2] = DefaultOf(2)
        BY <1>3 DEF AllDefaults
      <4> QED
        BY <1>8, <3>1, <4>1 DEF DefaultOf
    <3>2. CASE TextsOf(2, Settings[End - 1]) # <<>>
      BY <1>2, <1>5, <1>6, <3>2, SetStays
    <3> QED
      BY <3>1, <3>2
  <2>2. result.value[2] # <<>>
    BY <1>7, <1>8, <2>1, HasItsText
  <2> QED
    BY <1>4, <2>2 DEF HasValue
<1>11. pc' \in {"parsed", "idle", "construct"}
  BY <1>9, <1>10 DEF UseResult
<1>12. /\ Agrees(result, Settings[LastPlace], AllDefaults)
       /\ \A p \in 1 .. LastPlace : ~IsFaulty(p)
       /\ SubSeq(argv, 1, argc - 1) = LeftOver[LastPlace]
  BY <1>2 DEF AllRead, Agrees, OptionsInv
<1>13. PICK v, k, a : v = argv /\ k = nextKeep /\ a = argc
  OBVIOUS
<1>14. /\ v = argv' /\ k = nextKeep' /\ a = argc' /\ SubSeq(v, 1, a - 1) = LeftOver[LastPlace]
       /\ InBounds(result, v, k, a)
  BY <1>1, <1>12, <1>13 DEF OptionsInv, UseResult
<1> QED
  BY <1>1, <1>2, <1>11, <1>12, <1>14, ToParsed

LEMMA NothingHappens ==
  ASSUME OptionsInv, UNCHANGED vars
  PROVE  OptionsInv'
<1>1. /\ SameProgram /\ pc' = pc /\ result' = result /\ argv' = argv /\ argc' = argc
      /\ nextKeep' = nextKeep
  BY DEF vars, SameProgram
<1>2. setup \in Setups /\ given \in Seq(Texts) /\ result \in Results
  BY DEF OptionsInv
<1>3. PICK r, v, k, a : r = result /\ v = argv /\ k = nextKeep /\ a = argc
  OBVIOUS
<1>4. /\ r = result' /\ v = argv' /\ k = nextKeep' /\ a = argc'
      /\ r \in Results /\ r.defined = result.defined
  BY <1>1, <1>2, <1>3
<1>5. CASE pc = "define"
  <2>1. Defining
    BY <1>5 DEF OptionsInv
  <2>2. LastPlace' = LastPlace /\ OptionSet' = OptionSet
    BY <1>1, SameBasics
  <2>3. Named(result.defined)'
    BY <1>1, <2>1, SameAmbiguous DEF Defining, Named, Known, Detail, SameProgram
  <2>4. (result = FreshResult(result.defined))'
    BY <1>1, <2>1, <2>2 DEF Defining, FreshResult
  <2>5. Defining'
    BY <1>1, <2>1, <2>2, <2>3, <2>4 DEF Defining, SameProgram
  <2>6. (setup \in Setups /\ given \in Seq(Texts) /\ result \in Results)'
    BY <1>1, <1>2, <2>2 DEF SameProgram, Results, Uses
  <2>7. ~Parsed' /\ ~Sensible'
    BY <1>1, <1>5 DEF Parsed, Sensible
  <2> QED
    BY <1>1, <1>5, <2>5, <2>6, <2>7 DEF OptionsInv
<1>6. CASE pc = "arguments"
  <2>1. Defined /\ InArguments
    BY <1>6 DEF OptionsInv, Sensible
  <2>2. /\ ReadBefore(r, v, k, NoDefaults) /\ Ahead(r.current) /\ argc' = LastPlace + 1
        /\ \A o \in OptionSet : ~r.default[o]
    BY <1>1, <1>3, <2>1 DEF InArguments, NoneDefault
  <2> QED
    BY <1>1, <1>4, <1>6, <2>1, <2>2, ToArguments
<1>7. CASE pc = "defaults"
  <2>1. Sensible /\ InDefaults
    BY <1>7 DEF OptionsInv, Sensible
  <2>2. /\ ReadBefore(r, v, k, NoDefaults) /\ argc' = LastPlace + 1
        /\ r.current = LastPlace + 1 \/ End < r.current
        /\ Settings[r.current - 1] = Settings[End - 1]
        /\ \A o \in OptionSet : ~r.default[o]
    BY <1>1, <1>3, <2>1 DEF InDefaults, NoneDefault
  <2> QED
    BY <1>1, <1>4, <1>7, <2>1, <2>2, ToDefaults
<1>8. CASE pc = "rest"
  <2>1. Sensible /\ InRest /\ DefaultsFit
    BY <1>8 DEF OptionsInv, Sensible
  <2>2. /\ ReadBefore(r, v, k, AllDefaults) /\ argc' = LastPlace + 1
        /\ r.current = LastPlace + 1 \/ End < r.current
    BY <1>1, <1>3, <2>1 DEF InRest
  <2> QED
    BY <1>1, <1>4, <1>8, <2>1, <2>2, ToRest
<1>9. CASE Parsed
  <2>1. Sensible /\ AllRead /\ DefaultsFit /\ pc' \in {"parsed", "idle", "construct"}
    BY <1>1, <1>9 DEF OptionsInv, Sensible, Parsed
  <2>2. /\ Agrees(result, Settings[LastPlace], AllDefaults)
        /\ \A p \in 1 .. LastPlace : ~IsFaulty(p)
        /\ SubSeq(v, 1, a - 1) = LeftOver[LastPlace]
        /\ InBounds(result, v, k, a)
    BY <1>2, <1>3, <1>9, <2>1 DEF AllRead, Agrees, OptionsInv, Parsed
  <2> QED
    BY <1>1, <1>4, <2>1, <2>2, ToParsed
<1>10. CASE pc \notin {"define", "arguments", "defaults", "rest", "parsed", "idle", "construct"}
  <2>1. IsMistaken' <=> IsMistaken
    BY <1>1, SameMistakes
  <2>2. IsAmbiguous' <=> IsAmbiguous
    BY <1>1, SameAmbiguous
  <2>3. (setup \in Setups /\ given \in Seq(Texts) /\ result \in Results)'
    BY <1>1, <1>2, SameBasics DEF SameProgram, Results, Uses
  <2>4. ~Parsed' /\ ~Sensible'
    BY <1>1, <1>10 DEF Parsed, Sensible
  <2>5. pc' \in {"thrown", "usage"} => IsMistaken'
    BY <1>1, <2>1 DEF OptionsInv
  <2>6. pc' = "thrown" => (result.defined = Len(setup.options) \/ IsAmbiguous)'
    BY <1>1, <2>2 DEF OptionsInv, SameProgram
  <2>7. pc' = "terminated" => IsAmbiguous'
    BY <1>1, <2>2 DEF OptionsInv
  <2>8. InBounds(r, v, k, a) /\ k <= r.current
    BY <1>3, <1>10 DEF OptionsInv
  <2>9. InBounds(result, argv, nextKeep, argc)' /\ (nextKeep <= result.current)'
    BY <1>1, <1>4, <2>8, BoundsNext DEF SameProgram
  <2>10. pc' \in {"thrown", "usage", "terminated"}
    BY <1>1, <1>10 DEF OptionsInv
  <2> QED
    BY <1>1, <1>10, <2>3, <2>4, <2>5, <2>6, <2>7, <2>9, <2>10 DEF OptionsInv
<1> QED
  BY <1>5, <1>6, <1>7, <1>8, <1>9, <1>10 DEF Parsed

LEMMA OptionsNext ==
  ASSUME OptionsInv, [Next]_vars
  PROVE  OptionsInv'
<1>1. Next \/ UNCHANGED vars
  OBVIOUS
<1>2. CASE UNCHANGED vars
  BY <1>2, NothingHappens
<1>3. CASE AddOption
  BY <1>3, AddOptionStep
<1>4. CASE StartParse
  BY <1>4, StartParseStep
<1>5. CASE Terminator
  BY <1>5, TerminatorStep
<1>6. CASE NoFlag
  BY <1>6, NoFlagStep
<1>7. CASE ShortOptions
  BY <1>7, ShortOptionsStep
<1>8. CASE UnknownLongOption
  BY <1>8, UnknownLongOptionStep
<1>9. CASE LongOption
  BY <1>9, LongOptionStep
<1>10. CASE EndOfArguments
  BY <1>10, EndOfArgumentsStep
<1>11. CASE Defaults
  BY <1>11, DefaultsStep
<1>12. CASE ConsumeRest
  BY <1>12, ConsumeRestStep
<1>13. CASE KeepRest
  BY <1>13, KeepRestStep
<1>14. CASE Catch
  BY <1>14, CatchStep
<1>15. CASE UseResult
  BY <1>15, UseResultStep
<1> QED
  BY <1>1, <1>2, <1>3, <1>4, <1>5, <1>6, <1>7, <1>8, <1>9, <1>10, <1>11, <1>12, <1>13, <1>14, <1>15
     DEF Next, Parse

-----------------------------------------------------------------------------
(* What a command line means                                               *)

LEMMA Understood == Spec => []OptionsInv
<1>1. OptionsInv /\ [Next]_vars => OptionsInv'
  BY OptionsNext
<1> QED
  BY OptionsInit, <1>1, PTL DEF Spec

\* Options that have been defined are told apart by their names.
LEMMA NotAmbiguous ==
  ASSUME setup \in Setups, Named(Len(setup.options))
  PROVE  ~IsAmbiguous
<1> SUFFICES ASSUME NEW o \in OptionSet,
                    \/ Malformed(Detail(o))
                    \/ \E other \in OptionSet \ {o} :
                          NamesOf(Detail(o)) \intersect NamesOf(Detail(other)) # {}
             PROVE  FALSE
  BY DEF IsAmbiguous
<1>1. OptionSet = 1 .. Len(setup.options)
  BY Shapes
<1>2. ~Malformed(Detail(o))
  BY <1>1 DEF Named
<1>3. PICK other \in OptionSet \ {o} : NamesOf(Detail(o)) \intersect NamesOf(Detail(other)) # {}
  BY <1>2
<1>4. PICK name : name \in NamesOf(Detail(o)) /\ name \in NamesOf(Detail(other))
  BY <1>3
<1>5. names[name] = o /\ names[name] = other
  BY <1>1, <1>3, <1>4 DEF Named
<1> QED
  BY <1>3, <1>5

\* After a parse every option has the texts that the arguments meant for it by
\* their places, or its default, a list the words of them, the uses are in their
\* order, and the texts and long options that were left are at the start of argv
\* in their order, for every program and every command line:
\* ParseResult::parse reads left to right what is meant by place.
THEOREM ArgumentsMean == Spec => []MeansArguments
<1>1. OptionsInv => MeansArguments
  <2> SUFFICES ASSUME OptionsInv, Parsed
               PROVE  /\ result.sequential = Settings[LastPlace]
                      /\ \A o \in OptionSet :
                            /\ result.count[o] = Len(TextsOf(o, Settings[LastPlace]))
                            /\ result.value[o] = ValueOf(o)
                      /\ SubSeq(argv, 1, argc - 1) = LeftOver[LastPlace]
    BY DEF MeansArguments
  <2>1. AllRead
    BY DEF OptionsInv
  <2>2. result.sequential = Settings[LastPlace] /\ SubSeq(argv, 1, argc - 1) = LeftOver[LastPlace]
    BY <2>1 DEF AllRead, Matches
  <2>3. ASSUME NEW o \in OptionSet
        PROVE  result.count[o] = Len(TextsOf(o, Settings[LastPlace])) /\ result.value[o] = ValueOf(o)
    <3>1. result.count[o] = Len(TextsOf(o, Settings[LastPlace]))
      BY <2>1 DEF AllRead, Matches
    <3>2. result.value[o] = ValueFrom(o, AllDefaults[o] \o TextsOf(o, Settings[LastPlace]))
      BY <2>1 DEF AllRead, Values
    <3>3. AllDefaults[o] = DefaultOf(o)
      BY DEF AllDefaults
    <3>4. ValueOf(o) = ValueFrom(o, DefaultOf(o) \o TextsOf(o, Settings[LastPlace]))
      BY DEF ValueOf, ValueFrom
    <3> QED
      BY <3>1, <3>2, <3>3, <3>4
  <2> QED
    BY <2>2, <2>3
<1> QED
  BY Understood, <1>1, PTL

\* The parser throws only for options that cannot be told apart, for an argument
\* that makes no sense at its place, or for a default that its option does not
\* take, and whenever there is one: no exception is lost, and none comes without
\* a reason.
THEOREM FailuresHaveReasons == Spec => []FailsForAReason
<1>1. OptionsInv => FailsForAReason
  <2> SUFFICES ASSUME OptionsInv
               PROVE  FailsForAReason
    OBVIOUS
  <2>1. ASSUME Parsed
        PROVE  ~IsMistaken
    <3>1. AllRead /\ Defined /\ setup \in Setups /\ DefaultsFit
      BY <2>1 DEF OptionsInv, Sensible, Parsed
    <3> QED
      BY <3>1, NotAmbiguous DEF AllRead, Defined, DefaultsFit, IsMistaken
  <2>2. pc \in {"thrown", "usage", "terminated"} => IsMistaken
    BY DEF OptionsInv, IsMistaken
  <2> QED
    BY <2>1, <2>2 DEF FailsForAReason
<1> QED
  BY Understood, <1>1, PTL

\* The client never ends by an exception of its options that main does not
\* catch: its definitions are in order, and as<string>() finds a value.
THEOREM ClientAlwaysServed == Spec => []ClientServed
<1>1. OptionsInv => ClientServed
  <2> SUFFICES ASSUME OptionsInv, setup = ClientSetup, pc = "terminated"
               PROVE  FALSE
    BY DEF ClientServed
  <2>1. IsAmbiguous /\ setup \in Setups
    BY DEF OptionsInv
  <2> QED
    BY <2>1, ClientNames
<1> QED
  BY Understood, <1>1, PTL

\* The places in argv stay in bounds wherever the parser is: what is kept
\* never overtakes what is read, the loop that ends at argc does not step over
\* it, and no option but a list has more than one value.
THEOREM PlacesInBounds == Spec => []TypeOK
<1>1. OptionsInv => TypeOK
  <2> SUFFICES ASSUME OptionsInv
               PROVE  TypeOK
    OBVIOUS
  <2>1. PICK n \in Nat : n = LastPlace /\ n = Len(given)
    BY DEF OptionsInv, LastPlace
  <2>2. /\ InBounds(result, argv, nextKeep, argc)
        /\ ~Parsed => nextKeep <= result.current
    <3>1. CASE pc = "define"
      BY <3>1, DefiningInBounds DEF OptionsInv
    <3>2. CASE pc = "arguments"
      <4>1. InArguments /\ Context /\ result \in Results
        BY <3>2 DEF OptionsInv, Sensible, Defined, Context
      <4> QED
        BY <4>1, ReadArguments DEF InArguments
    <3>3. CASE pc = "defaults"
      <4>1. InDefaults /\ Context /\ result \in Results
        BY <3>3 DEF OptionsInv, Sensible, Defined, Context
      <4> QED
        BY <4>1, ReadArguments DEF InDefaults
    <3>4. CASE pc = "rest"
      BY <3>4, RestInBounds
    <3>5. CASE pc \in {"parsed", "idle", "construct", "thrown", "usage", "terminated"}
      BY <3>5 DEF OptionsInv, Parsed
    <3> QED
      BY <3>1, <3>2, <3>3, <3>4, <3>5 DEF OptionsInv
  <2>3. 1 <= nextKeep /\ nextKeep <= argc /\ argc <= Len(given) + 1
    BY <2>1, <2>2 DEF InBounds
  <2>4. result.current <= Len(given) + 1 /\ Len(argv) = Len(given)
    BY <2>1, <2>2 DEF InBounds
  <2>5. \A o \in OptionSet : ~IsContainer(o) => Len(result.value[o]) <= 1
    BY <2>2 DEF InBounds, Lengths
  <2>6. result.error \in SpecErrors \union ParseErrors \union {"none"}
    BY DEF OptionsInv, Results, Errors
  <2> QED
    BY <2>2, <2>3, <2>4, <2>5, <2>6 DEF TypeOK, OptionsInv
<1> QED
  BY Understood, <1>1, PTL
===============================================================================
