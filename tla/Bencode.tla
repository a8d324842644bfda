-------------------------------- MODULE Bencode --------------------------------
(***************************************************************************)
(* The decoder of the bencode library as the stack machine it is, one      *)
(* action per character.  The text is chosen while it is read.  A          *)
(* character is its code; a value is a record with one field, int, str,    *)
(* list or dict.                                                           *)
(***************************************************************************)
EXTENDS Integers, Sequences, SequencesExt

CONSTANTS
    IntDigits, MaxInt,    \* digits10 and max of integer: 18, 2^63 - 1
    SizeDigits, MaxSize,  \* digits10 and max of size_t: 19, 2^64 - 1
    Alphabet,             \* characters of texts that are read freely
    FreeLength,           \* bounds the length of such texts
    Texts,                \* longer texts that are read
    Means(_, _),          \* the texts of a value, and of a list or dict without
    Begins(_, _)          \* its end, by the rules of the grammar below

Characters == 0 .. 255

\* The largest number of n digits.
Nines[n \in 0 .. IntDigits + SizeDigits] == IF n = 0 THEN 0 ELSE 10 * Nines[n - 1] + 9

ASSUME BencodeAssumption ==
    /\ IntDigits \in Nat \ {0} /\ SizeDigits \in Nat \ {0}
    /\ MaxInt \in Nat /\ Nines[IntDigits] <= MaxInt
    /\ MaxSize \in Nat /\ Nines[SizeDigits] <= MaxSize
    /\ Alphabet \subseteq Characters /\ Texts \subseteq Seq(Characters)

VARIABLES
    text,     \* the characters read so far
    outcome,  \* "reading", "done", or "failed" by an exception
    at,       \* "turn" of the loop, "value", "sign", "number" or "bytes"
    number,   \* decode_digits: what for, sign, value and count of digits
    chars,    \* decode_str: the characters of the string
    missing,  \* decode_str: how many are still to come
    key,      \* dict_key
    stack,    \* the open lists and dicts, with their keys in the next outer one
    result    \* the root node

decoder == <<text, outcome, at, number, chars, missing, key, stack, result>>

Zero == 48
Digits == 48 .. 57
Minus == 45
Colon == 58
CharD == 100
CharE == 101
CharI == 105
CharL == 108

\* The values of the four types.
IntOf(n)  == [int |-> n]
StrOf(s)  == [str |-> s]
ListOf(s) == [list |-> s]
DictOf(f) == [dict |-> f]
Is(type, v) == type \in DOMAIN v

EmptyDict == DictOf([k \in {} |-> 0])

-----------------------------------------------------------------------------
(* The decoder                                                             *)

Init ==
    /\ text = <<>>
    /\ outcome = "reading"
    /\ at = "turn"
    /\ number = [for |-> "int", sign |-> 1, value |-> 0, count |-> 0]
    /\ chars = <<>> /\ missing = 0
    /\ key = <<>>
    /\ stack = <<>>
    /\ result = IntOf(0)

Fail == outcome' = "failed" /\ UNCHANGED <<at, number, chars, missing, key, stack, result>>

Top == Head(stack)
InDict == stack # <<>> /\ Is("dict", Top.value)
Taken == InDict /\ key \in DOMAIN Top.value.dict

\* A container with one more element, under k if it is a dict.
Insert(container, k, v) ==
    IF Is("list", container) THEN ListOf(Append(container.list, v))
    ELSE DictOf([j \in DOMAIN container.dict \union {k} |->
                    IF j = k THEN v ELSE container.dict[j]])

\* Mutant of Close: what was read last is the result.
CloseAsResult ==
    /\ result' = Top.value
    /\ stack' = Tail(stack)
    /\ outcome' = IF Len(stack) = 1 THEN "done" ELSE "reading"
    /\ at' = "turn"
    /\ UNCHANGED <<number, chars, missing, key>>

\* The top of the stack is complete.  The code has stored it when it was
\* opened, through a pointer that stays valid; nothing reads it until here.
Close ==
    /\ IF Len(stack) = 1
         THEN result' = Top.value /\ stack' = <<>> /\ outcome' = "done"
         ELSE /\ LET outer == stack[2]
                 IN  stack' = <<[outer EXCEPT !.value = Insert(@, Top.key, Top.value)]>>
                              \o SubSeq(stack, 3, Len(stack))
              /\ UNCHANGED <<result, outcome>>
    /\ at' = "turn"
    /\ UNCHANGED <<number, chars, missing, key>>

\* store() of a value without elements.
Store(v) ==
    \/ /\ stack = <<>>
       /\ result' = v /\ outcome' = "done" /\ at' = "turn"
       /\ UNCHANGED <<number, chars, missing, key, stack>>
    \/ /\ stack # <<>> /\ ~Taken
       /\ stack' = <<[Top EXCEPT !.value = Insert(@, key, v)]>> \o Tail(stack)
       /\ at' = "turn"
       /\ UNCHANGED <<outcome, number, chars, missing, key, result>>
    \/ Taken /\ Fail

\* store() of an empty list or dict, which is filled next.
Open(container) ==
    \/ /\ ~Taken
       /\ stack' = <<[value |-> container, key |-> key]>> \o stack
       /\ at' = "turn"
       /\ UNCHANGED <<outcome, number, chars, missing, key, result>>
    \/ Taken /\ Fail

StartNumber(for, place, value, count) ==
    /\ at' = place
    /\ number' = [for |-> for, sign |-> 1, value |-> value, count |-> count]
    /\ UNCHANGED <<outcome, chars, missing, key, stack, result>>

ReadValue(c) ==
    \/ c = CharI /\ StartNumber("int", "sign", 0, 0)
    \/ c = CharL /\ Open(ListOf(<<>>))
    \/ c = CharD /\ Open(EmptyDict)
    \/ c \in Digits /\ StartNumber("str", "number", c - Zero, 1)
    \/ c \notin {CharI, CharL, CharD} \union Digits /\ Fail

Turn(c) ==
    /\ at = "turn"
    /\ \/ c = CharE /\ stack # <<>> /\ Close
       \/ c = CharE /\ stack = <<>> /\ Fail
       \/ c # CharE /\ InDict /\ c \in Digits /\ StartNumber("key", "number", c - Zero, 1)
       \/ c # CharE /\ InDict /\ c \notin Digits /\ Fail
       \/ c # CharE /\ ~InDict /\ ReadValue(c)

ValueOfKey(c) == at = "value" /\ ReadValue(c)

Sign(c) ==
    /\ at = "sign" /\ c = Minus
    /\ at' = "number"
    /\ number' = [number EXCEPT !.sign = -1]
    /\ UNCHANGED <<outcome, chars, missing, key, stack, result>>

InRange(n) ==
    IF number.for = "int" THEN n \in -MaxInt - 1 .. MaxInt ELSE n <= MaxSize

SafeDigits == IF number.for = "int" THEN IntDigits ELSE SizeDigits

\* Mutant of Fits: the last digit is not checked.
FitsUnchecked(n) == number.count <= SafeDigits

\* decode_digits takes as many digits as fit for sure, and one with a check.
Fits(n) == \/ number.count < SafeDigits
           \/ number.count = SafeDigits /\ InRange(n)

Digit(c) ==
    /\ at \in {"sign", "number"} /\ c \in Digits
    /\ LET n == 10 * number.value + number.sign * (c - Zero) IN
         \/ /\ Fits(n)
            /\ at' = "number"
            /\ number' = [number EXCEPT !.value = n, !.count = @ + 1]
            /\ UNCHANGED <<outcome, chars, missing, key, stack, result>>
         \/ ~Fits(n) /\ Fail

\* decode_str has all characters of a string, which is a key or a value.
StringRead(s) ==
    \/ /\ number.for = "key"
       /\ key' = s /\ at' = "value"
       /\ UNCHANGED <<outcome, number, chars, missing, stack, result>>
    \/ /\ number.for = "str"
       /\ Store(StrOf(s))

NumberEnds(c) ==
    /\ at \in {"sign", "number"} /\ c \notin Digits /\ ~(at = "sign" /\ c = Minus)
    /\ \/ number.for = "int" /\ c = CharE /\ Store(IntOf(number.value))
       \/ number.for # "int" /\ c = Colon /\ number.value = 0 /\ StringRead(<<>>)
       \/ /\ number.for # "int" /\ c = Colon /\ number.value > 0
          /\ at' = "bytes" /\ chars' = <<>> /\ missing' = number.value
          /\ UNCHANGED <<outcome, number, key, stack, result>>
       \/ c # (IF number.for = "int" THEN CharE ELSE Colon) /\ Fail

Byte(c) ==
    /\ at = "bytes"
    /\ \/ /\ missing > 1
          /\ chars' = Append(chars, c) /\ missing' = missing - 1
          /\ UNCHANGED <<outcome, at, number, key, stack, result>>
       \/ missing = 1 /\ StringRead(Append(chars, c))

\* The texts that are tried.
MayFollow(c) ==
    \/ c \in Alphabet /\ Len(text) < FreeLength
    \/ \E t \in Texts : IsPrefix(Append(text, c), t)

ReadCharacter ==
    /\ outcome = "reading"
    /\ \E c \in Alphabet \union UNION {ToSet(t) : t \in Texts} :
          /\ MayFollow(c)
          /\ text' = Append(text, c)
          /\ Turn(c) \/ ValueOfKey(c) \/ Sign(c) \/ Digit(c) \/ NumberEnds(c) \/ Byte(c)

\* Wherever the text ends, an exception tells it.
EndOfInput == outcome = "reading" /\ text' = text /\ Fail

Decode == ReadCharacter \/ EndOfInput

-----------------------------------------------------------------------------
(* What a text means.  Derives and Starts are the rules of the grammar, for  *)
(* a value and for the beginning of a list or dict, over what shorter texts  *)
(* mean and begin; Means and Begins are relations with all that the rules    *)
(* give.  They are as lenient as the code: zeros in front, no digits at all, *)
(* keys in any order.                                                        *)

NumberOf(digits) ==
    LET value[k \in 0 .. Len(digits)] ==
          IF k = 0 THEN 0 ELSE 10 * value[k - 1] + (digits[k] - Zero)
    IN  value[Len(digits)]

AllDigits(s) == \A k \in DOMAIN s : s[k] \in Digits

IsNumeral(s, n) ==
    \/ AllDigits(s) /\ n = NumberOf(s)
    \/ s # <<>> /\ Head(s) = Minus /\ AllDigits(Tail(s)) /\ n = -NumberOf(Tail(s))

UpTo(t, k) == SubSeq(t, 1, k)
Behind(t, k) == SubSeq(t, k + 1, Len(t))
Without(f, name) == [n \in DOMAIN f \ {name} |-> f[n]]

Derives(t, v, begins(_, _)) ==
    \/ /\ Is("int", v) /\ t # <<>> /\ Head(t) = CharI /\ Last(t) = CharE
       /\ IsNumeral(SubSeq(t, 2, Len(t) - 1), v.int)
    \/ /\ Is("str", v)
       /\ \E k \in 2 .. Len(t) :
             /\ t[k] = Colon /\ AllDigits(UpTo(t, k - 1))
             /\ NumberOf(UpTo(t, k - 1)) = Len(t) - k
             /\ Behind(t, k) = v.str
    \/ t # <<>> /\ Last(t) = CharE /\ begins(Front(t), v)

Starts(t, v, means(_, _), begins(_, _)) ==
    \/ t = <<CharL>> /\ v = ListOf(<<>>)
    \/ t = <<CharD>> /\ v = EmptyDict
    \/ /\ Is("list", v) /\ v.list # <<>>
       /\ \E k \in 1 .. Len(t) : /\ means(Behind(t, k), Last(v.list))
                                 /\ begins(UpTo(t, k), ListOf(Front(v.list)))
    \/ /\ Is("dict", v)
       /\ \E name \in DOMAIN v.dict, k \in 1 .. Len(t) :
             /\ means(Behind(t, k), v.dict[name])
             /\ \E j \in 1 .. k : /\ means(SubSeq(t, j + 1, k), StrOf(name))
                                  /\ begins(UpTo(t, j), DictOf(Without(v.dict, name)))

\* What the rules give is meant.
GrammarRules ==
    \A t \in Seq(Characters) : \A v :
       (Derives(t, v, Begins) => Means(t, v)) /\ (Starts(t, v, Means, Begins) => Begins(t, v))

\* What the decoder returns is what the text it has read means.
DecodesGrammar == outcome = "done" => Means(text, result)

=============================================================================
