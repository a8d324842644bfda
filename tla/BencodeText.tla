------------------------------ MODULE BencodeText ------------------------------
(***************************************************************************)
(* The encoder of the bencode library, a recursive operator over the       *)
(* values, the decoder on what it writes, and what texts mean.             *)
(***************************************************************************)
EXTENDS Bencode

CONSTANT Values    \* values whose encodings are tried

-----------------------------------------------------------------------------
(* The encoder                                                             *)

NatText(n) ==
    LET digits[k \in Nat] ==
          IF k < 10 THEN <<Zero + k>> ELSE Append(digits[k \div 10], Zero + (k % 10))
    IN  digits[n]

\* Mutant of WriteInteger: the sign is lost.
WriteIntegerUnsigned(n) == NatText(IF n < 0 THEN -n ELSE n)

WriteInteger(n) == IF n < 0 THEN <<Minus>> \o NatText(-n) ELSE NatText(n)

\* The order of std::map<string, ...>.
Before(s, t) ==
    \/ IsStrictPrefix(s, t)
    \/ \E k \in 1 .. Len(s) :
          /\ k <= Len(t) /\ s[k] < t[k]
          /\ SubSeq(s, 1, k - 1) = SubSeq(t, 1, k - 1)

EncodeString(s) == WriteInteger(Len(s)) \o <<Colon>> \o s

RECURSIVE Encode(_)
Encode(v) ==
    CASE Is("int", v)  -> <<CharI>> \o WriteInteger(v.int) \o <<CharE>>
      [] Is("str", v)  -> EncodeString(v.str)
      [] Is("list", v) ->
           <<CharL>> \o FlattenSeq([i \in DOMAIN v.list |-> Encode(v.list[i])]) \o <<CharE>>
      [] Is("dict", v) ->
           LET keys == SetToSortSeq(DOMAIN v.dict, Before)
           IN  <<CharD>>
               \o FlattenSeq([i \in DOMAIN keys |->
                                EncodeString(keys[i]) \o Encode(v.dict[keys[i]])])
               \o <<CharE>>

\* The least relations that obey the rules of the grammar.
RECURSIVE Meaning(_, _), Beginning(_, _)
Meaning(t, v) == Derives(t, v, Beginning)
Beginning(t, v) == Starts(t, v, Meaning, Beginning)

-----------------------------------------------------------------------------
(* Properties                                                              *)

Encodings == {<<Encode(v), v>> : v \in Values}

\* What the encoder writes is read: no character of it is refused, the decoder
\* stops with the last one, and returns the value that was written.
AcceptsEncodings ==
    [][\A e \in Encodings :
          text' # text /\ IsPrefix(text', e[1]) =>
            /\ outcome' # "failed"
            /\ outcome' = "done" <=> text' = e[1]
            /\ outcome' = "done" => result' = e[2]]_decoder
================================================================================
