---------------------------------- MODULE Hex ----------------------------------
(* The two ways between bytes and hexadecimal digits: SHA1::final writes     *)
(* them, hexDecode reads them.  A character is its code.                     *)
EXTENDS Integers, Sequences, SequencesExt

Digit0 == 48
LetterA == 65
Lettera == 97

HexDigit(n) == IF n < 10 THEN Digit0 + n ELSE Lettera + n - 10

\* std::hex with setw(2) and setfill('0').
HexText(bytes) ==
    [k \in 1 .. 2 * Len(bytes) |->
        LET byte == bytes[(k + 1) \div 2]
        IN  HexDigit(IF k % 2 = 1 THEN byte \div 16 ELSE byte % 16)]

\* strtol stops at the first character that is no digit.
DigitValue(c) ==
    IF c \in Digit0 .. Digit0 + 9 THEN c - Digit0
    ELSE IF c \in Lettera .. Lettera + 5 THEN c - Lettera + 10
    ELSE IF c \in LetterA .. LetterA + 5 THEN c - LetterA + 10 ELSE -1

StrToL(s) ==
    LET value[k \in 0 .. Len(s)] ==
          IF k = 0 THEN 0 ELSE 16 * value[k - 1] + DigitValue(s[k])
        stops == {k \in DOMAIN s : DigitValue(s[k]) < 0}
    IN  value[IF stops = {} THEN Len(s) ELSE Min(stops) - 1]

\* Mutant of HexDecode: one digit after the other.
HexDecodeDigits(s) == [k \in 1 .. Len(s) |-> StrToL(SubSeq(s, k, k))]

\* Two digits at a time; a last one that is alone is a byte of its own.
HexDecode(s) ==
    [k \in 1 .. (Len(s) + 1) \div 2 |->
        StrToL(SubSeq(s, 2 * k - 1, IF 2 * k > Len(s) THEN Len(s) ELSE 2 * k))]

================================================================================
