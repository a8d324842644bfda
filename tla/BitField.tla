------------------------------- MODULE BitField -------------------------------
(***************************************************************************)
(* A peer's bit field and the two functions of utils.cpp that read and     *)
(* write it.  The byte string is abstracted to its size in bytes and the   *)
(* set of positions whose bit is 1.                                        *)
(***************************************************************************)
EXTENDS Integers

CONSTANT ByteBits   \* bits in a byte of the bit field: 8

ASSUME ByteBitsAssumption == ByteBits \in Nat \ {0}

BitFields == [size : Nat, bits : SUBSET Nat]

\* The string receiveBitField returns when the message is not a bit field.
EmptyBitField == [size |-> 0, bits |-> {}]

\* Mutant of InRange: the byte index is rounded up.
InRangeRoundedUp(bitField, n) == (n + ByteBits - 1) \div ByteBits < bitField.size

\* bitField.at(n / 8) throws std::out_of_range unless this holds.
InRange(bitField, n) == n \div ByteBits < bitField.size

\* Bit n, for n in range.
GetBit(bitField, n) == n \in bitField.bits

\* Mutant of SetBit: bits are numbered from the low end of the byte.
SetBitFromLowEnd(bitField, n) ==
    [bitField EXCEPT !.bits =
        @ \cup {(n \div ByteBits) * ByteBits + ByteBits - 1 - (n % ByteBits)}]

\* Set bit n, for n in range.
SetBit(bitField, n) == [bitField EXCEPT !.bits = @ \cup {n}]
=============================================================================
