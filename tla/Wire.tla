---------------------------------- MODULE Wire ----------------------------------
(***************************************************************************)
(* The bytes of messages: BitTorrentMessage, Messenger, and bytesToInt.    *)
(***************************************************************************)
EXTENDS Integers, Sequences, Hex

CONSTANTS
    Base,       \* values of a byte: 256
    LengthSize, \* bytes of a number, and of the length of a message: 4
    IntLimit    \* stoi throws for numbers from here on: 2^31

\* The numbers that LengthSize bytes can tell apart.
Capacity ==
    LET power[k \in 0 .. LengthSize] == IF k = 0 THEN 1 ELSE Base * power[k - 1]
    IN  power[LengthSize]

ASSUME WireAssumption ==
    /\ Base \in Nat /\ Base > 1
    /\ LengthSize \in Nat \ {0} /\ IntLimit \in Nat \ {0}
    /\ IntLimit <= Capacity

\* MessageId
Choke == 0
Unchoke == 1
Interested == 2
Have == 4
BitField == 5
Request == 6
Piece == 7

\* The number the digits make, most significant first.  IntLimit stands for all
\* numbers from there on, for which stoi throws, as it does for no digits.
BytesToInt(digits) ==
    LET number[k \in 0 .. Len(digits)] ==
          IF k = 0 THEN 0
          ELSE LET n == number[k - 1] * Base + digits[k] IN IF n < IntLimit THEN n ELSE IntLimit
    IN  number[Len(digits)]

BytesToIntThrows(digits) == digits = <<>> \/ BytesToInt(digits) = IntLimit

\* htonl, and the loop of toString over a number of the machine.
IntBytes(n) ==
    LET rest[k \in 0 .. LengthSize] == IF k = 0 THEN n ELSE rest[k - 1] \div Base
    IN  [k \in 1 .. LengthSize |-> rest[LengthSize - k] % Base]

MessageString(id, payload) == IntBytes(Len(payload) + 1) \o <<id>> \o payload

CreateHandshake(pstr, reserved, infoHash, peerId) ==
    <<Len(pstr)>> \o pstr \o [k \in 1 .. reserved |-> 0] \o HexDecode(infoHash) \o peerId

CreateInterested == MessageString(Interested, <<>>)

\* Mutant of CreateRequest: without htonl.
CreateRequestUnswapped(index, offset, size) ==
    MessageString(Request,
                  Reverse(IntBytes(index)) \o Reverse(IntBytes(offset)) \o Reverse(IntBytes(size)))

CreateRequest(index, offset, size) ==
    MessageString(Request, IntBytes(index) \o IntBytes(offset) \o IntBytes(size))

\* BitTorrentMessage(const string&); a char above 127 is negative.
Id(data) == IF 2 * data[1] >= Base THEN data[1] - Base ELSE data[1]

\* Mutant of Payload: the identifier is left in.
PayloadWithId(data) == data

Payload(data) == SubSeq(data, 2, Len(data))

=================================================================================
