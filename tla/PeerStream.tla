------------------------------ MODULE PeerStream ------------------------------
(***************************************************************************)
(* PeerConnector::receiveData over a TCP connection: the bytes of a        *)
(* handshake and of length-prefixed messages arrive in pieces of any size, *)
(* and recv takes what is there.  A byte is a number below Base.           *)
(***************************************************************************)
EXTENDS Wire

CONSTANTS
    MaxReceiveSize,   \* MAX_RECEIVE_SIZE
    Pieces,           \* totalPieces
    Protocol,         \* the bytes of "BitTorrent protocol"
    Reserved,         \* the number of bytes 0 behind it: 8
    Digest,           \* the bytes of the info-hash
    PeerId,           \* TorrentDownloader::peerId
    Reply,            \* the handshake of the peer
    Conversations,    \* what the peer may say then
    Requests          \* index, offset and size of what the client asks for

\* TorrentFile::InfoHash, in hexadecimal digits.
InfoHash == HexText(Digest)

HandshakeMessage == CreateHandshake(Protocol, Reserved, InfoHash, PeerId)
HandshakeSize == Len(HandshakeMessage)

Bytes == Seq(0 .. Base - 1)

\* A message has an identifier (-1 for a keep-alive, which has no byte), the
\* numbers behind it and the rest of its bytes.
PeerMessages ==
    [id : -1 .. (Base - 1) \div 2, fields : Seq(0 .. IntLimit - 1), data : Bytes]

\* Numbers, one behind the other.
FieldBytes(fields) ==
    [n \in 1 .. LengthSize * Len(fields) |->
        IntBytes(fields[(n - 1) \div LengthSize + 1])[((n - 1) % LengthSize) + 1]]

Body(m) ==
    IF m.id = -1 THEN <<>>
    ELSE <<m.id>> \o FieldBytes(m.fields) \o m.data

\* The lengths of all messages, as of what the client sends, are ints; hexDecode
\* makes bytes up to 255.
ASSUME StreamAssumption ==
    /\ 256 <= Base /\ 1 + 3 * LengthSize < IntLimit
    /\ Protocol \in Bytes /\ Len(Protocol) < Base /\ Reserved \in Nat
    /\ Digest \in Seq(0 .. 255) /\ PeerId \in Bytes
    /\ MaxReceiveSize \in Nat /\ HandshakeSize <= MaxReceiveSize
    /\ Pieces \in Nat \ {0}
    /\ Reply \in Bytes /\ Len(Reply) = HandshakeSize
    /\ Conversations \subseteq Seq(PeerMessages)
    /\ \A conversation \in Conversations : \A k \in DOMAIN conversation :
          Len(Body(conversation[k])) < IntLimit
    /\ Requests \in Seq([1 .. 3 -> 0 .. IntLimit - 1])

VARIABLES
    pc,          \* "length", "body", "failed" or "terminated"
    size,        \* receiveData: bytes of the message
    bytesToRead, \* receiveData: bytes of it still missing
    reply,       \* receiveData: bytes read
    received,    \* what receiveData has returned so far
    sent,        \* messages the peer has sent
    wire,        \* bytes on their way
    buffer,      \* bytes in the receive buffer of the socket
    messages,    \* what the peer says, message by message
    asked,       \* messages the client has sent after its handshake
    outgoing     \* the bytes it has sent

client == <<asked, outgoing>>
vars == <<pc, size, bytesToRead, reply, received, sent, wire, buffer, messages, client>>

Smaller(a, b) == IF a < b THEN a ELSE b

Bodies == <<Reply>> \o [k \in DOMAIN messages |-> Body(messages[k])]

Frame(body) == IntBytes(Len(body)) \o body

\* The pieces a bit field has a bit for.
Room(field) == 8 * Len(field)

\* What downloadPiece makes of a message; substr takes what is there.
Understood(data) ==
    LET payload == Payload(data)
        Field(k) == SubSeq(payload, (k - 1) * LengthSize + 1,
                           Smaller(k * LengthSize, Len(payload)))
    IN  [id |-> Id(data),
         fields |-> CASE Id(data) = Have  -> <<BytesToInt(payload)>>
                      [] Id(data) = Piece -> <<BytesToInt(Field(1)), BytesToInt(Field(2))>>
                      [] OTHER            -> <<>>,
         data |-> CASE Id(data) = Have  -> <<>>
                    [] Id(data) = Piece -> SubSeq(payload, 2 * LengthSize + 1, Len(payload))
                    [] OTHER            -> payload]

\* bytesToInt throws, and so does substr beyond the end.
Unreadable(data) ==
    \/ Id(data) = Have /\ BytesToIntThrows(Payload(data))
    \/ Id(data) = Piece /\ Len(Payload(data)) < 2 * LengthSize
    \/ IntLimit \in Range(Understood(data).fields)

\* at() throws for bits beyond the bytes of the field: setBit of a have, and
\* getBit of the piece after the one that the last block completes.
LeavesField(data) ==
    LET room == Room(Payload(received[2]))
    IN  \/ Id(data) = Have /\ room <= BytesToInt(Payload(data))
        \/ Id(data) = Piece /\ room <= Pieces

MayThrow(data) == Unreadable(data) \/ LeavesField(data)

\* A place of which some bytes are there may be another than the one waited
\* for: the missing block is not looked at then; and a block need not be the
\* last one of the last piece.
MayProceed(data) ==
    MayThrow(data) =>
        /\ Id(data) = Piece /\ Len(Payload(data)) > LengthSize
        /\ IntLimit \notin Range(Understood(data).fields)

-----------------------------------------------------------------------------
\* handshake() calls receiveData with the size of the handshake.
Init ==
    /\ pc = "body"
    /\ size = HandshakeSize
    /\ bytesToRead = HandshakeSize
    /\ reply = <<>>
    /\ received = <<>>
    /\ sent = 0
    /\ wire = <<>>
    /\ buffer = <<>>
    /\ messages \in Conversations
    /\ asked = 0
    /\ outgoing = HandshakeMessage

\* The peer sends the next message, whether or not the last one was read.
PeerSends ==
    /\ sent < Len(Bodies)
    /\ sent' = sent + 1
    /\ wire' = wire \o (IF sent = 0 THEN Bodies[1] ELSE Frame(Bodies[sent + 1]))
    /\ UNCHANGED <<pc, size, bytesToRead, reply, received, buffer, messages, client>>

\* TCP brings some of the bytes, in order: a part of a message, or several.
Arrive ==
    /\ \E n \in 1 .. Len(wire) :
          /\ buffer' = buffer \o SubSeq(wire, 1, n)
          /\ wire' = SubSeq(wire, n + 1, Len(wire))
    /\ UNCHANGED <<pc, size, bytesToRead, reply, received, sent, messages, client>>

\* poll() gives up, before a message or in the middle of one.
TimesOut ==
    /\ pc \in {"length", "body"}
    /\ buffer = <<>>
    /\ pc' = "failed"
    /\ UNCHANGED <<size, bytesToRead, reply, received, sent, wire, buffer, messages, client>>

\* recv(sock, buffer, n): at most n of the bytes that are there.
Chunk(n) == SubSeq(buffer, 1, Smaller(n, Len(buffer)))
Rest(n)  == SubSeq(buffer, Smaller(n, Len(buffer)) + 1, Len(buffer))

\* One recv for the length prefix, which must bring all of it; bytesToInt and
\* the check of the size follow.
ReadLength ==
    /\ pc = "length"
    /\ buffer # <<>>
    /\ buffer' = Rest(LengthSize)
    /\ IF Len(Chunk(LengthSize)) # LengthSize
         THEN pc' = "failed" /\ UNCHANGED <<size, bytesToRead>>
         ELSE LET length == BytesToInt(Chunk(LengthSize)) IN
              IF length >= IntLimit
                THEN pc' = "terminated" /\ UNCHANGED <<size, bytesToRead>>
                ELSE /\ size' = length
                     /\ bytesToRead' = length
                     /\ pc' = IF length > MaxReceiveSize THEN "failed" ELSE "body"
    /\ UNCHANGED <<reply, received, sent, wire, messages, client>>

\* recv(sock, buffer, 0) reads nothing, which is taken for a failure.
ReadNothing ==
    /\ pc = "body"
    /\ size = 0
    /\ buffer # <<>>
    /\ pc' = "failed"
    /\ UNCHANGED <<size, bytesToRead, reply, received, sent, wire, buffer, messages, client>>

\* Mutants of ReadMore: the bytes read before are overwritten, and what is
\* missing is not counted down.
ReadMoreOverwrites ==
    /\ pc = "body"
    /\ size > 0
    /\ buffer # <<>>
    /\ Len(Chunk(size)) < bytesToRead
    /\ reply' = Chunk(size)
    /\ bytesToRead' = bytesToRead - Len(Chunk(size))
    /\ buffer' = Rest(size)
    /\ UNCHANGED <<pc, size, received, sent, wire, messages, client>>

ReadMoreUncounted ==
    /\ pc = "body"
    /\ size > 0
    /\ buffer # <<>>
    /\ Len(Chunk(size)) < bytesToRead
    /\ reply' = reply \o Chunk(size)
    /\ buffer' = Rest(size)
    /\ UNCHANGED <<pc, size, bytesToRead, received, sent, wire, messages, client>>

\* A turn of the loop after which bytes are still missing.
ReadMore ==
    /\ pc = "body"
    /\ size > 0
    /\ buffer # <<>>
    /\ Len(Chunk(size)) < bytesToRead
    /\ reply' = reply \o Chunk(size)
    /\ bytesToRead' = bytesToRead - Len(Chunk(size))
    /\ buffer' = Rest(size)
    /\ UNCHANGED <<pc, size, received, sent, wire, messages, client>>

\* The reply has the size asked for, and not the digits of the hash where it
\* should have its bytes.
Refused(handshake) ==
    LET start == 1 + Len(Protocol) + Reserved
    IN \/ Len(handshake) # HandshakeSize
       \/ SubSeq(handshake, start + 1, start + (Len(InfoHash) \div 2)) = InfoHash

\* receiveBitField returns nothing for another message.
FieldIn(data) == IF Id(data) = BitField THEN Payload(data) ELSE <<>>

\* getBit throws for a piece beyond the field; the client stays if the peer has
\* the piece.  Which one it looks for is left open.
AfterBitField(data) ==
    {next \in {"length", "failed", "terminated"} :
        IF next = "terminated" THEN Room(FieldIn(data)) < Pieces ELSE FieldIn(data) # <<>>}

\* Handling a message is done, or throws; the peer may lack the piece after the
\* one that a block completes.
AfterMessage(data) ==
    {next \in {"length", "failed", "terminated"} :
        \/ next = "length" /\ MayProceed(data)
        \/ next = "failed" /\ MayProceed(data) /\ Id(data) = Piece
        \/ next = "terminated" /\ MayThrow(data)}

\* The first result is the handshake, the second the bit field.
After(data) ==
    CASE Len(received) = 0 -> {IF Refused(data) THEN "failed" ELSE "length"}
      [] Len(received) = 1 -> AfterBitField(data)
      [] OTHER             -> AfterMessage(data)

\* Mutant of ReadLast: there is no loop, one recv has to do.
ReadLastAtOnce ==
    /\ pc = "body"
    /\ size > 0
    /\ buffer # <<>>
    /\ pc' \in After(reply \o Chunk(size))
    /\ received' = Append(received, reply \o Chunk(size))
    /\ reply' = <<>>
    /\ bytesToRead' = 0
    /\ buffer' = Rest(size)
    /\ UNCHANGED <<size, sent, wire, messages, client>>

\* The last turn: receiveData returns, and the caller handles the result.
ReadLast ==
    /\ pc = "body"
    /\ size > 0
    /\ buffer # <<>>
    /\ Len(Chunk(size)) >= bytesToRead
    /\ pc' \in After(reply \o Chunk(size))
    /\ received' = Append(received, reply \o Chunk(size))
    /\ reply' = <<>>
    /\ bytesToRead' = 0
    /\ buffer' = Rest(size)
    /\ UNCHANGED <<size, sent, wire, messages, client>>

\* Between two messages: interested(), and then the requests.
ClientSends ==
    /\ pc = "length" /\ Len(received) > 1
    /\ asked <= Len(Requests)
    /\ asked' = asked + 1
    /\ outgoing' = outgoing \o
         (IF asked = 0 THEN CreateInterested
          ELSE CreateRequest(Requests[asked][1], Requests[asked][2], Requests[asked][3]))
    /\ UNCHANGED <<pc, size, bytesToRead, reply, received, sent, wire, buffer, messages>>

ReceiveData == TimesOut \/ ReadLength \/ ReadNothing \/ ReadMore \/ ReadLast

\* The connection is given up, or the program is gone.
Stopped == pc \in {"failed", "terminated"} /\ UNCHANGED vars

Next == PeerSends \/ Arrive \/ ReceiveData \/ ClientSends \/ Stopped

Spec == Init /\ [][Next]_vars

-----------------------------------------------------------------------------
(* Properties                                                              *)

\* Every variable keeps its type; while a message is read, what is missing and
\* what was read are its size, and the last recv still has work to do.
TypeOK ==
    /\ pc \in {"length", "body", "failed", "terminated"}
    /\ size \in Nat
    /\ bytesToRead \in 0 .. size
    /\ reply \in Bytes /\ received \in Seq(Bytes) /\ messages \in Conversations
    /\ sent \in 0 .. Len(Bodies)
    /\ wire \in Bytes /\ buffer \in Bytes
    /\ asked \in 0 .. Len(Requests) + 1 /\ outgoing \in Bytes
    /\ pc = "length" => reply = <<>>
    /\ pc = "body" => Len(reply) + bytesToRead = size
    /\ pc = "body" /\ size > 0 => bytesToRead > 0

\* receiveData returns the messages the peer sent, whole and one by one.
FramingKept == IsPrefix(received, Bodies)

\* The first time receiveData returns something else than the message, it is
\* the message with bytes of the next ones behind it, fewer than it has
\* itself: no byte is lost, repeated or out of order before that.
OverReadsOnly ==
    \A k \in DOMAIN received :
        SubSeq(received, 1, k - 1) = SubSeq(Bodies, 1, k - 1) =>
            /\ k <= Len(Bodies)
            /\ IsPrefix(Bodies[k], received[k])
            /\ Len(received[k]) < 2 * Len(Bodies[k])

\* A message is read wrongly only if it came in parts and the recv for the
\* last one found bytes of the next message behind it.
MisreadsOnlyGluedParts ==
    [][FramingKept /\ ~FramingKept' => reply # <<>> /\ Len(buffer) > bytesToRead]_vars

\* The numbers an identifier is followed by.
FieldsOf(id) == CASE id = Have -> 1 [] id = Piece -> 2 [] OTHER -> 0

IsComplete(m) == Len(m.fields) = FieldsOf(m.id) /\ (m.id = Have => m.data = <<>>)

\* The bits of the peer's bit field, which its first message should be.
RoomSaid ==
    LET m == messages[1]
    IN  IF m.id = BitField THEN Room(FieldBytes(m.fields) \o m.data) ELSE 0

\* The client ends only by a message that was garbled, length or body, or that
\* has not the length it should have, or where the bit field ends: if it is
\* missing or has not a bit for every piece, by a have of a piece beyond it, or
\* by a block when the pieces fill the bytes of the field.
TerminatesForAReason ==
    pc = "terminated" /\ FramingKept =>
        LET m == messages[Len(received) - 1]
        IN  /\ Len(received) > 1
            /\ \/ Len(received) = 2 /\ RoomSaid < Pieces
               \/ Len(received) > 2 /\ ~IsComplete(m)
               \/ Len(received) > 2 /\ m.id = Have /\ RoomSaid <= m.fields[1]
               \/ Len(received) > 2 /\ m.id = Piece /\ RoomSaid <= Pieces

\* The number that bytes stand for in the protocol.
ValueOf(bytes) ==
    LET number[k \in 0 .. Len(bytes)] == IF k = 0 THEN 0 ELSE number[k - 1] * Base + bytes[k]
    IN  number[Len(bytes)]

\* Where the protocol has each message of the client end, by its length.
End[k \in 0 .. asked] ==
    IF k = 0 THEN HandshakeSize
    ELSE End[k - 1] + LengthSize + ValueOf(SubSeq(outgoing, End[k - 1] + 1, End[k - 1] + LengthSize))

Said(k) == SubSeq(outgoing, End[k - 1] + LengthSize + 1, End[k])

\* Each side reads what the other one meant.  The client sees the fields and
\* the block that the peer sent, as long as messages come whole; the peer finds
\* the hash of the torrent in the handshake, and then that the client is
\* interested and asks for the blocks it needs, one message after the other.
MessagesKeepMeaning ==
    LET start == 1 + Len(Protocol) + Reserved
        Number(k, n) ==
            ValueOf(SubSeq(Said(k), (n - 1) * LengthSize + 2, n * LengthSize + 1))
    IN  /\ HexText(SubSeq(outgoing, start + 1, start + (Len(InfoHash) \div 2))) = InfoHash
        /\ End[asked] = Len(outgoing)
        /\ asked > 0 => Said(1) = <<Interested>>
        /\ \A k \in 2 .. asked :
              /\ Said(k)[1] = Request /\ Len(Said(k)) = 1 + 3 * LengthSize
              /\ [n \in 1 .. 3 |-> Number(k, n)] = Requests[k - 1]
        /\ \A k \in 3 .. Len(received) :
              /\ SubSeq(received, 1, k) = SubSeq(Bodies, 1, k)
              /\ IsComplete(messages[k - 1])
              => Understood(received[k]) = messages[k - 1]
=============================================================================
