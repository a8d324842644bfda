------------------------------ MODULE Downloader ------------------------------
(***************************************************************************)
(* The download thread of the client: TorrentDownloader::download with the *)
(* PeerConnector, Messenger and FileManager calls it makes, talking to one *)
(* peer of the tracker's list at a time over a TCP connection.             *)
(*                                                                         *)
(* Messages are whole and in order here; how receiveData cuts them out of  *)
(* the byte stream is the subject of PeerStream.  A byte of the torrent is *)
(* the pair <<piece, offset in the piece>>, so that any byte out of place  *)
(* shows, and a piece verifies exactly when it is made of its own bytes.   *)
(***************************************************************************)
EXTENDS Integers, Sequences, BlockPlan, BitField

CONSTANTS
    TotalPieces,    \* torrentFile.PieceHashes.size()
    PieceLength,    \* torrentFile.PieceLength
    Length,         \* torrentFile.Length
    PeerCount,      \* peers the tracker knows; peer p is peers.peers[p]
    ReplySizes,     \* how many of them an announce may return
    InitialHas,     \* [Peers -> pieces the peer has when the client starts]
    BadPeers,       \* peers that may serve a block with wrong bytes
    ForeignPeers,   \* peers that answer for another torrent
    ForeignPieces,  \* the number of pieces of that torrent
    FdLimit,        \* descriptors left for sockets and for the output file
    MaxFlight,      \* bound: messages in flight when a peer chokes or sends unasked
    Events          \* what may go wrong outside the client in this model

AllEvents == { "tracker",     \* an announce fails or is not answered with 200
               "expire",      \* the announce interval passes between two peers
               "refuse",      \* connect() fails
               "close",       \* the peer closes the connection
               "slow",        \* an answer takes longer than the poll timeout
               "choke",       \* the peer chokes the client again
               "have",        \* the peer gets a new piece
               "keepalive",   \* the peer sends a keep-alive
               "nobitfield",  \* a peer with no piece skips the bit field
               "other",       \* the peer sends a message the client ignores
               "dup",         \* the peer sends a block that was not asked for
               "disk" }       \* a write of the output file fails or is cut short

Pieces == 0 .. TotalPieces - 1
Peers  == 0 .. PeerCount - 1

\* The pieces peer p can have.
PiecesOf(p) == IF p \in ForeignPeers THEN 0 .. ForeignPieces - 1 ELSE Pieces

ASSUME TorrentAssumption ==
    /\ TotalPieces \in Nat \ {0}
    /\ PieceLength \in Nat \ {0}
    /\ Length \in Nat
    /\ Length - (TotalPieces - 1) * PieceLength \in 1 .. PieceLength

ASSUME PeersAssumption ==
    /\ PeerCount \in Nat
    /\ ReplySizes \subseteq 0 .. PeerCount
    /\ ForeignPieces \in Nat \ {0}
    /\ InitialHas \in [Peers -> SUBSET Nat]
    /\ \A p \in Peers : InitialHas[p] \subseteq PiecesOf(p)

ASSUME EnvironmentAssumption ==
    /\ FdLimit \in Nat
    /\ MaxFlight \in Nat
    /\ Events \subseteq AllEvents

VARIABLES
    pc,           \* where the download thread is
    piece,        \* TorrentDownloader::piece
    choke,        \* TorrentDownloader::choke
    requestSent,  \* TorrentDownloader::requestSent
    bitField,     \* TorrentDownloader::bitField
    block,        \* downloadPiece: blocks received
    offset,       \* downloadPiece: bytes received
    pieceString,  \* downloadPiece: the bytes received
    peer,         \* download: index of the current peer
    listed,       \* peers.peers.size()
    file,         \* the output file, as the sequence of strings written to it
    leaked,       \* descriptors of sockets nobody will close
    link,         \* "none", "open", "closed" by the peer, "dead" after a reset
    inbox,        \* messages from the peer, not received yet
    outbox,       \* messages to the peer, not processed yet
    has,          \* the pieces each peer has
    peerChoking   \* the peer at the other end does not serve requests

progress == <<piece, file>>
session  == <<choke, requestSent>>
locals   == <<block, offset, pieceString>>   \* of downloadPiece
visit    == <<peer, listed, leaked>>
state    == <<progress, session, bitField, locals, visit>>
client   == <<pc, state>>
network  == <<link, inbox, outbox>>
remote   == <<has, peerChoking>>
vars     == <<client, network, remote>>

Ended == {"returned", "terminated", "killed"}

-----------------------------------------------------------------------------
(* Torrent contents                                                        *)

LastPieceSize == Length - (TotalPieces - 1) * PieceLength

PieceSize(i) == IF i = TotalPieces - 1 THEN LastPieceSize ELSE PieceLength

\* len bytes of piece i from offset begin on.
Bytes(i, begin, len) == [k \in 1 .. len |-> <<i, begin + k - 1>>]

\* As many bytes that are not the torrent's.
Garbage(len) == [k \in 1 .. len |-> <<-1, -1>>]

\* The piece whose SHA-1 is PieceHashes[i] (no collisions).
Content(i) == Bytes(i, 0, PieceSize(i))

-----------------------------------------------------------------------------
(* Messages                                                                *)

\* The 20 bytes of a hash, and the 40 hexadecimal digits that name it.
RawHash(h) == <<"raw", h>>
HexHash(h) == <<"hex", h>>

InfoHash == HexHash("ours")

\* createHandshake sends the hash decoded from hexadecimal.
HandshakeMessage(h) == [id |-> "handshake", hash |-> RawHash(h)]
Interested == [id |-> "interested"]
Request(i, begin, len) ==
    [id |-> "request", index |-> i, begin |-> begin, len |-> len]

Choke     == [id |-> "choke"]
Unchoke   == [id |-> "unchoke"]
KeepAlive == [id |-> "keepAlive"]
Other     == [id |-> "other"]   \* interested, request, port, ...
Have(i)   == [id |-> "have", index |-> i]
BitFieldMessage(bf) == [id |-> "bitField", field |-> bf]
Piece(i, begin, data) ==
    [id |-> "piece", index |-> i, begin |-> begin, data |-> data]

\* PeerConnector::handshake throws if the 20 bytes at INFO_HASH_STARTING_POS
\* of the reply are equal to the string infoHash, which holds the 40 digits.
HandshakeRefused(reply) == reply.hash = InfoHash

Arrived(id) == inbox # <<>> /\ Head(inbox).id = id

\* The peer's end is up and has answered the handshake.
PeerReady ==
    /\ link = "open"
    /\ outbox # <<>> => Head(outbox).id # "handshake"

\* poll() gives up.  Without "slow" that takes a peer that owes no answer, or
\* that does not care.
TimedOut ==
    /\ inbox = <<>>
    /\ \/ link # "open"
       \/ "slow" \in Events
       \/ peer \in BadPeers /\ PeerReady
       \/ outbox = <<>> /\ ~peerChoking

InFlight == Len(inbox) + Len(outbox)

-----------------------------------------------------------------------------
(* Steps the actions of the client share                                   *)

\* send() on the socket; the result is ignored.  Data sent to a peer that
\* has closed draws a reset, which may come back before the next send.
Send(m) ==
    \/ /\ link = "open"
       /\ outbox' = Append(outbox, m)
       /\ UNCHANGED link
    \/ /\ link = "closed"
       /\ link' \in {"closed", "dead"}
       /\ UNCHANGED outbox

\* downloadPiece returns or throws.
LeavePiece ==
    /\ block' = 0
    /\ offset' = 0
    /\ pieceString' = <<>>

\* Mutant of ResetSession: a request of the last connection is still awaited.
ResetSessionKeepsRequest == choke' = TRUE /\ UNCHANGED requestSent

\* What the client knows of the connection is forgotten with it.
ResetSession == choke' = TRUE /\ requestSent' = FALSE

\* The end of the body of the loop over the peers, after an exception or not.
NextPeer ==
    /\ pc' = "next"
    /\ peer' = peer + 1
    /\ ResetSession
    /\ LeavePiece
    /\ link' = "none"
    /\ inbox' = <<>>
    /\ outbox' = <<>>
    /\ peerChoking' = TRUE

-----------------------------------------------------------------------------
Init ==
    /\ pc = "announce"
    /\ piece = 0
    /\ choke = TRUE
    /\ requestSent = FALSE
    /\ bitField = EmptyBitField
    /\ block = 0
    /\ offset = 0
    /\ pieceString = <<>>
    /\ peer = 0
    /\ listed = 0
    /\ file = <<>>           \* createFile truncates it
    /\ leaked = 0
    /\ link = "none"
    /\ inbox = <<>>
    /\ outbox = <<>>
    /\ has = InitialHas
    /\ peerChoking = TRUE

-----------------------------------------------------------------------------
(* download(): the tracker and the list of peers                           *)

\* while (piece < totalPieces) peers = retrievePeers(...)
Announce ==
    /\ pc = "announce"
    /\ piece < TotalPieces
    /\ leaked < FdLimit
    /\ listed' \in ReplySizes
    /\ peer' = 0
    /\ pc' = "next"
    /\ UNCHANGED <<progress, session, bitField, locals, leaked, network, remote>>

\* The announce throws a runtime_error and nothing catches it.
AnnounceFails ==
    /\ pc = "announce"
    /\ piece < TotalPieces
    /\ "tracker" \in Events \/ leaked = FdLimit
    /\ pc' = "terminated"
    /\ UNCHANGED <<state, network, remote>>

\* Mutant of Return: the last piece is not waited for.
ReturnEarly ==
    /\ pc = "announce"
    /\ piece >= TotalPieces - 1
    /\ pc' = "returned"
    /\ UNCHANGED <<state, network, remote>>

\* while (piece < totalPieces) ends.
Return ==
    /\ pc = "announce"
    /\ piece >= TotalPieces
    /\ pc' = "returned"
    /\ UNCHANGED <<state, network, remote>>

\* Mutant of MorePeers: one peer beyond the end of the list.
MorePeersAndOne == peer <= listed

MorePeers == peer < listed

\* The list is used up, or the interval has passed.
LeaveList ==
    /\ pc = "next"
    /\ ~MorePeers \/ "expire" \in Events
    /\ pc' = "announce"
    /\ UNCHANGED <<state, network, remote>>

\* connectToPeer returns and the handshake is sent.
Connect ==
    /\ pc = "next"
    /\ MorePeers
    /\ leaked < FdLimit
    /\ pc' = "handshake"
    /\ link' = "open"
    /\ outbox' = <<HandshakeMessage("ours")>>
    /\ UNCHANGED <<state, inbox, remote>>

\* connectToPeer throws after closing the socket; or socket() has no
\* descriptor left, returns -1, and the reply to the handshake never comes.
ConnectFails ==
    /\ pc = "next"
    /\ MorePeers
    /\ "refuse" \in Events \/ leaked = FdLimit
    /\ NextPeer
    /\ UNCHANGED <<progress, bitField, listed, leaked, has>>

\* The reply to the handshake, which handshake() checks.
ReceiveHandshake ==
    /\ pc = "handshake"
    /\ Arrived("handshake")
    /\ IF HandshakeRefused(Head(inbox))
         THEN NextPeer
         ELSE /\ pc' = "bitfield"
              /\ inbox' = Tail(inbox)
              /\ UNCHANGED <<peer, session, locals, link, outbox, peerChoking>>
    /\ UNCHANGED <<progress, bitField, listed, leaked, has>>

\* receiveData throws inside handshake(): download() never learns the
\* descriptor of the socket, so that nobody closes it.
HandshakeFails ==
    /\ pc = "handshake"
    /\ TimedOut
    /\ leaked' = leaked + 1
    /\ NextPeer
    /\ UNCHANGED <<progress, bitField, listed, has>>

\* bitField = receiveBitField(sockfd), the empty string for any other message.
ReceiveBitField ==
    /\ pc = "bitfield"
    /\ inbox # <<>>
    /\ ~Arrived("keepAlive")
    /\ bitField' = IF Arrived("bitField") THEN Head(inbox).field ELSE EmptyBitField
    /\ inbox' = Tail(inbox)
    /\ pc' = "select"
    /\ UNCHANGED <<progress, session, locals, visit, link, outbox, remote>>

\* receiveData throws: poll timed out, the peer closed, or the message is a
\* keep-alive, after whose length recv is asked for no byte at all.
ReceiveFails ==
    /\ pc \in {"bitfield", "receive"}
    /\ TimedOut \/ Arrived("keepAlive")
    /\ NextPeer
    /\ UNCHANGED <<progress, bitField, listed, leaked, has>>

-----------------------------------------------------------------------------
(* download(): while (getBit(bitField, piece))                             *)

\* bitField.at throws std::out_of_range, a logic_error nobody catches.
SelectThrows ==
    /\ pc = "select"
    /\ ~InRange(bitField, piece)
    /\ pc' = "terminated"
    /\ UNCHANGED <<state, network, remote>>

\* The peer does not have the piece.
SelectNone ==
    /\ pc = "select"
    /\ InRange(bitField, piece)
    /\ ~GetBit(bitField, piece)
    /\ NextPeer
    /\ UNCHANGED <<progress, bitField, listed, leaked, has>>

\* PeerConnector::interested, then downloadPiece is entered.
Select ==
    /\ pc = "select"
    /\ InRange(bitField, piece)
    /\ GetBit(bitField, piece)
    /\ Send(Interested)
    /\ pc' = "request"
    /\ UNCHANGED <<state, inbox, remote>>

-----------------------------------------------------------------------------
(* downloadPiece                                                           *)

\* Mutant of WantsRequest: requests are not limited to one at a time.
WantsRequestAlways == ~choke

\* if (!choke && !requestSent)
WantsRequest == ~choke /\ ~requestSent

\* requestPiece, at the head of the loop or after a message.
RequestPiece ==
    /\ pc = "request"
    /\ WantsRequest
    /\ Send(Request(piece, offset, RequestSize(PieceSize(piece), block)))
    /\ requestSent' = TRUE
    /\ pc' = "receive"
    /\ UNCHANGED <<progress, choke, bitField, locals, visit, inbox, remote>>

SkipRequest ==
    /\ pc = "request"
    /\ ~WantsRequest
    /\ pc' = "receive"
    /\ UNCHANGED <<state, network, remote>>

\* A send on a socket that has been reset raises SIGPIPE.
SendKills ==
    /\ link = "dead"
    /\ \/ pc = "select" /\ InRange(bitField, piece) /\ GetBit(bitField, piece)
       \/ pc = "request" /\ WantsRequest
    /\ pc' = "killed"
    /\ UNCHANGED <<state, network, remote>>

\* Mutant of ReceiveChoke: a choke cancels the request under way.
ReceiveChokeCancels ==
    /\ pc = "receive"
    /\ Arrived("choke") \/ Arrived("unchoke")
    /\ choke' = Arrived("choke")
    /\ requestSent' = (requestSent /\ ~choke')
    /\ inbox' = Tail(inbox)
    /\ pc' = "request"
    /\ UNCHANGED <<progress, bitField, locals, visit, link, outbox, remote>>

ReceiveChoke ==
    /\ pc = "receive"
    /\ Arrived("choke") \/ Arrived("unchoke")
    /\ choke' = Arrived("choke")
    /\ inbox' = Tail(inbox)
    /\ pc' = "request"
    /\ UNCHANGED <<progress, requestSent, bitField, locals, visit, link, outbox, remote>>

\* setBit(bitField, pieceIndex), whose at() may throw as well.
ReceiveHave ==
    /\ pc = "receive"
    /\ Arrived("have")
    /\ inbox' = Tail(inbox)
    /\ IF InRange(bitField, Head(inbox).index)
         THEN /\ bitField' = SetBit(bitField, Head(inbox).index)
              /\ pc' = "request"
         ELSE /\ pc' = "terminated"
              /\ UNCHANGED bitField
    /\ UNCHANGED <<progress, session, locals, visit, link, outbox, remote>>

\* The default of the switch.
ReceiveOther ==
    /\ pc = "receive"
    /\ Arrived("other")
    /\ inbox' = Tail(inbox)
    /\ pc' = "request"
    /\ UNCHANGED <<state, link, outbox, remote>>

\* Mutant of NextBlock: any block of the piece will do.
AnyBlock(m) == m.index = piece

\* The block the piece goes on with.
NextBlock(m) == m.index = piece /\ m.begin = offset

TakeBlock(m) ==
    /\ pieceString' = pieceString \o m.data
    /\ offset' = offset + Len(m.data)
    /\ block' = block + 1

\* A block is taken if the piece goes on with it and dropped if not.
ReceivePiece ==
    /\ pc = "receive"
    /\ Arrived("piece")
    /\ requestSent' = FALSE
    /\ IF NextBlock(Head(inbox)) THEN TakeBlock(Head(inbox)) ELSE UNCHANGED locals
    /\ inbox' = Tail(inbox)
    /\ pc' = IF block' < TotalBlocks(PieceSize(piece)) THEN "request" ELSE "verify"
    /\ UNCHANGED <<progress, choke, bitField, visit, link, outbox, remote>>

\* Mutant of Verified: only the length is looked at.
VerifiedLength == piece < TotalPieces /\ Len(pieceString) = PieceSize(piece)

\* verifyPiece: the hash of the bytes is the one the torrent file has for
\* the piece.  PieceHashes[piece] lies beyond the vector once all are saved.
Verified == piece < TotalPieces /\ pieceString = Content(piece)

\* verifyPiece fails: the loop in download() looks at the same peer again.
VerifyFails ==
    /\ pc = "verify"
    /\ ~Verified
    /\ LeavePiece
    /\ pc' = "select"
    /\ UNCHANGED <<progress, session, bitField, visit, network, remote>>

\* verifyPiece holds and savePiece counts the piece, under the lock.
VerifyPiece ==
    /\ pc = "verify"
    /\ Verified
    /\ piece' = piece + 1
    /\ pc' = "write"
    /\ UNCHANGED <<session, bitField, locals, visit, file, network, remote>>

\* Reading PieceHashes beyond its end is undefined and may end the process.
VerifyCrashes ==
    /\ pc = "verify"
    /\ piece >= TotalPieces
    /\ pc' = "killed"
    /\ UNCHANGED <<state, network, remote>>

\* Mutant of WriteToFile: the file is opened without ios::app.
WriteToFileTruncates ==
    /\ pc = "write"
    /\ IF leaked + 1 < FdLimit THEN file' = <<pieceString>> ELSE UNCHANGED file
    /\ LeavePiece
    /\ pc' = "select"
    /\ UNCHANGED <<piece, session, bitField, visit, network, remote>>

\* The rest of savePiece, without the lock: writeToFile opens the file in
\* append mode, writes and closes, and looks at no result.  Opening fails
\* when the open socket holds the last descriptor; a full disk takes a part of
\* the piece or nothing.
WriteToFile ==
    /\ pc = "write"
    /\ \/ /\ leaked + 1 < FdLimit
          /\ file' = Append(file, pieceString)
       \/ /\ leaked + 1 >= FdLimit \/ "disk" \in Events
          /\ UNCHANGED file
       \/ /\ "disk" \in Events
          /\ \E n \in 1 .. Len(pieceString) - 1 :
                 file' = Append(file, SubSeq(pieceString, 1, n))
    /\ LeavePiece
    /\ pc' = "select"
    /\ UNCHANGED <<piece, session, bitField, visit, network, remote>>

-----------------------------------------------------------------------------
(* The peer at the other end                                               *)

Deliver(messages) == inbox' = inbox \o messages

\* It answers the handshake with its own and with its bit field.
PeerGreets ==
    /\ link = "open"
    /\ outbox # <<>> /\ Head(outbox).id = "handshake"
    /\ outbox' = Tail(outbox)
    /\ LET hello == HandshakeMessage(IF peer \in ForeignPeers THEN "other" ELSE "ours")
           width == IF peer \in ForeignPeers THEN ForeignPieces ELSE TotalPieces
           field == [size |-> (width + ByteBits - 1) \div ByteBits, bits |-> has[peer]]
       IN  \/ Deliver(<<hello, BitFieldMessage(field)>>)
           \/ /\ "nobitfield" \in Events
              /\ has[peer] = {}
              /\ Deliver(<<hello>>)
    /\ UNCHANGED <<client, link, remote>>

PeerNotesInterest ==
    /\ PeerReady
    /\ outbox # <<>> /\ Head(outbox).id = "interested"
    /\ outbox' = Tail(outbox)
    /\ UNCHANGED <<client, link, inbox, remote>>

\* It answers a request, unless it is choking the client.
PeerServes ==
    /\ PeerReady
    /\ outbox # <<>> /\ Head(outbox).id = "request"
    /\ outbox' = Tail(outbox)
    /\ LET r == Head(outbox) IN
         \/ /\ ~peerChoking
            /\ peer \notin ForeignPeers
            /\ Deliver(<<Piece(r.index, r.begin, Bytes(r.index, r.begin, r.len))>>)
         \/ /\ ~peerChoking
            /\ peer \in BadPeers \cup ForeignPeers
            /\ Deliver(<<Piece(r.index, r.begin, Garbage(r.len))>>)
         \/ /\ peerChoking
            /\ UNCHANGED inbox
    /\ UNCHANGED <<client, link, remote>>

PeerUnchokes ==
    /\ PeerReady
    /\ peerChoking
    /\ peerChoking' = FALSE
    /\ Deliver(<<Unchoke>>)
    /\ UNCHANGED <<client, link, outbox, has>>

PeerChokes ==
    /\ "choke" \in Events
    /\ PeerReady
    /\ ~peerChoking
    /\ InFlight < MaxFlight
    /\ peerChoking' = TRUE
    /\ Deliver(<<Choke>>)
    /\ UNCHANGED <<client, link, outbox, has>>

PeerHas ==
    /\ "have" \in Events
    /\ PeerReady
    /\ InFlight < MaxFlight
    /\ \E i \in PiecesOf(peer) \ has[peer] :
          /\ has' = [has EXCEPT ![peer] = @ \cup {i}]
          /\ Deliver(<<Have(i)>>)
    /\ UNCHANGED <<client, link, outbox, peerChoking>>

PeerKeepsAlive ==
    /\ "keepalive" \in Events
    /\ PeerReady
    /\ InFlight < MaxFlight
    /\ Deliver(<<KeepAlive>>)
    /\ UNCHANGED <<client, link, outbox, remote>>

PeerSaysOther ==
    /\ "other" \in Events
    /\ PeerReady
    /\ InFlight < MaxFlight
    /\ Deliver(<<Other>>)
    /\ UNCHANGED <<client, link, outbox, remote>>

\* A block of a piece it has, although no request for it is pending.
PeerRepeats ==
    /\ "dup" \in Events
    /\ PeerReady
    /\ ~peerChoking
    /\ InFlight < MaxFlight
    /\ peer \notin ForeignPeers
    /\ \E i \in has[peer], b \in 0 .. TotalBlocks(PieceLength) - 1 :
          /\ b < TotalBlocks(PieceSize(i))
          /\ Deliver(<<Piece(i, b * BlockSize,
                             Bytes(i, b * BlockSize, RequestSize(PieceSize(i), b)))>>)
    /\ UNCHANGED <<client, link, outbox, remote>>

PeerCloses ==
    /\ "close" \in Events
    /\ link = "open"
    /\ link' = "closed"
    /\ UNCHANGED <<client, inbox, outbox, remote>>

-----------------------------------------------------------------------------
ClientStep ==
    \/ Announce \/ AnnounceFails \/ Return \/ LeaveList
    \/ Connect \/ ConnectFails \/ ReceiveHandshake \/ HandshakeFails
    \/ ReceiveBitField \/ ReceiveFails
    \/ SelectThrows \/ SelectNone \/ Select
    \/ RequestPiece \/ SkipRequest \/ SendKills
    \/ ReceiveChoke \/ ReceiveHave \/ ReceiveOther \/ ReceivePiece
    \/ VerifyFails \/ VerifyPiece \/ VerifyCrashes \/ WriteToFile

\* What a peer that follows the protocol owes the client.
PeerAnswers == PeerGreets \/ PeerNotesInterest \/ PeerServes

PeerStep ==
    \/ PeerAnswers \/ PeerUnchokes \/ PeerChokes \/ PeerHas
    \/ PeerKeepsAlive \/ PeerSaysOther \/ PeerRepeats \/ PeerCloses

\* The process is gone.
Stopped == pc \in Ended /\ UNCHANGED vars

Next == ClientStep \/ PeerStep \/ Stopped

Spec == Init /\ [][Next]_vars

\* The thread is scheduled, a peer answers and does not choke for ever; of a bad
\* one only the answer to the handshake is sure.
Fairness ==
    /\ WF_vars(ClientStep)
    /\ WF_vars(PeerGreets)
    /\ WF_vars(peer \notin BadPeers /\ PeerAnswers)
    /\ WF_vars(peer \notin BadPeers /\ PeerUnchokes)

FairSpec == Spec /\ Fairness
-----------------------------------------------------------------------------
(* Properties                                                              *)

Byte == Int \X Int

ToClient ==
    [id : {"handshake"}, hash : {RawHash("ours"), RawHash("other")}]
      \cup [id : {"choke", "unchoke", "keepAlive", "other"}]
      \cup [id : {"have"}, index : Nat]
      \cup [id : {"bitField"}, field : BitFields]
      \cup [id : {"piece"}, index : Nat, begin : Nat, data : Seq(Byte)]

ToPeer ==
    [id : {"handshake"}, hash : {RawHash("ours")}]
      \cup [id : {"interested"}]
      \cup [id : {"request"}, index : Nat, begin : Nat, len : Nat]

\* The steps of the client during which it has a socket.
Connected == {"handshake", "bitfield", "select", "request", "receive", "verify", "write"}

ControlOK ==
    /\ pc \in {"announce", "next"} \cup Connected \cup Ended
    /\ piece \in 0 .. TotalPieces
    /\ block \in Nat /\ offset \in Nat
    /\ peer \in 0 .. PeerCount /\ listed \in 0 .. PeerCount
    /\ leaked \in 0 .. FdLimit
    /\ link \in {"none", "open", "closed", "dead"}
    /\ pc = "next" => peer <= listed
    /\ pc \in Connected => leaked < FdLimit /\ link # "none"
    /\ link # "none" => peer < listed
    /\ pc \in {"announce", "next"} => link = "none"

FlagsOK == choke \in BOOLEAN /\ requestSent \in BOOLEAN /\ peerChoking \in BOOLEAN

DataOK ==
    /\ bitField \in BitFields
    /\ pieceString \in Seq(Byte)
    /\ file \in Seq(Seq(Byte))
    /\ has \in [Peers -> SUBSET Nat]

QueuesOK == inbox \in Seq(ToClient) /\ outbox \in Seq(ToPeer)

\* Every variable keeps its type; the client has a socket, and a peer of the
\* list at the other end, exactly while it is inside the loop over the peers.
TypeOK == ControlOK /\ FlagsOK /\ DataOK /\ QueuesOK

\* No write of the output file has failed so far: there was a descriptor for
\* it while the socket was open, and room on the disk.
WritesSucceed == leaked + 1 < FdLimit /\ "disk" \notin Events

\* The pieces that are in the file when savePiece has stored what it counted.
Stored == IF pc = "write" THEN piece - 1 ELSE piece

\* What savePiece is declared to do: each piece counted is written.
FileHoldsCounted == file = [i \in 1 .. Stored |-> Content(i - 1)]

\* The file holds exactly the pieces counted so far, in order and intact,
\* whatever the peers send: piece++ and the later write agree.
FileMatchesCount == WritesSucceed => FileHoldsCounted

\* The piece the bytes of a non-empty string of the file come from.
Origin(string) == string[1][1]

\* Whatever fails on the way, the strings in the file are the beginnings of
\* pieces that were counted, in the order of the torrent and each at most
\* once: what may be missing is the end of a string or a whole piece.
StoredInOrder ==
    /\ \A k \in DOMAIN file :
          /\ file[k] # <<>>
          /\ Origin(file[k]) \in 0 .. Stored - 1
          /\ file[k] = SubSeq(Content(Origin(file[k])), 1, Len(file[k]))
    /\ \A j, k \in DOMAIN file : j < k => Origin(file[j]) < Origin(file[k])

InboxBlocks    == {k \in 1 .. Len(inbox) : inbox[k].id = "piece"}
OutboxRequests == {k \in 1 .. Len(outbox) : outbox[k].id = "request"}

\* requestSent tells the truth: at most one request or the block it asked
\* for is under way, it is the block the piece goes on with, and then the
\* flag is set.  No block is asked for again while it is awaited, on a choke
\* or on an unchoke.
OneRequestUnderWay ==
    /\ \A j, k \in OutboxRequests : j = k
    /\ \A j, k \in InboxBlocks : j = k
    /\ OutboxRequests = {} \/ InboxBlocks = {}
    /\ \A k \in OutboxRequests :
          requestSent /\ outbox[k].index = piece /\ outbox[k].begin = offset
    /\ \A k \in InboxBlocks : requestSent /\ NextBlock(inbox[k])

\* Every request asks for bytes inside the piece, for one block at most, and
\* for a piece the peer it goes to has.
RequestsInBounds ==
    \A k \in OutboxRequests :
        LET r == outbox[k] IN
        /\ r.index \in has[peer]
        /\ r.len \in 1 .. BlockSize
        /\ r.begin + r.len <= PieceSize(r.index)

\* The bit field the client keeps is the truth about the peer it talks to,
\* but for the have messages still on their way; nothing of it is left over
\* from an earlier peer.
BitFieldTracksPeer ==
    pc \in {"select", "request", "receive", "verify", "write"} /\ link = "open" =>
        has[peer] = bitField.bits
                      \cup {inbox[k].index : k \in {j \in DOMAIN inbox : inbox[j].id = "have"}}

\* The client never waits, unchoked, for a peer it has no request with: the
\* receive would only end by the timeout.
NoIdleWait ==
    pc = "receive" /\ link = "open" /\ inbox = <<>> /\ ~choke =>
        OutboxRequests # {}

\* A piece of which all blocks came from a peer that has the right bytes
\* verifies, whatever else that peer sent and in whatever order.
HonestPieceVerifies ==
    pc = "verify" /\ peer \notin BadPeers \cup ForeignPeers => Verified

\* An uncaught exception ends the program only where the tracker fails.
ThrowsOnlyAtTracker == [][pc' = "terminated" => pc = "announce"]_vars

\* No exception reaches the end of the program.
NoUncaughtException == pc # "terminated"

\* A peer that is used has answered the handshake for this torrent.
HandshakeVerified ==
    pc \in Connected \ {"handshake"} => peer \notin ForeignPeers

\* Where connections are made, last and are answered in time, the torrent is
\* downloaded, although there is a bad peer, unless the client is held for ever
\* in one of four ways: by wrong pieces of a bad peer, which is
\* asked for them again at once; by messages of no use, each of which starts the
\* time-out anew; by chokes that drop the request under way, after which the
\* client waits for its block in vain and goes on to the next peer; or by
\* keep-alives, each of which costs it the connection.
Completes ==
    \/ <>(pc = "returned")
    \/ []<>(pc = "verify" /\ ~Verified /\ peer \in BadPeers)
    \/ []<>(pc = "receive" /\ Arrived("other"))
    \/ []<>(pc = "receive" /\ Arrived("choke") /\ requestSent)
    \/ []<>(pc \in {"bitfield", "receive"} /\ Arrived("keepAlive"))

\* The download implements the abstract assembly of the file.
Assembled == INSTANCE Assembly
    WITH N <- TotalPieces,
         Contents <- [i \in Pieces |-> Content(i)],
         saved <- piece,
         status <- IF pc = "returned" THEN "complete"
                   ELSE IF pc \in Ended THEN "failed" ELSE "running"

ImplementsAssembly == Assembled!Spec

\* The same where sockets leak: as long as no write has failed, every step of
\* the download is a step of the assembly.
AssemblesWhileWritesSucceed ==
    /\ Assembled!Init
    /\ [][WritesSucceed => Assembled!Next]_(Assembled!vars)
=============================================================================
