--------------------------- MODULE DownloaderProofs ---------------------------
(***************************************************************************)
(* What holds of Downloader for every torrent, peer list and environment.  *)
(*                                                                         *)
(* First its types, and what it knows of its connection whatever the peer  *)
(* at the other end does: messages under way are about pieces that the     *)
(* peer has and blocks of the plan, and the bytes received are the blocks  *)
(* so far.                                                                 *)
(*                                                                         *)
(* Then the exchange with the peer: requests and blocks, choke and         *)
(* unchoke, the greeting and the bit field.  Each theorem names the        *)
(* behaviour of the peer without which it would not hold.                  *)
(*                                                                         *)
(* At last the output file: it holds the pieces counted, and downloading   *)
(* implements Assembly, as long as no write fails.                         *)
(***************************************************************************)
EXTENDS Downloader, TLAPS

-----------------------------------------------------------------------------
(* The block plan                                                          *)

\* The blocks downloadPiece asks for, all but the last of the full size, add
\* up to the piece, and each has from 1 to BlockSize bytes.
LEMMA BlocksCoverPiece ==
    ASSUME NEW length \in Nat \ {0}
    PROVE  /\ LastBlockLength(length) \in 1 .. BlockSize
           /\ TotalBlocks(length) \in Nat \ {0}
           /\ (TotalBlocks(length) - 1) * BlockSize + LastBlockLength(length) = length
<1> DEFINE q == length \div BlockSize
           r == length % BlockSize
<1>1. BlockSize \in Nat /\ BlockSize > 0
  BY BlockSizeAssumption
<1>2. /\ q \in Nat
      /\ r \in 0 .. BlockSize - 1
      /\ length = BlockSize * q + r
  BY <1>1
<1>3. q * BlockSize = BlockSize * q /\ (q - 1) * BlockSize = BlockSize * q - BlockSize
  BY <1>1, <1>2
<1>4. CASE r = 0
  <2>1. q # 0
    BY <1>1, <1>2, <1>4
  <2> QED
    BY <1>1, <1>2, <1>3, <1>4, <2>1 DEF LastBlockLength, TotalBlocks, TotalFullBlocks
<1>5. CASE r # 0
  BY <1>1, <1>2, <1>3, <1>5 DEF LastBlockLength, TotalBlocks, TotalFullBlocks
<1> QED
  BY <1>4, <1>5

\* A request is for 1 to BlockSize bytes.
LEMMA RequestSizeBounds ==
    ASSUME NEW length \in Nat \ {0}, NEW b \in Nat
    PROVE  RequestSize(length, b) \in 1 .. BlockSize
BY BlocksCoverPiece, BlockSizeAssumption DEF RequestSize

\* Every piece of the torrent has at least one byte, the last one included.
LEMMA PieceSizePositive ==
    ASSUME NEW i \in Nat
    PROVE  PieceSize(i) \in Nat \ {0}
<1>1. LastPieceSize \in 1 .. PieceLength
  BY TorrentAssumption DEF LastPieceSize
<1> QED
  BY <1>1, TorrentAssumption DEF PieceSize

-----------------------------------------------------------------------------
(* Type correctness                                                        *)

\* The next message is a message, and so are those after it.
LEMMA HeadTail ==
    ASSUME NEW S, NEW q \in Seq(S), q # <<>>
    PROVE  Head(q) \in S /\ Tail(q) \in Seq(S)
OBVIOUS

\* The client starts with its variables in their types.
LEMMA InitTypeOK == Init => TypeOK
<1> SUFFICES ASSUME Init PROVE TypeOK
  OBVIOUS
<1> USE TorrentAssumption, PeersAssumption, EnvironmentAssumption DEF Init
<1>1. ControlOK
  BY DEF ControlOK, Connected, Ended
<1>2. DataOK
  BY DEF DataOK, EmptyBitField, BitFields
<1>3. QueuesOK
  BY DEF QueuesOK
<1>4. FlagsOK
  BY Zenon DEF FlagsOK
<1> QED
  BY <1>1, <1>2, <1>3, <1>4 DEF TypeOK

\* The flags stay Boolean.
LEMMA FlagsStep == FlagsOK /\ [Next]_vars => FlagsOK'
<1> SUFFICES ASSUME FlagsOK, [Next]_vars PROVE FlagsOK'
  OBVIOUS
<1> USE DEF FlagsOK, session, state, client, remote, NextPeer, ResetSession
<1>1. CASE Announce
  BY <1>1 DEF Announce
<1>2. CASE AnnounceFails
  BY <1>2 DEF AnnounceFails
<1>3. CASE Return
  BY <1>3 DEF Return
<1>4. CASE LeaveList
  BY <1>4 DEF LeaveList
<1>5. CASE Connect
  BY <1>5 DEF Connect
<1>6. CASE ConnectFails
  BY <1>6 DEF ConnectFails
<1>7. CASE ReceiveHandshake
  BY <1>7 DEF ReceiveHandshake
<1>8. CASE HandshakeFails
  BY <1>8 DEF HandshakeFails
<1>9. CASE ReceiveBitField
  BY <1>9 DEF ReceiveBitField
<1>10. CASE ReceiveFails
  BY <1>10 DEF ReceiveFails
<1>11. CASE SelectThrows
  BY <1>11 DEF SelectThrows
<1>12. CASE SelectNone
  BY <1>12 DEF SelectNone
<1>13. CASE Select
  BY <1>13 DEF Select
<1>14. CASE RequestPiece
  BY <1>14 DEF RequestPiece
<1>15. CASE SkipRequest
  BY <1>15 DEF SkipRequest
<1>16. CASE SendKills
  BY <1>16 DEF SendKills
<1>17. CASE ReceiveChoke
  BY <1>17 DEF ReceiveChoke, Arrived
<1>18. CASE ReceiveHave
  BY <1>18 DEF ReceiveHave
<1>19. CASE ReceiveOther
  BY <1>19 DEF ReceiveOther
<1>20. CASE ReceivePiece
  BY <1>20 DEF ReceivePiece
<1>21. CASE VerifyFails
  BY <1>21 DEF VerifyFails
<1>22. CASE VerifyPiece
  BY <1>22 DEF VerifyPiece
<1>23. CASE VerifyCrashes
  BY <1>23 DEF VerifyCrashes
<1>24. CASE WriteToFile
  BY <1>24 DEF WriteToFile
<1>25. CASE PeerGreets
  BY <1>25 DEF PeerGreets
<1>26. CASE PeerNotesInterest
  BY <1>26 DEF PeerNotesInterest
<1>27. CASE PeerServes
  BY <1>27 DEF PeerServes
<1>28. CASE PeerUnchokes
  BY <1>28 DEF PeerUnchokes
<1>29. CASE PeerChokes
  BY <1>29 DEF PeerChokes
<1>30. CASE PeerHas
  BY <1>30 DEF PeerHas
<1>31. CASE PeerKeepsAlive
  BY <1>31 DEF PeerKeepsAlive
<1>32. CASE PeerSaysOther
  BY <1>32 DEF PeerSaysOther
<1>33. CASE PeerRepeats
  BY <1>33 DEF PeerRepeats
<1>34. CASE PeerCloses
  BY <1>34 DEF PeerCloses
<1>35. CASE Stopped
  BY <1>35 DEF Stopped, vars
<1>36. CASE UNCHANGED vars
  BY <1>36 DEF vars
<1> QED
  BY <1>1, <1>2, <1>3, <1>4, <1>5, <1>6, <1>7, <1>8, <1>9, <1>10, <1>11, <1>12, <1>13, <1>14, <1>15, <1>16, <1>17, <1>18, <1>19, <1>20, <1>21, <1>22, <1>23, <1>24, <1>25, <1>26, <1>27, <1>28, <1>29, <1>30, <1>31, <1>32, <1>33, <1>34, <1>35, <1>36 DEF Next, ClientStep, PeerStep, PeerAnswers

\* Control: no step leaves the labels, the bounds of the counters, or the
\* socket and the list out of step.
LEMMA ControlStep == TypeOK /\ [Next]_vars => ControlOK'
<1> SUFFICES ASSUME TypeOK, [Next]_vars PROVE ControlOK'
  OBVIOUS
<1> USE TorrentAssumption, PeersAssumption, EnvironmentAssumption
<1> USE DEF TypeOK, ControlOK, Connected, Ended, progress, session, locals, visit,
            state, client, network, remote, NextPeer, ResetSession, LeavePiece
<1>1. CASE Announce
  BY <1>1 DEF Announce
<1>2. CASE AnnounceFails
  BY <1>2 DEF AnnounceFails
<1>3. CASE Return
  BY <1>3 DEF Return
<1>4. CASE LeaveList
  BY <1>4 DEF LeaveList, MorePeers
<1>5. CASE Connect
  BY <1>5 DEF Connect, MorePeers
<1>6. CASE ConnectFails
  BY <1>6 DEF ConnectFails, MorePeers
<1>7. CASE ReceiveHandshake
  BY <1>7 DEF ReceiveHandshake
<1>8. CASE HandshakeFails
  BY <1>8 DEF HandshakeFails
<1>9. CASE ReceiveBitField
  BY <1>9 DEF ReceiveBitField
<1>10. CASE ReceiveFails
  BY <1>10 DEF ReceiveFails
<1>11. CASE SelectThrows
  BY <1>11 DEF SelectThrows
<1>12. CASE SelectNone
  BY <1>12 DEF SelectNone
<1>13. CASE Select
  BY <1>13 DEF Select, Send
<1>14. CASE RequestPiece
  BY <1>14 DEF RequestPiece, Send
<1>15. CASE SkipRequest
  BY <1>15 DEF SkipRequest
<1>16. CASE SendKills
  BY <1>16 DEF SendKills
<1>17. CASE ReceiveChoke
  BY <1>17 DEF ReceiveChoke
<1>18. CASE ReceiveHave
  BY <1>18 DEF ReceiveHave
<1>19. CASE ReceiveOther
  BY <1>19 DEF ReceiveOther
<1>20. CASE ReceivePiece
  BY <1>20 DEF ReceivePiece, TakeBlock
<1>21. CASE VerifyFails
  BY <1>21 DEF VerifyFails
<1>22. CASE VerifyPiece
  BY <1>22 DEF VerifyPiece, Verified
<1>23. CASE VerifyCrashes
  BY <1>23 DEF VerifyCrashes
<1>24. CASE WriteToFile
  BY <1>24 DEF WriteToFile
<1>25. CASE PeerGreets
  BY <1>25 DEF PeerGreets
<1>26. CASE PeerNotesInterest
  BY <1>26 DEF PeerNotesInterest
<1>27. CASE PeerServes
  BY <1>27 DEF PeerServes
<1>28. CASE PeerUnchokes
  BY <1>28 DEF PeerUnchokes
<1>29. CASE PeerChokes
  BY <1>29 DEF PeerChokes
<1>30. CASE PeerHas
  BY <1>30 DEF PeerHas
<1>31. CASE PeerKeepsAlive
  BY <1>31 DEF PeerKeepsAlive
<1>32. CASE PeerSaysOther
  BY <1>32 DEF PeerSaysOther
<1>33. CASE PeerRepeats
  BY <1>33 DEF PeerRepeats
<1>34. CASE PeerCloses
  BY <1>34 DEF PeerCloses
<1>35. CASE Stopped
  BY <1>35 DEF Stopped, vars
<1> QED
  BY <1>1, <1>2, <1>3, <1>4, <1>5, <1>6, <1>7, <1>8, <1>9, <1>10, <1>11, <1>12, <1>13, <1>14, <1>15, <1>16, <1>17, <1>18, <1>19, <1>20, <1>21, <1>22, <1>23, <1>24, <1>25, <1>26, <1>27, <1>28, <1>29, <1>30, <1>31, <1>32, <1>33, <1>34, <1>35 DEF Next, ClientStep, PeerStep, PeerAnswers, vars

\* What a message to the client and a request to the peer carry.
LEMMA ReceivedTypes ==
    ASSUME NEW m \in ToClient
    PROVE  /\ m.id = "have" => m.index \in Nat
           /\ m.id = "bitField" => m.field \in BitFields
           /\ m.id = "piece" => /\ m.index \in Nat /\ m.begin \in Nat
                               /\ m.data \in Seq(Byte)
BY DEF ToClient

LEMMA RequestTypes ==
    ASSUME NEW r \in ToPeer, r.id = "request"
    PROVE  r.index \in Nat /\ r.begin \in Nat /\ r.len \in Nat
BY DEF ToPeer

LEMMA BytesType ==
    ASSUME NEW i \in Nat, NEW begin \in Nat, NEW len \in Nat
    PROVE  /\ Bytes(i, begin, len) \in Seq(Byte) /\ Len(Bytes(i, begin, len)) = len
           /\ Garbage(len) \in Seq(Byte) /\ Len(Garbage(len)) = len
BY DEF Bytes, Garbage, Byte

\* The blocks a peer sends are messages, whatever their bytes.
LEMMA PieceType ==
    ASSUME NEW i \in Nat, NEW begin \in Nat, NEW bytes \in Seq(Byte)
    PROVE  Piece(i, begin, bytes) \in ToClient
BY DEF Piece, ToClient

LEMMA DataStep == TypeOK /\ [Next]_vars => DataOK'
<1> SUFFICES ASSUME TypeOK, [Next]_vars PROVE DataOK'
  OBVIOUS
<1> USE DEF TypeOK, DataOK, progress, locals, state, client, remote, NextPeer, LeavePiece
<1>1. CASE Announce
  BY <1>1 DEF Announce
<1>2. CASE AnnounceFails
  BY <1>2 DEF AnnounceFails
<1>3. CASE Return
  BY <1>3 DEF Return
<1>4. CASE LeaveList
  BY <1>4 DEF LeaveList
<1>5. CASE Connect
  BY <1>5 DEF Connect
<1>6. CASE ConnectFails
  BY <1>6 DEF ConnectFails
<1>7. CASE ReceiveHandshake
  <2>1. CASE HandshakeRefused(Head(inbox))
    BY <1>7, <2>1 DEF ReceiveHandshake
  <2>2. CASE ~HandshakeRefused(Head(inbox))
    BY <1>7, <2>2 DEF ReceiveHandshake
  <2> QED
    BY <2>1, <2>2
<1>8. CASE HandshakeFails
  BY <1>8 DEF HandshakeFails
<1>9. CASE ReceiveBitField
  <2>1. inbox # <<>> /\ Head(inbox) \in ToClient
    BY <1>9, HeadTail DEF ReceiveBitField, QueuesOK
  <2>2. bitField' \in BitFields
    BY <1>9, <2>1, ReceivedTypes DEF ReceiveBitField, Arrived, EmptyBitField, BitFields
  <2> QED
    BY <1>9, <2>2 DEF ReceiveBitField
<1>10. CASE ReceiveFails
  BY <1>10 DEF ReceiveFails
<1>11. CASE SelectThrows
  BY <1>11 DEF SelectThrows
<1>12. CASE SelectNone
  BY <1>12 DEF SelectNone
<1>13. CASE Select
  BY <1>13 DEF Select
<1>14. CASE RequestPiece
  BY <1>14 DEF RequestPiece
<1>15. CASE SkipRequest
  BY <1>15 DEF SkipRequest
<1>16. CASE SendKills
  BY <1>16 DEF SendKills
<1>17. CASE ReceiveChoke
  BY <1>17 DEF ReceiveChoke
<1>18. CASE ReceiveHave
  <2>1. Head(inbox) \in ToClient /\ Head(inbox).id = "have"
    BY <1>18, HeadTail DEF ReceiveHave, Arrived, QueuesOK
  <2>2. Head(inbox).index \in Nat
    BY <2>1, ReceivedTypes
  <2>3. bitField' \in BitFields
    BY <1>18, <2>2 DEF ReceiveHave, SetBit, BitFields
  <2> QED
    BY <1>18, <2>3 DEF ReceiveHave
<1>19. CASE ReceiveOther
  BY <1>19 DEF ReceiveOther
<1>20. CASE ReceivePiece
  <2>1. Head(inbox) \in ToClient /\ Head(inbox).id = "piece"
    BY <1>20, HeadTail DEF ReceivePiece, Arrived, QueuesOK
  <2>2. Head(inbox).data \in Seq(Byte)
    BY <2>1, ReceivedTypes
  <2>3. pieceString \o Head(inbox).data \in Seq(Byte)
    BY <2>2
  <2>4. \/ pieceString' = pieceString \o Head(inbox).data
        \/ pieceString' = pieceString
    BY <1>20 DEF ReceivePiece, TakeBlock
  <2> QED
    BY <1>20, <2>3, <2>4 DEF ReceivePiece
<1>21. CASE VerifyFails
  BY <1>21 DEF VerifyFails
<1>22. CASE VerifyPiece
  BY <1>22 DEF VerifyPiece
<1>23. CASE VerifyCrashes
  BY <1>23 DEF VerifyCrashes
<1>24. CASE WriteToFile
  <2>1. \A n \in 1 .. Len(pieceString) - 1 : SubSeq(pieceString, 1, n) \in Seq(Byte)
    OBVIOUS
  <2>2. \A string \in Seq(Byte) : Append(file, string) \in Seq(Seq(Byte))
    OBVIOUS
  <2>3. file' = file \/ \E string \in Seq(Byte) : file' = Append(file, string)
    BY <1>24, <2>1 DEF WriteToFile
  <2>4. file' \in Seq(Seq(Byte))
    BY <2>2, <2>3
  <2> QED
    BY <1>24, <2>4 DEF WriteToFile
<1>25. CASE PeerGreets
  BY <1>25 DEF PeerGreets
<1>26. CASE PeerNotesInterest
  BY <1>26 DEF PeerNotesInterest
<1>27. CASE PeerServes
  BY <1>27 DEF PeerServes
<1>28. CASE PeerUnchokes
  BY <1>28 DEF PeerUnchokes
<1>29. CASE PeerChokes
  BY <1>29 DEF PeerChokes
<1>30. CASE PeerHas
  <2>1. \A p \in Peers : PiecesOf(p) \subseteq Nat
    BY TorrentAssumption, PeersAssumption DEF PiecesOf, Pieces
  <2>2. has' \in [Peers -> SUBSET Nat]
    BY <1>30, <2>1 DEF PeerHas
  <2> QED
    BY <1>30, <2>2 DEF PeerHas
<1>31. CASE PeerKeepsAlive
  BY <1>31 DEF PeerKeepsAlive
<1>32. CASE PeerSaysOther
  BY <1>32 DEF PeerSaysOther
<1>33. CASE PeerRepeats
  BY <1>33 DEF PeerRepeats
<1>34. CASE PeerCloses
  BY <1>34 DEF PeerCloses
<1>35. CASE Stopped
  BY <1>35 DEF Stopped, vars
<1>36. CASE UNCHANGED vars
  BY <1>36 DEF vars
<1> QED
  BY <1>1, <1>2, <1>3, <1>4, <1>5, <1>6, <1>7, <1>8, <1>9, <1>10, <1>11, <1>12, <1>13, <1>14, <1>15, <1>16, <1>17, <1>18, <1>19, <1>20, <1>21, <1>22, <1>23, <1>24, <1>25, <1>26, <1>27, <1>28, <1>29, <1>30, <1>31, <1>32, <1>33, <1>34, <1>35, <1>36 DEF Next, ClientStep, PeerStep, PeerAnswers

\* The messages the client sends are of the kind peers receive.
LEMMA SentTypes ==
    ASSUME TypeOK
    PROVE  /\ HandshakeMessage("ours") \in ToPeer
           /\ Interested \in ToPeer
           /\ Request(piece, offset, RequestSize(PieceSize(piece), block)) \in ToPeer
<1>1. piece \in Nat /\ offset \in Nat /\ block \in Nat
  BY TorrentAssumption DEF TypeOK, ControlOK
<1>2. RequestSize(PieceSize(piece), block) \in Nat
  <2>1. PieceSize(piece) \in Nat \ {0}
    BY <1>1, PieceSizePositive
  <2>2. RequestSize(PieceSize(piece), block) \in 1 .. BlockSize
    BY <1>1, <2>1, RequestSizeBounds
  <2> QED
    BY <2>2, BlockSizeAssumption
<1> QED
  BY <1>1, <1>2 DEF ToPeer, HandshakeMessage, RawHash, Interested, Request

\* The messages of a peer, blocks aside, are of the kind the client receives.
LEMMA AnswerTypes ==
    /\ \A h \in {"ours", "other"} : HandshakeMessage(h) \in ToClient
    /\ \A width \in Nat, bits \in SUBSET Nat :
          BitFieldMessage([size |-> (width + ByteBits - 1) \div ByteBits,
                           bits |-> bits]) \in ToClient
    /\ \A i \in Nat : Have(i) \in ToClient
    /\ {Choke, Unchoke, KeepAlive, Other} \subseteq ToClient
<1>1. \A h \in {"ours", "other"} : HandshakeMessage(h) \in ToClient
  BY DEF HandshakeMessage, RawHash, ToClient
<1>2. ASSUME NEW width \in Nat, NEW bits \in SUBSET Nat
      PROVE  BitFieldMessage([size |-> (width + ByteBits - 1) \div ByteBits,
                              bits |-> bits]) \in ToClient
  <2>1. (width + ByteBits - 1) \div ByteBits \in Nat
    BY ByteBitsAssumption
  <2>2. [size |-> (width + ByteBits - 1) \div ByteBits, bits |-> bits] \in BitFields
    BY <2>1 DEF BitFields
  <2> QED
    BY <2>2 DEF BitFieldMessage, ToClient
<1>3. \A i \in Nat : Have(i) \in ToClient
  BY DEF Have, ToClient
<1>4. {Choke, Unchoke, KeepAlive, Other} \subseteq ToClient
  BY DEF Choke, Unchoke, KeepAlive, Other, ToClient
<1> QED
  BY <1>1, <1>2, <1>3, <1>4

\* Queues grow by messages only.
LEMMA Queued ==
    ASSUME QueuesOK
    PROVE  /\ \A m \in ToPeer : Send(m) => outbox' \in Seq(ToPeer)
           /\ \A m \in ToClient : Deliver(<<m>>) => inbox' \in Seq(ToClient)
           /\ \A m, n \in ToClient : Deliver(<<m, n>>) => inbox' \in Seq(ToClient)
<1>1. \A m \in ToPeer : Append(outbox, m) \in Seq(ToPeer)
  BY DEF QueuesOK
<1>2. \A m \in ToClient : inbox \o <<m>> \in Seq(ToClient)
  BY DEF QueuesOK
<1>3. ASSUME NEW m \in ToClient, NEW n \in ToClient
      PROVE  inbox \o <<m, n>> \in Seq(ToClient)
  <2>1. <<m, n>> \in Seq(ToClient)
    OBVIOUS
  <2> QED
    BY <2>1 DEF QueuesOK
<1> QED
  BY <1>1, <1>2, <1>3 DEF QueuesOK, Send, Deliver

\* An open connection is one to a peer of the list.
LEMMA PeerInList ==
    ASSUME TypeOK, link = "open"
    PROVE  peer \in Peers
BY PeersAssumption DEF TypeOK, ControlOK, Connected, Ended, Peers

LEMMA QueuesStep == TypeOK /\ [Next]_vars => QueuesOK'
<1> SUFFICES ASSUME TypeOK, [Next]_vars PROVE QueuesOK'
  OBVIOUS
<1> USE DEF TypeOK, QueuesOK, state, client, network, remote, NextPeer
<1>1. CASE Announce
  BY <1>1 DEF Announce, network
<1>2. CASE AnnounceFails
  BY <1>2 DEF AnnounceFails
<1>3. CASE Return
  BY <1>3 DEF Return
<1>4. CASE LeaveList
  BY <1>4 DEF LeaveList
<1>5. CASE Connect
  BY <1>5, SentTypes DEF Connect
<1>6. CASE ConnectFails
  BY <1>6 DEF ConnectFails
<1>7. CASE ReceiveHandshake
  <2>1. Tail(inbox) \in Seq(ToClient)
    BY <1>7, HeadTail DEF ReceiveHandshake, Arrived
  <2>2. CASE HandshakeRefused(Head(inbox))
    BY <1>7, <2>2 DEF ReceiveHandshake
  <2>3. CASE ~HandshakeRefused(Head(inbox))
    BY <1>7, <2>1, <2>3 DEF ReceiveHandshake
  <2> QED
    BY <2>2, <2>3
<1>8. CASE HandshakeFails
  BY <1>8 DEF HandshakeFails
<1>9. CASE ReceiveBitField
  BY <1>9, HeadTail DEF ReceiveBitField, Arrived
<1>10. CASE ReceiveFails
  BY <1>10 DEF ReceiveFails
<1>11. CASE SelectThrows
  BY <1>11 DEF SelectThrows
<1>12. CASE SelectNone
  BY <1>12 DEF SelectNone
<1>13. CASE Select
  BY <1>13, SentTypes, Queued DEF Select
<1>14. CASE RequestPiece
  BY <1>14, SentTypes, Queued DEF RequestPiece
<1>15. CASE SkipRequest
  BY <1>15 DEF SkipRequest
<1>16. CASE SendKills
  BY <1>16 DEF SendKills
<1>17. CASE ReceiveChoke
  BY <1>17, HeadTail DEF ReceiveChoke, Arrived
<1>18. CASE ReceiveHave
  BY <1>18, HeadTail DEF ReceiveHave, Arrived
<1>19. CASE ReceiveOther
  BY <1>19, HeadTail DEF ReceiveOther, Arrived
<1>20. CASE ReceivePiece
  BY <1>20, HeadTail DEF ReceivePiece, Arrived
<1>21. CASE VerifyFails
  BY <1>21 DEF VerifyFails
<1>22. CASE VerifyPiece
  BY <1>22 DEF VerifyPiece
<1>23. CASE VerifyCrashes
  BY <1>23 DEF VerifyCrashes
<1>24. CASE WriteToFile
  BY <1>24 DEF WriteToFile
<1>25. CASE PeerGreets
  <2> DEFINE hello == HandshakeMessage(IF peer \in ForeignPeers THEN "other" ELSE "ours")
             width == IF peer \in ForeignPeers THEN ForeignPieces ELSE TotalPieces
             field == [size |-> (width + ByteBits - 1) \div ByteBits, bits |-> has[peer]]
  <2>1. width \in Nat /\ has[peer] \in SUBSET Nat
    BY <1>25, TorrentAssumption, PeersAssumption, PeerInList DEF DataOK, PeerGreets
  <2>2. hello \in ToClient /\ BitFieldMessage(field) \in ToClient
    BY <2>1, AnswerTypes
  <2>3. outbox' \in Seq(ToPeer)
    BY <1>25, HeadTail DEF PeerGreets
  <2>4. inbox' \in Seq(ToClient)
    BY <1>25, <2>2, Queued DEF PeerGreets
  <2> QED
    BY <2>3, <2>4
<1>26. CASE PeerNotesInterest
  BY <1>26, HeadTail DEF PeerNotesInterest
<1>27. CASE PeerServes
  <2> DEFINE r == Head(outbox)
  <2>1. r \in ToPeer /\ r.id = "request" /\ outbox' \in Seq(ToPeer)
    BY <1>27, HeadTail DEF PeerServes
  <2>2. r.index \in Nat /\ r.begin \in Nat /\ r.len \in Nat
    BY <2>1, RequestTypes
  <2>3. /\ Piece(r.index, r.begin, Bytes(r.index, r.begin, r.len)) \in ToClient
        /\ Piece(r.index, r.begin, Garbage(r.len)) \in ToClient
    BY <2>2, BytesType, PieceType
  <2>4. inbox' \in Seq(ToClient)
    BY <1>27, <2>3, Queued DEF PeerServes
  <2> QED
    BY <2>1, <2>4
<1>28. CASE PeerUnchokes
  BY <1>28, AnswerTypes, Queued DEF PeerUnchokes
<1>29. CASE PeerChokes
  BY <1>29, AnswerTypes, Queued DEF PeerChokes
<1>30. CASE PeerHas
  <2>1. PICK i \in PiecesOf(peer) : Deliver(<<Have(i)>>)
    BY <1>30 DEF PeerHas
  <2>2. i \in Nat
    BY <2>1, TorrentAssumption, PeersAssumption DEF PiecesOf, Pieces
  <2>3. inbox' \in Seq(ToClient)
    BY <2>1, <2>2, AnswerTypes, Queued
  <2> QED
    BY <1>30, <2>3 DEF PeerHas
<1>31. CASE PeerKeepsAlive
  BY <1>31, AnswerTypes, Queued DEF PeerKeepsAlive
<1>32. CASE PeerSaysOther
  BY <1>32, AnswerTypes, Queued DEF PeerSaysOther
<1>33. CASE PeerRepeats
  <2>1. PICK i \in has[peer], b \in 0 .. TotalBlocks(PieceLength) - 1 :
             Deliver(<<Piece(i, b * BlockSize,
                             Bytes(i, b * BlockSize, RequestSize(PieceSize(i), b)))>>)
    BY <1>33 DEF PeerRepeats
  <2>2. i \in Nat
    BY <1>33, PeerInList DEF DataOK, PeerRepeats, PeerReady
  <2>3. b \in Nat /\ b * BlockSize \in Nat
    <3>1. TotalBlocks(PieceLength) \in Nat
      BY TorrentAssumption, BlocksCoverPiece
    <3> QED
      BY <3>1, BlockSizeAssumption
  <2>4. RequestSize(PieceSize(i), b) \in Nat
    <3>1. PieceSize(i) \in Nat \ {0}
      BY <2>2, PieceSizePositive
    <3>2. RequestSize(PieceSize(i), b) \in 1 .. BlockSize
      BY <2>3, <3>1, RequestSizeBounds
    <3> QED
      BY <3>2, BlockSizeAssumption
  <2>5. inbox' \in Seq(ToClient)
    BY <2>1, <2>2, <2>3, <2>4, BytesType, PieceType, Queued
  <2> QED
    BY <1>33, <2>5 DEF PeerRepeats
<1>34. CASE PeerCloses
  BY <1>34 DEF PeerCloses
<1>35. CASE Stopped
  BY <1>35 DEF Stopped, vars
<1>36. CASE UNCHANGED vars
  BY <1>36 DEF vars
<1> QED
  BY <1>1, <1>2, <1>3, <1>4, <1>5, <1>6, <1>7, <1>8, <1>9, <1>10, <1>11, <1>12, <1>13, <1>14, <1>15, <1>16, <1>17, <1>18, <1>19, <1>20, <1>21, <1>22, <1>23, <1>24, <1>25, <1>26, <1>27, <1>28, <1>29, <1>30, <1>31, <1>32, <1>33, <1>34, <1>35, <1>36 DEF Next, ClientStep, PeerStep, PeerAnswers

LEMMA TypeOKStep == TypeOK /\ [Next]_vars => TypeOK'
BY FlagsStep, ControlStep, DataStep, QueuesStep DEF TypeOK

\* Every variable keeps its type, whatever the torrent, the peers and the
\* failures: in particular the client has a socket, and a peer of the list at
\* the other end, exactly while it is inside the loop over the peers.
THEOREM TypeCorrect == Spec => []TypeOK
BY InitTypeOK, TypeOKStep, PTL DEF Spec

-----------------------------------------------------------------------------
(* The connection                                                          *)

\* The steps during which the client has the bit field of its peer.
Talking == {"select", "request", "receive", "verify", "write"}

\* The peer has the bytes of the torrent, and sends no others.
Honest(p) == p \notin BadPeers \cup ForeignPeers

\* The bytes of the bit field of a peer.
FieldSize(p) ==
    ((IF p \in ForeignPeers THEN ForeignPieces ELSE TotalPieces) + ByteBits - 1) \div ByteBits

\* len bytes from begin on are one of the blocks of piece i.
Planned(i, begin, len) ==
    \E b \in 0 .. TotalBlocks(PieceSize(i)) - 1 :
        begin = b * BlockSize /\ len = RequestSize(PieceSize(i), b)

\* Answers that say nothing wrong of the peer, and carry planned blocks.
SoundAnswers(p) ==
    {m \in ToClient :
        /\ m.id = "have" => m.index \in has[p]
        /\ m.id = "bitField" => m.field.bits \subseteq has[p] /\ m.field.size = FieldSize(p)
        /\ m.id = "piece" =>
              /\ Planned(m.index, m.begin, Len(m.data))
              /\ Honest(p) => m.data = Bytes(m.index, m.begin, Len(m.data))}

\* Requests for planned blocks of pieces that the peer has.
SoundRequests(p) ==
    {r \in ToPeer : r.id = "request" => r.index \in has[p] /\ Planned(r.index, r.begin, r.len)}

QueuesInv ==
    /\ link = "none" => inbox = <<>> /\ outbox = <<>>
    /\ inbox \in Seq(SoundAnswers(peer))
    /\ outbox \in Seq(SoundRequests(peer))

\* The bit field at hand belongs to the peer at hand.
FieldInv ==
    /\ \A p \in Peers : has[p] \subseteq PiecesOf(p)
    /\ pc \in Talking => /\ bitField.bits \subseteq has[peer]
                         /\ bitField.size \in {0, FieldSize(peer)}
    /\ pc \in {"request", "receive", "verify"} => piece \in bitField.bits

\* What was received of the piece at hand is its first blocks.
PlanInv ==
    /\ pc \in {"announce", "next", "handshake", "bitfield", "select"} =>
          block = 0 /\ offset = 0 /\ pieceString = <<>>
    /\ pc \in {"request", "receive"} =>
          block < TotalBlocks(PieceSize(piece)) /\ offset = block * BlockSize
    /\ pc = "verify" => offset = PieceSize(piece)
    /\ pc \in {"request", "receive", "verify"} /\ Honest(peer) =>
          pieceString = Bytes(piece, 0, offset)

ConnInv == QueuesInv /\ FieldInv /\ PlanInv

-----------------------------------------------------------------------------
(* Queues and blocks                                                       *)

\* A sequence grows by its own kind, and is one of any larger kind.
LEMMA Growth ==
    ASSUME NEW S, NEW q \in Seq(S)
    PROVE  /\ \A m \in S : Append(q, m) \in Seq(S) /\ q \o <<m>> \in Seq(S)
           /\ \A m, n \in S : q \o <<m, n>> \in Seq(S)
           /\ \A T : S \subseteq T => q \in Seq(T)
<1>1. ASSUME NEW m \in S, NEW n \in S PROVE <<m, n>> \in Seq(S)
  OBVIOUS
<1>2. \A m, n \in S : q \o <<m, n>> \in Seq(S)
  BY <1>1
<1>3. \A T : S \subseteq T => q \in Seq(T)
  OBVIOUS
<1> QED
  BY <1>2, <1>3

\* The block number b begins where the ones before it end; with the last one
\* the piece is complete.
LEMMA BlockEnds ==
    ASSUME NEW length \in Nat \ {0}, NEW b \in 0 .. TotalBlocks(length) - 1
    PROVE  /\ b * BlockSize \in Nat
           /\ RequestSize(length, b) \in 1 .. BlockSize
           /\ b + 1 < TotalBlocks(length) =>
                b * BlockSize + RequestSize(length, b) = (b + 1) * BlockSize
           /\ b + 1 = TotalBlocks(length) =>
                b * BlockSize + RequestSize(length, b) = length
           /\ b * BlockSize + RequestSize(length, b) <= length
<1> DEFINE T == TotalBlocks(length)
           last == LastBlockLength(length)
<1>1. /\ last \in 1 .. BlockSize
      /\ T \in Nat \ {0}
      /\ (T - 1) * BlockSize + last = length
  BY BlocksCoverPiece
<1>2. RequestSize(length, b) = IF b = T - 1 THEN last ELSE BlockSize
  BY DEF RequestSize
<1>3. b \in Nat /\ b <= T - 1 /\ BlockSize \in Nat \ {0}
  BY <1>1, BlockSizeAssumption
<1> HIDE DEF T, last
<1>4. b * BlockSize \in Nat /\ (b + 1) * BlockSize = b * BlockSize + BlockSize
  BY <1>3
<1>5. b < T - 1 => (b + 1) * BlockSize <= (T - 1) * BlockSize
  <2> SUFFICES ASSUME b < T - 1 PROVE (b + 1) * BlockSize <= (T - 1) * BlockSize
    OBVIOUS
  <2>1. T - 2 - b \in Nat
    BY <1>1, <1>3
  <2>2. (T - 2 - b) * BlockSize \in Nat
    BY <1>3, <2>1
  <2>3. (T - 1) * BlockSize = (b + 1) * BlockSize + (T - 2 - b) * BlockSize
    BY <1>1, <1>3
  <2> DEFINE x == (T - 1) * BlockSize
             y == (b + 1) * BlockSize
             z == (T - 2 - b) * BlockSize
  <2>4. y \in Nat /\ z \in Nat /\ x = y + z
    BY <1>3, <1>4, <2>2, <2>3
  <2> HIDE DEF x, y, z
  <2>5. y <= x
    BY <2>4
  <2> QED
    BY <2>5 DEF x, y
<1>6. (T - 1) * BlockSize \in Nat
  BY <1>1, <1>3
<1> QED
  BY <1>1, <1>2, <1>3, <1>4, <1>5, <1>6 DEF T

\* A planned block lies in its piece and is not too long.
LEMMA PlannedInPiece ==
    ASSUME NEW i \in Nat, NEW begin, NEW len, Planned(i, begin, len)
    PROVE  /\ begin \in Nat /\ len \in 1 .. BlockSize
           /\ begin + len <= PieceSize(i)
<1>1. PieceSize(i) \in Nat \ {0}
  BY PieceSizePositive
<1>2. PICK b \in 0 .. TotalBlocks(PieceSize(i)) - 1 :
               begin = b * BlockSize /\ len = RequestSize(PieceSize(i), b)
  BY DEF Planned
<1> QED
  BY <1>1, <1>2, BlockEnds

-----------------------------------------------------------------------------
(* Messages under way                                                      *)

\* As long as the peer and its pieces stay, so does what is sound.
LEMMA SameSound ==
    ASSUME peer' = peer, has' = has
    PROVE  /\ SoundAnswers(peer)' = SoundAnswers(peer)
           /\ SoundRequests(peer)' = SoundRequests(peer)
BY DEF SoundAnswers, SoundRequests

\* Queues that are left alone, taken from, or added to.
LEMMA QueueMoves ==
    ASSUME QueuesInv
    PROVE  /\ inbox # <<>> => /\ Head(inbox) \in SoundAnswers(peer)
                              /\ Tail(inbox) \in Seq(SoundAnswers(peer))
           /\ outbox # <<>> => /\ Head(outbox) \in SoundRequests(peer)
                               /\ Tail(outbox) \in Seq(SoundRequests(peer))
           /\ \A r \in SoundRequests(peer) :
                 Send(r) => outbox' \in Seq(SoundRequests(peer)) /\ link' # "none"
           /\ \A m \in SoundAnswers(peer) :
                 Deliver(<<m>>) => inbox' \in Seq(SoundAnswers(peer))
           /\ \A m, n \in SoundAnswers(peer) :
                 Deliver(<<m, n>>) => inbox' \in Seq(SoundAnswers(peer))
<1>1. inbox \in Seq(SoundAnswers(peer)) /\ outbox \in Seq(SoundRequests(peer))
  BY DEF QueuesInv
<1>2. inbox # <<>> => /\ Head(inbox) \in SoundAnswers(peer)
                      /\ Tail(inbox) \in Seq(SoundAnswers(peer))
  BY <1>1, HeadTail
<1>3. outbox # <<>> => /\ Head(outbox) \in SoundRequests(peer)
                       /\ Tail(outbox) \in Seq(SoundRequests(peer))
  BY <1>1, HeadTail
<1>4. \A r \in SoundRequests(peer) :
         Send(r) => outbox' \in Seq(SoundRequests(peer)) /\ link' # "none"
  BY <1>1, Growth DEF Send
<1>5. \A m \in SoundAnswers(peer) : Deliver(<<m>>) => inbox' \in Seq(SoundAnswers(peer))
  BY <1>1, Growth DEF Deliver
<1>6. \A m, n \in SoundAnswers(peer) :
         Deliver(<<m, n>>) => inbox' \in Seq(SoundAnswers(peer))
  BY <1>1, Growth DEF Deliver
<1> QED
  BY <1>2, <1>3, <1>4, <1>5, <1>6

\* What the client sends is sound.
LEMMA SentSound ==
    ASSUME TypeOK, FieldInv, PlanInv
    PROVE  /\ HandshakeMessage("ours") \in SoundRequests(peer)
           /\ Interested \in SoundRequests(peer)
           /\ pc = "request" =>
                Request(piece, offset, RequestSize(PieceSize(piece), block))
                    \in SoundRequests(peer)
<1>1. HandshakeMessage("ours") \in SoundRequests(peer) /\ Interested \in SoundRequests(peer)
  BY SentTypes DEF SoundRequests, HandshakeMessage, Interested
<1>2. ASSUME pc = "request"
      PROVE  Request(piece, offset, RequestSize(PieceSize(piece), block)) \in SoundRequests(peer)
  <2> DEFINE r == Request(piece, offset, RequestSize(PieceSize(piece), block))
  <2>1. r \in ToPeer
    BY SentTypes
  <2>2. piece \in has[peer]
    BY <1>2 DEF FieldInv, Talking
  <2>3. block < TotalBlocks(PieceSize(piece)) /\ offset = block * BlockSize /\ block \in Nat
    BY <1>2 DEF PlanInv, TypeOK, ControlOK
  <2>4. TotalBlocks(PieceSize(piece)) \in Nat
    BY PieceSizePositive, BlocksCoverPiece, TorrentAssumption DEF TypeOK, ControlOK
  <2>5. Planned(piece, offset, RequestSize(PieceSize(piece), block))
    BY <2>3, <2>4 DEF Planned
  <2> QED
    BY <2>1, <2>2, <2>5 DEF SoundRequests, Request
<1> QED
  BY <1>1, <1>2

\* What the peer says of itself is sound.
LEMMA SaidSound ==
    ASSUME TypeOK, link = "open"
    PROVE  /\ \A h \in {"ours", "other"} : HandshakeMessage(h) \in SoundAnswers(peer)
           /\ BitFieldMessage([size |-> FieldSize(peer), bits |-> has[peer]])
                  \in SoundAnswers(peer)
           /\ {Choke, Unchoke, KeepAlive, Other} \subseteq SoundAnswers(peer)
<1>1. \A h \in {"ours", "other"} : HandshakeMessage(h) \in SoundAnswers(peer)
  BY AnswerTypes DEF SoundAnswers, HandshakeMessage
<1>2. {Choke, Unchoke, KeepAlive, Other} \subseteq SoundAnswers(peer)
  BY AnswerTypes DEF SoundAnswers, Choke, Unchoke, KeepAlive, Other
<1>3. BitFieldMessage([size |-> FieldSize(peer), bits |-> has[peer]]) \in SoundAnswers(peer)
  <2>1. has[peer] \in SUBSET Nat
    BY PeerInList DEF TypeOK, DataOK
  <2>2. BitFieldMessage([size |-> FieldSize(peer), bits |-> has[peer]]) \in ToClient
    BY <2>1, AnswerTypes, TorrentAssumption, PeersAssumption DEF FieldSize
  <2> QED
    BY <2>2 DEF SoundAnswers, BitFieldMessage
<1> QED
  BY <1>1, <1>2, <1>3

\* A block that is planned, right or wrong, may be sent.
LEMMA BlockSound ==
    ASSUME NEW i \in Nat, NEW begin, NEW len, Planned(i, begin, len), NEW p
    PROVE  /\ Piece(i, begin, Bytes(i, begin, len)) \in SoundAnswers(p)
           /\ ~Honest(p) => Piece(i, begin, Garbage(len)) \in SoundAnswers(p)
<1>1. begin \in Nat /\ len \in Nat
  BY PlannedInPiece, BlockSizeAssumption
<1>2. /\ Bytes(i, begin, len) \in Seq(Byte) /\ Len(Bytes(i, begin, len)) = len
      /\ Garbage(len) \in Seq(Byte) /\ Len(Garbage(len)) = len
  BY <1>1, BytesType
<1>3. /\ Piece(i, begin, Bytes(i, begin, len)) \in ToClient
      /\ Piece(i, begin, Garbage(len)) \in ToClient
  BY <1>1, <1>2, PieceType
<1> QED
  BY <1>2, <1>3 DEF SoundAnswers, Piece

LEMMA QueuesInvStep ==
    TypeOK /\ QueuesInv /\ FieldInv /\ PlanInv /\ [Next]_vars => QueuesInv'
<1> SUFFICES ASSUME TypeOK, QueuesInv, FieldInv, PlanInv, [Next]_vars
             PROVE  QueuesInv'
  OBVIOUS
<1> DEFINE SA == SoundAnswers(peer)
           SR == SoundRequests(peer)
\* It is enough to look at the queues of a connection that goes on.
<1>0. ASSUME peer' = peer, has' = has, link' # "none",
             inbox' \in Seq(SA), outbox' \in Seq(SR)
      PROVE  QueuesInv'
  BY <1>0, SameSound DEF QueuesInv
<1>a. inbox \in Seq(SA) /\ outbox \in Seq(SR)
  BY DEF QueuesInv
<1>b. ASSUME inbox' = <<>>, outbox' = <<>> PROVE QueuesInv'
  BY <1>b DEF QueuesInv
<1>c. ASSUME UNCHANGED <<network, has>>, peer' = peer PROVE QueuesInv'
  BY <1>c, SameSound DEF QueuesInv, network
<1> USE DEF progress, session, locals, visit, state, client, remote
<1>1. CASE Announce
  <2>1. link = "none"
    BY <1>1 DEF Announce, TypeOK, ControlOK
  <2> QED
    BY <1>1, <1>b, <2>1 DEF Announce, network, QueuesInv
<1>2. CASE AnnounceFails \/ Return \/ LeaveList
  BY <1>2, <1>c DEF AnnounceFails, Return, LeaveList
<1>3. CASE Connect
  <2>1. /\ peer' = peer /\ has' = has /\ link' = "open"
        /\ inbox' = inbox /\ outbox' = <<HandshakeMessage("ours")>>
    BY <1>3 DEF Connect
  <2>2. outbox' \in Seq(SR)
    BY <2>1, SentSound
  <2> QED
    BY <1>0, <1>a, <2>1, <2>2
<1>4. CASE ConnectFails \/ HandshakeFails \/ ReceiveFails \/ SelectNone
  BY <1>4, <1>b DEF ConnectFails, HandshakeFails, ReceiveFails, SelectNone, NextPeer
<1>5. CASE ReceiveHandshake
  <2>1. CASE HandshakeRefused(Head(inbox))
    BY <1>5, <1>b, <2>1 DEF ReceiveHandshake, NextPeer
  <2>2. CASE ~HandshakeRefused(Head(inbox))
    <3>1. link # "none" /\ inbox # <<>>
      BY <1>5 DEF ReceiveHandshake, Arrived, TypeOK, ControlOK, Connected
    <3> QED
      BY <1>5, <1>0, <1>a, <2>2, <3>1, QueueMoves DEF ReceiveHandshake
  <2> QED
    BY <2>1, <2>2
<1>6. CASE ReceiveBitField \/ ReceiveChoke \/ ReceiveHave \/ ReceiveOther \/ ReceivePiece
  <2>1. /\ pc \in {"bitfield", "receive"} /\ inbox # <<>> /\ inbox' = Tail(inbox)
        /\ UNCHANGED <<peer, has, link, outbox>>
    BY <1>6 DEF ReceiveBitField, ReceiveChoke, ReceiveHave, ReceiveOther, ReceivePiece, Arrived
  <2>2. link # "none"
    BY <2>1 DEF TypeOK, ControlOK, Connected
  <2>3. inbox' \in Seq(SA)
    BY <2>1, QueueMoves
  <2> QED
    BY <1>0, <1>a, <2>1, <2>2, <2>3
<1>7. CASE SelectThrows \/ SkipRequest \/ SendKills \/ VerifyFails \/ VerifyPiece
             \/ VerifyCrashes \/ WriteToFile
  BY <1>7, <1>c DEF SelectThrows, SkipRequest, SendKills, VerifyFails, VerifyPiece,
                    VerifyCrashes, WriteToFile
<1>8. CASE Select
  <2>1. Send(Interested) /\ UNCHANGED <<peer, has, inbox>>
    BY <1>8 DEF Select
  <2> QED
    BY <1>0, <1>a, <2>1, SentSound, QueueMoves
<1>9. CASE RequestPiece
  <2>1. /\ Send(Request(piece, offset, RequestSize(PieceSize(piece), block)))
        /\ pc = "request" /\ UNCHANGED <<peer, has, inbox>>
    BY <1>9 DEF RequestPiece
  <2> QED
    BY <1>0, <1>a, <2>1, SentSound, QueueMoves
<1>10. CASE PeerStep
  <2>1. link = "open" /\ link' # "none" /\ peer' = peer
    BY <1>10 DEF PeerStep, PeerAnswers, PeerGreets, PeerNotesInterest, PeerServes,
                 PeerUnchokes, PeerChokes, PeerHas, PeerKeepsAlive, PeerSaysOther,
                 PeerRepeats, PeerCloses, PeerReady, network
  <2>2. CASE PeerGreets
    <3> DEFINE hello == HandshakeMessage(IF peer \in ForeignPeers THEN "other" ELSE "ours")
               field == BitFieldMessage([size |-> FieldSize(peer), bits |-> has[peer]])
    <3>1. hello \in SA /\ field \in SA
      BY <2>1, SaidSound
    <3>2. outbox' \in Seq(SR)
      BY <2>2, QueueMoves DEF PeerGreets
    <3>3. Deliver(<<hello, field>>) \/ Deliver(<<hello>>)
      BY <2>2 DEF PeerGreets, FieldSize
    <3>4. inbox' \in Seq(SA)
      BY <3>1, <3>3, QueueMoves
    <3> QED
      BY <1>0, <2>1, <2>2, <3>2, <3>4 DEF PeerGreets
  <2>3. CASE PeerNotesInterest
    BY <1>0, <1>a, <2>1, <2>3, QueueMoves DEF PeerNotesInterest
  <2>4. CASE PeerServes
    <3> DEFINE r == Head(outbox)
    <3>1. outbox' \in Seq(SR) /\ r \in SR /\ r.id = "request" /\ has' = has
      BY <2>4, QueueMoves DEF PeerServes
    <3>2. r.index \in Nat /\ Planned(r.index, r.begin, r.len)
      BY <3>1, RequestTypes DEF SoundRequests
    <3>3. \/ Deliver(<<Piece(r.index, r.begin, Bytes(r.index, r.begin, r.len))>>)
          \/ ~Honest(peer) /\ Deliver(<<Piece(r.index, r.begin, Garbage(r.len))>>)
          \/ inbox' = inbox
      BY <2>4 DEF PeerServes, Honest
    <3>4. inbox' \in Seq(SA)
      BY <1>a, <3>2, <3>3, BlockSound, QueueMoves
    <3> QED
      BY <1>0, <2>1, <3>1, <3>4
  <2>5. CASE PeerUnchokes \/ PeerChokes \/ PeerKeepsAlive \/ PeerSaysOther
    <3>1. PICK m \in {Unchoke, Choke, KeepAlive, Other} : Deliver(<<m>>)
      BY <2>5 DEF PeerUnchokes, PeerChokes, PeerKeepsAlive, PeerSaysOther
    <3>2. inbox' \in Seq(SA)
      BY <2>1, <3>1, SaidSound, QueueMoves
    <3>3. has' = has /\ outbox' = outbox
      BY <2>5 DEF PeerUnchokes, PeerChokes, PeerKeepsAlive, PeerSaysOther
    <3> QED
      BY <1>0, <1>a, <2>1, <3>2, <3>3
  <2>6. CASE PeerHas
    <3>1. PICK i \in PiecesOf(peer) :
                 has' = [has EXCEPT ![peer] = @ \cup {i}] /\ Deliver(<<Have(i)>>)
      BY <2>6 DEF PeerHas
    <3>2. peer \in Peers /\ has \in [Peers -> SUBSET Nat] /\ i \in Nat
      BY <2>1, <3>1, PeerInList, TorrentAssumption, PeersAssumption
         DEF TypeOK, DataOK, PiecesOf, Pieces
    <3>3. has'[peer] = has[peer] \cup {i}
      BY <3>1, <3>2
    <3>4. SA \subseteq SoundAnswers(peer)' /\ SR \subseteq SoundRequests(peer)'
      BY <2>1, <3>3 DEF SoundAnswers, SoundRequests
    <3>5. Have(i) \in SoundAnswers(peer)'
      BY <2>1, <3>2, <3>3, AnswerTypes DEF SoundAnswers, Have
    <3>6. inbox \in Seq(SoundAnswers(peer)') /\ outbox \in Seq(SoundRequests(peer)')
      BY <1>a, <3>4, Growth
    <3>7. inbox' \in Seq(SoundAnswers(peer)') /\ outbox' = outbox
      BY <2>6, <3>1, <3>5, <3>6, Growth DEF Deliver, PeerHas
    <3> QED
      BY <2>1, <3>6, <3>7 DEF QueuesInv
  <2>7. CASE PeerRepeats
    <3>1. PICK i \in has[peer], b \in 0 .. TotalBlocks(PieceLength) - 1 :
                 /\ b < TotalBlocks(PieceSize(i))
                 /\ Deliver(<<Piece(i, b * BlockSize,
                                    Bytes(i, b * BlockSize, RequestSize(PieceSize(i), b)))>>)
      BY <2>7 DEF PeerRepeats
    <3>2. i \in Nat
      BY <2>1, PeerInList DEF TypeOK, DataOK
    <3>3. TotalBlocks(PieceSize(i)) \in Nat /\ TotalBlocks(PieceLength) \in Nat
      BY <3>2, PieceSizePositive, BlocksCoverPiece, TorrentAssumption
    <3>4. Planned(i, b * BlockSize, RequestSize(PieceSize(i), b))
      BY <3>1, <3>3 DEF Planned
    <3>5. inbox' \in Seq(SA)
      BY <3>1, <3>2, <3>4, BlockSound, QueueMoves
    <3> QED
      BY <1>0, <1>a, <2>1, <2>7, <3>5 DEF PeerRepeats
  <2>8. CASE PeerCloses
    BY <1>0, <1>a, <2>1, <2>8 DEF PeerCloses
  <2> QED
    BY <1>10, <2>2, <2>3, <2>4, <2>5, <2>6, <2>7, <2>8 DEF PeerStep, PeerAnswers
<1>11. CASE Stopped \/ UNCHANGED vars
  BY <1>11, <1>c DEF Stopped, vars
<1> QED
  BY <1>1, <1>2, <1>3, <1>4, <1>5, <1>6, <1>7, <1>8, <1>9, <1>10, <1>11
     DEF Next, ClientStep
-----------------------------------------------------------------------------
(* The bit field and the bytes received                                    *)

\* A peer does not change, and what it has only grows, while it acts.
LEMMA PeerStepKeeps ==
    ASSUME TypeOK, PeerStep
    PROVE  /\ UNCHANGED client /\ link = "open" /\ peer \in Peers
           /\ has' = has \/ \E i \in PiecesOf(peer) : has' = [has EXCEPT ![peer] = @ \cup {i}]
<1>1. UNCHANGED client /\ link = "open"
  BY DEF PeerStep, PeerAnswers, PeerGreets, PeerNotesInterest, PeerServes, PeerUnchokes,
         PeerChokes, PeerHas, PeerKeepsAlive, PeerSaysOther, PeerRepeats, PeerCloses,
         PeerReady
<1>2. CASE PeerHas
  BY <1>1, <1>2, PeerInList DEF PeerHas
<1>3. CASE ~PeerHas
  BY <1>1, <1>3, PeerInList
     DEF PeerStep, PeerAnswers, PeerGreets, PeerNotesInterest, PeerServes, PeerUnchokes,
         PeerChokes, PeerKeepsAlive, PeerSaysOther, PeerRepeats, PeerCloses, remote
<1> QED
  BY <1>2, <1>3

LEMMA InitConnInv == Init => ConnInv
<1> SUFFICES ASSUME Init PROVE ConnInv
  OBVIOUS
<1>1. QueuesInv
  BY DEF Init, QueuesInv
<1>2. FieldInv
  BY PeersAssumption DEF Init, FieldInv, Talking
<1>3. PlanInv
  BY DEF Init, PlanInv
<1> QED
  BY <1>1, <1>2, <1>3 DEF ConnInv

LEMMA FieldInvStep == TypeOK /\ QueuesInv /\ FieldInv /\ [Next]_vars => FieldInv'
<1> SUFFICES ASSUME TypeOK, QueuesInv, FieldInv, [Next]_vars PROVE FieldInv'
  OBVIOUS
<1> USE DEF FieldInv, Talking, FieldSize
<1>0. ASSUME has' = has, pc' \notin Talking PROVE FieldInv'
  BY <1>0
<1> USE DEF progress, session, locals, visit, state, client, remote
<1>1. CASE Announce \/ AnnounceFails \/ Return \/ LeaveList
  BY <1>0, <1>1 DEF Announce, AnnounceFails, Return, LeaveList
<1>2. CASE Connect \/ ConnectFails \/ ReceiveHandshake \/ HandshakeFails
  BY <1>0, <1>2 DEF Connect, ConnectFails, ReceiveHandshake, HandshakeFails, NextPeer
<1>3. CASE ReceiveBitField
  <2>1. Head(inbox) \in SoundAnswers(peer)
    BY <1>3, QueueMoves DEF ReceiveBitField
  <2>2. \/ bitField' = EmptyBitField
        \/ bitField'.bits \subseteq has[peer] /\ bitField'.size = FieldSize(peer)
    BY <1>3, <2>1 DEF ReceiveBitField, Arrived, SoundAnswers
  <2> QED
    BY <1>3, <2>2 DEF ReceiveBitField, EmptyBitField
<1>4. CASE ReceiveFails \/ SelectThrows \/ SelectNone \/ SendKills \/ VerifyCrashes
  BY <1>0, <1>4 DEF ReceiveFails, SelectThrows, SelectNone, SendKills, VerifyCrashes, NextPeer
<1>5. CASE Select
  BY <1>5 DEF Select, GetBit
<1>6. CASE RequestPiece \/ SkipRequest \/ ReceiveChoke \/ ReceiveOther \/ ReceivePiece
  BY <1>6 DEF RequestPiece, SkipRequest, ReceiveChoke, ReceiveOther, ReceivePiece
<1>7. CASE ReceiveHave
  <2>1. Head(inbox).index \in has[peer]
    BY <1>7, QueueMoves DEF ReceiveHave, Arrived, SoundAnswers
  <2>2. \/ bitField' = bitField
        \/ bitField' = [bitField EXCEPT !.bits = @ \cup {Head(inbox).index}]
    BY <1>7 DEF ReceiveHave, SetBit
  <2>3. bitField \in BitFields
    BY DEF TypeOK, DataOK
  <2>4. /\ bitField'.size = bitField.size
        /\ bitField.bits \subseteq bitField'.bits
        /\ bitField'.bits \subseteq bitField.bits \cup {Head(inbox).index}
    BY <2>2, <2>3 DEF BitFields
  <2> QED
    BY <1>7, <2>1, <2>4 DEF ReceiveHave
<1>8. CASE VerifyFails \/ VerifyPiece \/ WriteToFile
  BY <1>8 DEF VerifyFails, VerifyPiece, WriteToFile
<1>9. CASE PeerStep
  <2>1. /\ UNCHANGED client /\ peer \in Peers
        /\ has' = has \/ \E i \in PiecesOf(peer) : has' = [has EXCEPT ![peer] = @ \cup {i}]
    BY <1>9, PeerStepKeeps
  <2>2. has \in [Peers -> SUBSET Nat]
    BY DEF TypeOK, DataOK
  <2>3. \A p \in Peers : has[p] \subseteq has'[p] /\ has'[p] \subseteq PiecesOf(p)
    BY <2>1, <2>2
  <2> QED
    BY <2>1, <2>3
<1>10. CASE Stopped \/ UNCHANGED vars
  BY <1>10 DEF Stopped, vars
<1> QED
  BY <1>1, <1>2, <1>3, <1>4, <1>5, <1>6, <1>7, <1>8, <1>9, <1>10 DEF Next, ClientStep

\* Bytes of a piece put together.
LEMMA BytesJoin ==
    ASSUME NEW i, NEW n \in Nat, NEW len \in Nat
    PROVE  Bytes(i, 0, n) \o Bytes(i, n, len) = Bytes(i, 0, n + len)
BY DEF Bytes

LEMMA PlanInvStep ==
    TypeOK /\ QueuesInv /\ PlanInv /\ [Next]_vars => PlanInv'
<1> SUFFICES ASSUME TypeOK, QueuesInv, PlanInv, [Next]_vars PROVE PlanInv'
  OBVIOUS
<1> DEFINE Before == {"announce", "next", "handshake", "bitfield", "select"}
           T == TotalBlocks(PieceSize(piece))
<1>0. piece \in Nat /\ block \in Nat /\ offset \in Nat /\ pieceString \in Seq(Byte)
  BY TorrentAssumption DEF TypeOK, ControlOK, DataOK
<1>a. PieceSize(piece) \in Nat \ {0} /\ T \in Nat \ {0} /\ BlockSize \in Nat \ {0}
  BY <1>0, PieceSizePositive, BlocksCoverPiece, BlockSizeAssumption
<1>b. ASSUME pc' \in Before, block' = 0, offset' = 0, pieceString' = <<>> PROVE PlanInv'
  BY <1>b DEF PlanInv
<1>c. ASSUME pc \in {"request", "receive"}, pc' \in {"request", "receive"},
             UNCHANGED <<piece, peer, locals>>
      PROVE  PlanInv'
  BY <1>c DEF PlanInv, locals, Honest
<1> USE DEF progress, session, locals, visit, state, client
<1>1. CASE Announce \/ LeaveList \/ Connect \/ ReceiveBitField
  <2>1. pc \in Before /\ pc' \in Before /\ UNCHANGED locals
    BY <1>1 DEF Announce, LeaveList, Connect, ReceiveBitField
  <2> QED
    BY <1>b, <2>1 DEF PlanInv
<1>2. CASE AnnounceFails \/ Return \/ SelectThrows \/ SendKills \/ VerifyPiece \/ VerifyCrashes
  BY <1>2 DEF AnnounceFails, Return, SelectThrows, SendKills, VerifyPiece, VerifyCrashes,
              PlanInv
<1>3. CASE ConnectFails \/ HandshakeFails \/ ReceiveFails \/ SelectNone
  BY <1>3, <1>b DEF ConnectFails, HandshakeFails, ReceiveFails, SelectNone, NextPeer, LeavePiece
<1>4. CASE ReceiveHandshake
  <2>1. pc \in Before /\ pc' \in Before
    BY <1>4 DEF ReceiveHandshake, NextPeer
  <2>2. UNCHANGED locals \/ LeavePiece
    BY <1>4 DEF ReceiveHandshake, NextPeer
  <2> QED
    BY <1>b, <2>1, <2>2 DEF PlanInv, LeavePiece
<1>5. CASE Select
  <2>1. pc' = "request" /\ block' = 0 /\ offset' = 0 /\ pieceString' = <<>> /\ piece' = piece
    BY <1>5 DEF Select, PlanInv
  <2>2. Bytes(piece, 0, 0) = <<>>
    BY DEF Bytes
  <2> QED
    BY <1>a, <2>1, <2>2 DEF PlanInv
<1>6. CASE RequestPiece \/ SkipRequest \/ ReceiveChoke \/ ReceiveOther
  BY <1>6, <1>c DEF RequestPiece, SkipRequest, ReceiveChoke, ReceiveOther
<1>7. CASE ReceiveHave
  <2>1. UNCHANGED <<piece, peer, locals>> /\ pc = "receive" /\ pc' \in {"request", "terminated"}
    BY <1>7 DEF ReceiveHave
  <2> QED
    BY <1>c, <2>1 DEF PlanInv
<1>8. CASE ReceivePiece
  <2> DEFINE m == Head(inbox)
             len == RequestSize(PieceSize(piece), block)
  <2>1. /\ pc = "receive" /\ UNCHANGED <<piece, peer>>
        /\ IF NextBlock(m) THEN TakeBlock(m) ELSE UNCHANGED locals
        /\ pc' = IF block' < T THEN "request" ELSE "verify"
    BY <1>8 DEF ReceivePiece
  <2>2. block < T /\ offset = block * BlockSize
    BY <2>1 DEF PlanInv
  <2>3. m \in SoundAnswers(peer) /\ m.id = "piece" /\ m.data \in Seq(Byte)
    BY <1>8, QueueMoves, ReceivedTypes DEF ReceivePiece, Arrived, SoundAnswers
  <2>4. CASE ~NextBlock(m)
    BY <1>c, <2>1, <2>2, <2>4
  <2>5. CASE NextBlock(m)
    <3>1. /\ pieceString' = pieceString \o m.data
          /\ offset' = offset + Len(m.data)
          /\ block' = block + 1
          /\ m.index = piece /\ m.begin = offset
      BY <2>1, <2>5 DEF TakeBlock, NextBlock
    <3>2. PICK b \in 0 .. T - 1 :
                 offset = b * BlockSize /\ Len(m.data) = RequestSize(PieceSize(piece), b)
      BY <2>3, <3>1 DEF SoundAnswers, Planned
    <3>3. b = block
      <4>1. b * BlockSize = block * BlockSize /\ b \in Nat
        BY <1>a, <2>2, <3>2
      <4> QED
        BY <1>0, <1>a, <4>1
    <3>4. Len(m.data) = len
      BY <3>2, <3>3
    <3>5. /\ block + 1 < T => offset' = block' * BlockSize
          /\ block + 1 = T => offset' = PieceSize(piece)
      <4>1. block \in 0 .. T - 1
        BY <1>0, <1>a, <2>2
      <4>2. /\ block + 1 < T => block * BlockSize + len = (block + 1) * BlockSize
            /\ block + 1 = T => block * BlockSize + len = PieceSize(piece)
        BY <1>a, <4>1, BlockEnds
      <4> QED
        BY <2>2, <3>1, <3>4, <4>2
    <3>6. Honest(peer) /\ pieceString = Bytes(piece, 0, offset) =>
              pieceString' = Bytes(piece, 0, offset')
      <4>1. Honest(peer) => m.data = Bytes(piece, offset, Len(m.data))
        BY <2>3, <3>1 DEF SoundAnswers
      <4>2. Bytes(piece, 0, offset) \o Bytes(piece, offset, Len(m.data))
              = Bytes(piece, 0, offset + Len(m.data))
        <5>1. Len(m.data) \in Nat
          BY <2>3
        <5> QED
          BY <1>0, <5>1, BytesJoin
      <4> QED
        BY <3>1, <4>1, <4>2
    <3>7. Honest(peer)' = Honest(peer)
      BY <2>1 DEF Honest
    <3>8. CASE block + 1 < T
      BY <2>1, <3>1, <3>5, <3>6, <3>7, <3>8 DEF PlanInv
    <3>9. CASE block + 1 = T
      BY <2>1, <3>1, <3>5, <3>6, <3>7, <3>9 DEF PlanInv
    <3> QED
      BY <1>0, <1>a, <2>2, <3>8, <3>9
  <2> QED
    BY <2>4, <2>5
<1>9. CASE VerifyFails \/ WriteToFile
  BY <1>9, <1>b DEF VerifyFails, WriteToFile, LeavePiece
<1>10. CASE PeerStep \/ Stopped \/ UNCHANGED vars
  <2>1. UNCHANGED client
    BY <1>10, PeerStepKeeps DEF Stopped, vars
  <2> QED
    BY <2>1 DEF PlanInv, Honest
<1> QED
  BY <1>1, <1>2, <1>3, <1>4, <1>5, <1>6, <1>7, <1>8, <1>9, <1>10 DEF Next, ClientStep

LEMMA ConnInvStep == TypeOK /\ ConnInv /\ [Next]_vars => ConnInv'
BY QueuesInvStep, FieldInvStep, PlanInvStep DEF ConnInv

\* In every state of a behaviour.
LEMMA ConnectionCorrect == Spec => []ConnInv
<1>1. Init /\ [][Next]_vars /\ []TypeOK => []ConnInv
  BY InitConnInv, ConnInvStep, PTL
<1> QED
  BY <1>1, TypeCorrect, PTL DEF Spec

\* Every request asks for bytes inside the piece, for one block at most, and for
\* a piece the peer it goes to has: whatever the peers send, and whatever was
\* left of the connection before.
THEOREM RequestsCorrect == Spec => []RequestsInBounds
<1>1. ASSUME TypeOK, ConnInv PROVE RequestsInBounds
  <2> SUFFICES ASSUME NEW k \in OutboxRequests
               PROVE  /\ outbox[k].index \in has[peer]
                      /\ outbox[k].len \in 1 .. BlockSize
                      /\ outbox[k].begin + outbox[k].len <= PieceSize(outbox[k].index)
    BY DEF RequestsInBounds
  <2>1. outbox \in Seq(SoundRequests(peer))
    BY <1>1 DEF ConnInv, QueuesInv
  <2>2. outbox[k] \in SoundRequests(peer) /\ outbox[k].id = "request"
    BY <2>1 DEF OutboxRequests
  <2>3. outbox[k].index \in Nat
    BY <2>2, RequestTypes DEF SoundRequests
  <2> QED
    BY <2>2, <2>3, PlannedInPiece DEF SoundRequests
<1> QED
  BY <1>1, TypeCorrect, ConnectionCorrect, PTL

\* A piece all of whose blocks came from a peer that has the right bytes verifies,
\* whatever else that peer sent and in whatever order: no block is lost, doubled
\* or out of place, and no byte is left of the peer before.
THEOREM HonestCorrect == Spec => []HonestPieceVerifies
<1>1. ASSUME TypeOK, ConnInv PROVE HonestPieceVerifies
  <2> SUFFICES ASSUME pc = "verify", Honest(peer) PROVE Verified
    BY DEF HonestPieceVerifies, Honest
  <2>1. piece \in has[peer] /\ peer \in Peers
    BY <1>1, PeersAssumption DEF ConnInv, FieldInv, Talking, TypeOK, ControlOK, Connected, Peers
  <2>2. piece \in Pieces
    BY <1>1, <2>1 DEF ConnInv, FieldInv, PiecesOf, Honest
  <2>3. pieceString = Bytes(piece, 0, PieceSize(piece))
    BY <1>1 DEF ConnInv, PlanInv
  <2> QED
    BY <2>2, <2>3, TorrentAssumption DEF Verified, Content, Pieces
<1> QED
  BY <1>1, TypeCorrect, ConnectionCorrect, PTL

-----------------------------------------------------------------------------
(* The exchange                                                            *)

\* The places of the messages of one kind in a queue.
Of(q, id) == {k \in 1 .. Len(q) : q[k].id = id}

\* The messages of one kind in queue r are some of those in q, one or no place
\* further on.
Fewer(q, r, id) ==
    \E d \in {0, 1} : \A k \in Of(r, id) : k + d \in Of(q, id) /\ r[k] = q[k + d]

-----------------------------------------------------------------------------
(* Queues                                                                  *)

\* Taking the first message, or adding others, leaves those of a kind.
LEMMA FewerMoves ==
    ASSUME NEW S, NEW q \in Seq(S), NEW id
    PROVE  /\ Fewer(q, q, id)
           /\ q # <<>> => Fewer(q, Tail(q), id)
           /\ Fewer(q, <<>>, id)
           /\ \A m \in S : m.id # id => Fewer(q, Append(q, m), id) /\ Fewer(q, q \o <<m>>, id)
           /\ \A m, n \in S : m.id # id /\ n.id # id => Fewer(q, q \o <<m, n>>, id)
<1> USE DEF Of
<1>1. Fewer(q, q, id) /\ Fewer(q, <<>>, id)
  <2>1. \A k \in Of(q, id) : k + 0 \in Of(q, id) /\ q[k] = q[k + 0]
    OBVIOUS
  <2>2. Of(<<>>, id) = {}
    OBVIOUS
  <2> QED
    BY <2>1, <2>2 DEF Fewer
<1>2. ASSUME q # <<>> PROVE Fewer(q, Tail(q), id)
  <2>1. \A k \in Of(Tail(q), id) : k + 1 \in Of(q, id) /\ Tail(q)[k] = q[k + 1]
    BY <1>2
  <2> QED
    BY <2>1 DEF Fewer
<1>3. ASSUME NEW m \in S, m.id # id
      PROVE  Fewer(q, Append(q, m), id) /\ Fewer(q, q \o <<m>>, id)
  <2>1. \A k \in Of(Append(q, m), id) : k + 0 \in Of(q, id) /\ Append(q, m)[k] = q[k + 0]
    BY <1>3
  <2>2. \A k \in Of(q \o <<m>>, id) : k + 0 \in Of(q, id) /\ (q \o <<m>>)[k] = q[k + 0]
    BY <1>3
  <2> QED
    BY <2>1, <2>2 DEF Fewer
<1>4. ASSUME NEW m \in S, NEW n \in S, m.id # id, n.id # id
      PROVE  Fewer(q, q \o <<m, n>>, id)
  <2>1. \A k \in Of(q \o <<m, n>>, id) : k + 0 \in Of(q, id) /\ (q \o <<m, n>>)[k] = q[k + 0]
    BY <1>4
  <2> QED
    BY <2>1 DEF Fewer
<1> QED
  BY <1>1, <1>2, <1>3, <1>4

\* Adding messages takes none away, and taking the first one only that one.
LEMMA OfMoves ==
    ASSUME NEW S, NEW q \in Seq(S), NEW id
    PROVE  /\ \A m \in S :
                /\ Of(q, id) \subseteq Of(Append(q, m), id)
                /\ Of(q, id) \subseteq Of(q \o <<m>>, id)
                /\ m.id = id => Of(Append(q, m), id) # {} /\ Of(q \o <<m>>, id) # {}
           /\ \A m, n \in S : Of(q, id) \subseteq Of(q \o <<m, n>>, id)
           /\ q # <<>> /\ Head(q).id # id /\ Of(q, id) # {} => Of(Tail(q), id) # {}
<1> USE DEF Of
<1>1. ASSUME NEW m \in S
      PROVE  /\ Of(q, id) \subseteq Of(Append(q, m), id)
             /\ Of(q, id) \subseteq Of(q \o <<m>>, id)
             /\ m.id = id => Of(Append(q, m), id) # {} /\ Of(q \o <<m>>, id) # {}
  <2>1. m.id = id => Len(q) + 1 \in Of(Append(q, m), id) /\ Len(q) + 1 \in Of(q \o <<m>>, id)
    OBVIOUS
  <2>2. Of(q, id) \subseteq Of(Append(q, m), id)
    OBVIOUS
  <2>3. Of(q, id) \subseteq Of(q \o <<m>>, id)
    OBVIOUS
  <2> QED
    BY <2>1, <2>2, <2>3
<1>2. ASSUME NEW m \in S, NEW n \in S PROVE Of(q, id) \subseteq Of(q \o <<m, n>>, id)
  OBVIOUS
<1>3. ASSUME q # <<>>, Head(q).id # id, NEW k \in Of(q, id)
      PROVE  k - 1 \in Of(Tail(q), id)
  BY <1>3
<1> QED
  BY <1>1, <1>2, <1>3

-----------------------------------------------------------------------------
(* What peers do to the queues                                             *)

\* The pieces a message says the peer has.
Told(m) == IF m.id = "have" THEN {m.index}
           ELSE IF m.id = "bitField" THEN m.field.bits ELSE {}

\* A peer takes the messages it gets one by one.
LEMMA PeerTakes ==
    ASSUME PeerStep
    PROVE  \/ outbox' = outbox /\ ~PeerGreets /\ ~PeerServes
           \/ /\ outbox # <<>> /\ outbox' = Tail(outbox)
              /\ Head(outbox).id = "request" <=> PeerServes
              /\ Head(outbox).id = "handshake" <=> PeerGreets
<1>1. CASE PeerGreets \/ PeerNotesInterest \/ PeerServes
  <2>1. outbox # <<>> /\ outbox' = Tail(outbox)
    BY <1>1 DEF PeerGreets, PeerNotesInterest, PeerServes
  <2>2. PeerGreets => Head(outbox).id = "handshake"
    BY DEF PeerGreets
  <2>3. PeerServes => Head(outbox).id = "request"
    BY DEF PeerServes
  <2>4. PeerNotesInterest => Head(outbox).id = "interested"
    BY DEF PeerNotesInterest
  <2> QED
    BY <1>1, <2>1, <2>2, <2>3, <2>4
<1>2. CASE ~PeerGreets /\ ~PeerNotesInterest /\ ~PeerServes
  BY <1>2 DEF PeerStep, PeerAnswers, PeerUnchokes, PeerChokes, PeerHas, PeerKeepsAlive,
              PeerSaysOther, PeerRepeats, PeerCloses
<1> QED
  BY <1>1, <1>2

\* The answer to the handshake: with the bit field, which is the truth.
LEMMA PeerSaysHello ==
    ASSUME TypeOK, PeerGreets
    PROVE  \E hello, field \in ToClient :
              /\ hello.id = "handshake" /\ field.id = "bitField"
              /\ field.field = [size |-> FieldSize(peer), bits |-> has[peer]]
              /\ \/ inbox' = inbox \o <<hello, field>>
                 \/ "nobitfield" \in Events /\ inbox' = inbox \o <<hello>>
<1> DEFINE hello == HandshakeMessage(IF peer \in ForeignPeers THEN "other" ELSE "ours")
           field == BitFieldMessage([size |-> FieldSize(peer), bits |-> has[peer]])
<1>1. link = "open"
  BY DEF PeerGreets
<1>2. hello \in ToClient /\ field \in ToClient
  BY <1>1, SaidSound DEF SoundAnswers
<1>3. /\ hello.id = "handshake" /\ field.id = "bitField"
      /\ field.field = [size |-> FieldSize(peer), bits |-> has[peer]]
  BY DEF HandshakeMessage, BitFieldMessage
<1>4. \/ inbox' = inbox \o <<hello, field>>
      \/ "nobitfield" \in Events /\ inbox' = inbox \o <<hello>>
  BY DEF PeerGreets, FieldSize, Deliver
<1> HIDE DEF hello, field
<1> QED
  BY <1>2, <1>3, <1>4

\* After the greeting a peer sends at most one message at a time, and gets a new
\* piece exactly when it says so.
LEMMA PeerSends ==
    ASSUME TypeOK, PeerStep, ~PeerGreets
    PROVE  \/ inbox' = inbox /\ has' = has
           \/ \E m \in ToClient :
                /\ inbox' = inbox \o <<m>>
                /\ m.id \notin {"handshake", "bitField"}
                /\ m.id = "piece" => PeerServes \/ PeerRepeats
                /\ m.id = "unchoke" => PeerUnchokes
                /\ has'[peer] = has[peer] \cup Told(m)
<1> DEFINE Sends(m) == /\ inbox' = inbox \o <<m>>
                       /\ m.id \notin {"handshake", "bitField"}
                       /\ m.id = "piece" => PeerServes \/ PeerRepeats
                       /\ m.id = "unchoke" => PeerUnchokes
                       /\ has'[peer] = has[peer] \cup Told(m)
<1>a. inbox \in Seq(ToClient) /\ inbox' \in Seq(ToClient)
  BY TypeOKStep DEF TypeOK, QueuesOK, Next
<1>b. link = "open" /\ peer \in Peers /\ has \in [Peers -> SUBSET Nat]
  BY PeerStepKeeps DEF TypeOK, DataOK
<1>c. ASSUME NEW m, Sends(m) PROVE \E n \in ToClient : Sends(n)
  <2>1. m = inbox'[Len(inbox')] /\ Len(inbox') > 0
    BY <1>a, <1>c
  <2>2. m \in ToClient
    BY <1>a, <2>1
  <2> HIDE DEF Sends
  <2> QED
    BY <1>c, <2>2
<1> SUFFICES \/ inbox' = inbox /\ has' = has
             \/ \E m : Sends(m)
  BY <1>c
<1> USE DEF remote
<1>1. CASE PeerNotesInterest \/ PeerCloses
  BY <1>1 DEF PeerNotesInterest, PeerCloses
<1>2. CASE PeerServes
  <2>1. \/ inbox' = inbox
        \/ \E i, begin, data : inbox' = inbox \o <<Piece(i, begin, data)>>
    BY <1>2 DEF PeerServes, Deliver
  <2>2. has' = has
    BY <1>2 DEF PeerServes
  <2>3. \A i, begin, data : Piece(i, begin, data).id = "piece" /\ Told(Piece(i, begin, data)) = {}
    BY DEF Piece, Told
  <2>4. ASSUME NEW i, NEW begin, NEW data, inbox' = inbox \o <<Piece(i, begin, data)>>
        PROVE  Sends(Piece(i, begin, data))
    BY <1>2, <2>2, <2>3, <2>4
  <2> HIDE DEF Sends
  <2> QED
    BY <2>1, <2>2, <2>4
<1>3. CASE PeerUnchokes
  <2>1. Sends(Unchoke)
    BY <1>3 DEF PeerUnchokes, Deliver, Unchoke, Told
  <2> HIDE DEF Sends
  <2> QED
    BY <2>1
<1>4. CASE PeerChokes \/ PeerKeepsAlive \/ PeerSaysOther
  <2>1. PICK m \in {Choke, KeepAlive, Other} : inbox' = inbox \o <<m>>
    BY <1>4 DEF PeerChokes, PeerKeepsAlive, PeerSaysOther, Deliver
  <2>2. has' = has
    BY <1>4 DEF PeerChokes, PeerKeepsAlive, PeerSaysOther
  <2>3. m.id \in {"choke", "keepAlive", "other"}
    BY DEF Choke, KeepAlive, Other
  <2>4. Sends(m)
    BY <2>1, <2>2, <2>3 DEF Told
  <2> HIDE DEF Sends
  <2> QED
    BY <2>4
<1>5. CASE PeerHas
  <2>1. PICK i \in PiecesOf(peer) :
               has' = [has EXCEPT ![peer] = @ \cup {i}] /\ inbox' = inbox \o <<Have(i)>>
    BY <1>5 DEF PeerHas, Deliver
  <2>2. Have(i).id = "have" /\ Told(Have(i)) = {i}
    BY DEF Have, Told
  <2>3. has'[peer] = has[peer] \cup {i}
    BY <1>b, <2>1
  <2>4. Sends(Have(i))
    BY <2>1, <2>2, <2>3
  <2> HIDE DEF Sends
  <2> QED
    BY <2>4
<1>6. CASE PeerRepeats
  <2>1. PICK i, begin, data : inbox' = inbox \o <<Piece(i, begin, data)>>
    BY <1>6 DEF PeerRepeats, Deliver
  <2>2. has' = has
    BY <1>6 DEF PeerRepeats
  <2>3. Piece(i, begin, data).id = "piece" /\ Told(Piece(i, begin, data)) = {}
    BY DEF Piece, Told
  <2>4. Sends(Piece(i, begin, data))
    BY <1>6, <2>1, <2>2, <2>3
  <2> HIDE DEF Sends
  <2> QED
    BY <2>4
<1> QED
  BY <1>1, <1>2, <1>3, <1>4, <1>5, <1>6 DEF PeerStep, PeerAnswers

-----------------------------------------------------------------------------
(* One request at a time                                                   *)

\* Outside of the exchange of blocks no request is remembered.
IdleInv ==
    pc \in {"announce", "next", "handshake", "bitfield", "select", "verify", "write"} =>
        ~requestSent

LEMMA InitIdleInv == Init => IdleInv
BY DEF Init, IdleInv

LEMMA IdleInvStep == IdleInv /\ [Next]_vars => IdleInv'
<1> SUFFICES ASSUME IdleInv, [Next]_vars PROVE IdleInv'
  OBVIOUS
<1> USE DEF IdleInv, session, state, client
<1>1. CASE Announce \/ AnnounceFails \/ Return \/ LeaveList \/ Connect
  BY <1>1 DEF Announce, AnnounceFails, Return, LeaveList, Connect
<1>2. CASE ConnectFails \/ HandshakeFails \/ ReceiveFails \/ SelectNone
  BY <1>2 DEF ConnectFails, HandshakeFails, ReceiveFails, SelectNone, NextPeer, ResetSession
<1>3. CASE ReceiveHandshake
  BY <1>3 DEF ReceiveHandshake, NextPeer, ResetSession
<1>4. CASE ReceiveBitField \/ SelectThrows \/ Select
  BY <1>4 DEF ReceiveBitField, SelectThrows, Select
<1>5. CASE RequestPiece \/ SkipRequest \/ SendKills
  BY <1>5 DEF RequestPiece, SkipRequest, SendKills
<1>6. CASE ReceiveChoke \/ ReceiveHave \/ ReceiveOther
  BY <1>6 DEF ReceiveChoke, ReceiveHave, ReceiveOther
<1>7. CASE ReceivePiece
  BY <1>7 DEF ReceivePiece
<1>8. CASE VerifyFails \/ VerifyPiece \/ VerifyCrashes \/ WriteToFile
  BY <1>8 DEF VerifyFails, VerifyPiece, VerifyCrashes, WriteToFile
<1>9. CASE PeerStep \/ Stopped \/ UNCHANGED vars
  BY <1>9 DEF PeerStep, PeerAnswers, PeerGreets, PeerNotesInterest, PeerServes,
              PeerUnchokes, PeerChokes, PeerHas, PeerKeepsAlive, PeerSaysOther,
              PeerRepeats, PeerCloses, Stopped, vars
<1> QED
  BY <1>1, <1>2, <1>3, <1>4, <1>5, <1>6, <1>7, <1>8, <1>9 DEF Next, ClientStep

\* A request that is awaited stays the one it is.
LEMMA OneRequestKept ==
    ASSUME TypeOK, OneRequestUnderWay,
           Fewer(outbox, outbox', "request"), Fewer(inbox, inbox', "piece"),
           UNCHANGED <<requestSent, piece, offset>> \/ ~requestSent
    PROVE  OneRequestUnderWay'
<1>1. /\ OutboxRequests = Of(outbox, "request") /\ OutboxRequests' = Of(outbox', "request")
      /\ InboxBlocks = Of(inbox, "piece") /\ InboxBlocks' = Of(inbox', "piece")
  BY DEF OutboxRequests, InboxBlocks, Of
<1>2. PICK d \in {0, 1} :
             \A k \in OutboxRequests' : k + d \in OutboxRequests /\ outbox'[k] = outbox[k + d]
  BY <1>1 DEF Fewer
<1>3. PICK e \in {0, 1} :
             \A k \in InboxBlocks' : k + e \in InboxBlocks /\ inbox'[k] = inbox[k + e]
  BY <1>1 DEF Fewer
<1>4. OutboxRequests' \subseteq Int /\ InboxBlocks' \subseteq Int
  BY DEF OutboxRequests, InboxBlocks
<1>5. /\ \A j, k \in OutboxRequests' : j = k
      /\ \A j, k \in InboxBlocks' : j = k
      /\ OutboxRequests' = {} \/ InboxBlocks' = {}
  BY <1>2, <1>3, <1>4 DEF OneRequestUnderWay
<1>6. CASE UNCHANGED <<requestSent, piece, offset>>
  BY <1>2, <1>3, <1>5, <1>6 DEF OneRequestUnderWay, NextBlock
<1>7. CASE ~requestSent
  <2>1. OutboxRequests' = {} /\ InboxBlocks' = {}
    BY <1>2, <1>3, <1>7 DEF OneRequestUnderWay
  <2> QED
    BY <2>1 DEF OneRequestUnderWay
<1> QED
  BY <1>6, <1>7
\* With no connection, nothing is under way.
LEMMA NothingUnderWay ==
    ASSUME inbox' = <<>>, outbox' = <<>>
    PROVE  OneRequestUnderWay'
<1>1. OutboxRequests' = {} /\ InboxBlocks' = {}
  BY DEF OutboxRequests, InboxBlocks
<1> QED
  BY <1>1 DEF OneRequestUnderWay

\* Nothing a peer does unasked, but for sending a block, bears on requests.
LEMMA PeerKeepsRequests ==
    ASSUME TypeOK, PeerStep, ~PeerServes, ~PeerRepeats
    PROVE  Fewer(outbox, outbox', "request") /\ Fewer(inbox, inbox', "piece")
<1>1. inbox \in Seq(ToClient) /\ outbox \in Seq(ToPeer)
  BY DEF TypeOK, QueuesOK
<1>2. Fewer(outbox, outbox', "request")
  BY <1>1, PeerTakes, FewerMoves
<1>3. CASE PeerGreets
  <2>1. PICK hello, field \in ToClient :
               /\ hello.id = "handshake" /\ field.id = "bitField"
               /\ inbox' = inbox \o <<hello, field>> \/ inbox' = inbox \o <<hello>>
    BY <1>3, PeerSaysHello
  <2> QED
    BY <1>1, <1>2, <2>1, FewerMoves
<1>4. CASE ~PeerGreets
  BY <1>1, <1>2, <1>4, PeerSends, FewerMoves
<1> QED
  BY <1>3, <1>4

LEMMA OneRequestStep ==
    ASSUME TypeOK, QueuesInv, IdleInv, OneRequestUnderWay, [Next]_vars, "dup" \notin Events
    PROVE  OneRequestUnderWay'
<1> DEFINE Same == UNCHANGED <<requestSent, piece, offset>> \/ ~requestSent
<1>a. inbox \in Seq(ToClient) /\ outbox \in Seq(ToPeer)
  BY DEF TypeOK, QueuesOK
<1>b. ASSUME Same, inbox' = inbox \/ (inbox # <<>> /\ inbox' = Tail(inbox)),
             \/ outbox' = outbox
             \/ \E m \in ToPeer : m.id # "request" /\ outbox' = Append(outbox, m)
      PROVE  OneRequestUnderWay'
  <2>1. Fewer(outbox, outbox', "request") /\ Fewer(inbox, inbox', "piece")
    BY <1>a, <1>b, FewerMoves
  <2> QED
    BY <1>b, <2>1, OneRequestKept
<1> USE DEF progress, session, locals, visit, state, client, network, remote
<1>1. CASE Announce \/ AnnounceFails \/ Return \/ LeaveList
  BY <1>1, <1>b DEF Announce, AnnounceFails, Return, LeaveList
<1>2. CASE Connect
  <2>1. pc = "next" /\ link = "none" /\ outbox' = <<HandshakeMessage("ours")>> /\ inbox' = inbox
    BY <1>2 DEF Connect, TypeOK, ControlOK
  <2>2. OutboxRequests' = {} /\ InboxBlocks' = {}
    BY <2>1 DEF QueuesInv, OutboxRequests, InboxBlocks, HandshakeMessage
  <2> QED
    BY <2>2 DEF OneRequestUnderWay
<1>3. CASE ConnectFails \/ HandshakeFails \/ ReceiveFails \/ SelectNone
  BY <1>3, NothingUnderWay DEF ConnectFails, HandshakeFails, ReceiveFails, SelectNone, NextPeer
<1>4. CASE ReceiveHandshake
  <2>1. CASE HandshakeRefused(Head(inbox))
    BY <1>4, <2>1, NothingUnderWay DEF ReceiveHandshake, NextPeer
  <2>2. CASE ~HandshakeRefused(Head(inbox))
    BY <1>4, <1>b, <2>2 DEF ReceiveHandshake, Arrived
  <2> QED
    BY <2>1, <2>2
<1>5. CASE ReceiveBitField \/ ReceiveChoke \/ ReceiveHave \/ ReceiveOther
  BY <1>5, <1>b DEF ReceiveBitField, ReceiveChoke, ReceiveHave, ReceiveOther, Arrived
<1>6. CASE SelectThrows \/ SkipRequest \/ SendKills \/ VerifyCrashes
  BY <1>6, <1>b DEF SelectThrows, SkipRequest, SendKills, VerifyCrashes
<1>7. CASE Select
  <2>1. Send(Interested) /\ Same /\ inbox' = inbox
    BY <1>7 DEF Select
  <2>2. Interested \in ToPeer /\ Interested.id # "request"
    BY SentTypes DEF Interested
  <2>3. \/ outbox' = outbox
        \/ \E m \in ToPeer : m.id # "request" /\ outbox' = Append(outbox, m)
    BY <2>1, <2>2 DEF Send
  <2> QED
    BY <1>b, <2>1, <2>3
<1>8. CASE RequestPiece
  <2> DEFINE r == Request(piece, offset, RequestSize(PieceSize(piece), block))
  <2>1. /\ ~requestSent /\ requestSent' /\ UNCHANGED <<piece, offset, inbox>>
        /\ outbox' = outbox \/ outbox' = Append(outbox, r)
    BY <1>8 DEF RequestPiece, WantsRequest, Send
  <2>2. OutboxRequests = {} /\ InboxBlocks = {}
    BY <2>1 DEF OneRequestUnderWay
  <2>3. InboxBlocks' = {}
    BY <2>1, <2>2 DEF InboxBlocks
  <2>4. r \in ToPeer /\ r.index = piece /\ r.begin = offset
    BY SentTypes DEF Request
  <2> HIDE DEF r
  <2>5. \A k \in OutboxRequests' : k = Len(outbox) + 1 /\ outbox'[k] = r
    BY <1>a, <2>1, <2>2, <2>4 DEF OutboxRequests
  <2> QED
    BY <2>1, <2>3, <2>4, <2>5 DEF OneRequestUnderWay
<1>9. CASE ReceivePiece
  <2>1. /\ inbox # <<>> /\ Head(inbox).id = "piece" /\ inbox' = Tail(inbox)
        /\ outbox' = outbox
    BY <1>9 DEF ReceivePiece, Arrived
  <2>2. 1 \in InboxBlocks
    BY <1>a, <2>1 DEF InboxBlocks
  <2>3. OutboxRequests' = {}
    BY <2>1, <2>2 DEF OneRequestUnderWay, OutboxRequests
  <2>4. Fewer(inbox, inbox', "piece")
    BY <1>a, <2>1, FewerMoves
  <2>5. \A k \in InboxBlocks' : k + 1 \in InboxBlocks /\ k > 0
    BY <1>a, <2>1 DEF InboxBlocks
  <2>6. InboxBlocks' = {}
    BY <2>2, <2>5 DEF OneRequestUnderWay, InboxBlocks
  <2> QED
    BY <2>3, <2>6 DEF OneRequestUnderWay
<1>10. CASE VerifyFails \/ VerifyPiece \/ WriteToFile
  BY <1>10, <1>b DEF VerifyFails, VerifyPiece, WriteToFile, IdleInv
<1>11. CASE PeerStep /\ ~PeerServes
  <2>1. Fewer(outbox, outbox', "request") /\ Fewer(inbox, inbox', "piece")
    BY <1>11, PeerKeepsRequests DEF PeerRepeats
  <2> QED
    BY <1>11, <2>1, PeerStepKeeps, OneRequestKept
<1>12. CASE PeerServes
  <2> DEFINE r == Head(outbox)
  <2>1. /\ outbox # <<>> /\ r.id = "request" /\ outbox' = Tail(outbox) /\ UNCHANGED client
        /\ \/ \E data : inbox' = inbox \o <<Piece(r.index, r.begin, data)>>
           \/ inbox' = inbox
    BY <1>12 DEF PeerServes, Deliver
  <2>2. 1 \in OutboxRequests
    BY <1>a, <2>1 DEF OutboxRequests
  <2>3. /\ InboxBlocks = {}
        /\ requestSent' /\ r.index = piece' /\ r.begin = offset'
    BY <1>a, <2>1, <2>2 DEF OneRequestUnderWay
  <2>4. OutboxRequests' = {}
    <3>1. \A k \in OutboxRequests' : k + 1 \in OutboxRequests /\ k > 0
      BY <1>a, <2>1 DEF OutboxRequests
    <3> QED
      BY <2>2, <3>1 DEF OneRequestUnderWay, OutboxRequests
  <2>5. CASE inbox' = inbox
    BY <2>3, <2>4, <2>5 DEF OneRequestUnderWay, InboxBlocks
  <2>6. ASSUME NEW data, inbox' = inbox \o <<Piece(r.index, r.begin, data)>>
        PROVE  OneRequestUnderWay'
    <3> DEFINE m == Piece(r.index, r.begin, data)
    <3>1. m.index = piece' /\ m.begin = offset'
      BY <2>3 DEF Piece
    <3> HIDE DEF m
    <3>2. \A k \in InboxBlocks' : k = Len(inbox) + 1 /\ inbox'[k] = m
      BY <1>a, <2>3, <2>6 DEF InboxBlocks, m
    <3> QED
      BY <2>3, <2>4, <3>1, <3>2 DEF OneRequestUnderWay, NextBlock
  <2> QED
    BY <2>1, <2>5, <2>6
<1>13. CASE Stopped \/ UNCHANGED vars
  BY <1>13, <1>b DEF Stopped, vars
<1> QED
  BY <1>1, <1>2, <1>3, <1>4, <1>5, <1>6, <1>7, <1>8, <1>9, <1>10, <1>11, <1>12, <1>13
     DEF Next, ClientStep

\* In every state the queues are sound and no request is remembered in vain.
LEMMA ExchangeBasics == Spec => [](TypeOK /\ ConnInv /\ IdleInv)
<1>1. Init /\ [][Next]_vars => []IdleInv
  BY InitIdleInv, IdleInvStep, PTL
<1> QED
  BY <1>1, TypeCorrect, ConnectionCorrect, PTL DEF Spec

\* requestSent tells the truth about a peer that sends no block unasked: at most
\* one request, or the block it asked for, is under way, over every connection
\* and whatever else the peer does, chokes included.
THEOREM OneRequestCorrect ==
    ASSUME "dup" \notin Events
    PROVE  Spec => []OneRequestUnderWay
<1>1. Init => OneRequestUnderWay
  BY DEF Init, OneRequestUnderWay, OutboxRequests, InboxBlocks
<1>2. TypeOK /\ ConnInv /\ IdleInv /\ OneRequestUnderWay /\ [Next]_vars => OneRequestUnderWay'
  BY OneRequestStep DEF ConnInv
<1> QED
  BY <1>1, <1>2, ExchangeBasics, PTL DEF Spec
-----------------------------------------------------------------------------
(* Waiting                                                                 *)

\* While a request is awaited it, or its block, is on its way; and a peer that
\* the client takes for unchoked serves.
WaitInv ==
    /\ pc = "receive" => choke \/ requestSent
    /\ link = "open" /\ requestSent => Of(outbox, "request") # {} \/ Of(inbox, "piece") # {}
    /\ ~choke \/ Of(inbox, "unchoke") # {} \/ Of(outbox, "request") # {} => ~peerChoking

LEMMA InitWaitInv == Init => WaitInv
BY DEF Init, WaitInv, Of

\* Fewer messages of a kind: there are some only if there were.
LEMMA FewerNone ==
    ASSUME NEW q, NEW r, NEW id, Fewer(q, r, id), Of(r, id) # {}
    PROVE  Of(q, id) # {}
BY DEF Fewer

\* The step that begins to wait is the one that has just looked at the flags.
LEMMA WaitBegins ==
    ASSUME WaitInv, TypeOK, [Next]_vars, pc' = "receive"
    PROVE  choke' \/ requestSent'
<1> USE DEF session, state, client
<1>1. CASE RequestPiece
  BY <1>1 DEF RequestPiece
<1>2. CASE SkipRequest
  BY <1>2 DEF SkipRequest, WantsRequest, TypeOK, FlagsOK
<1>3. CASE UNCHANGED client
  BY <1>3 DEF WaitInv
<1>4. CASE Announce \/ AnnounceFails \/ Return \/ LeaveList \/ Connect \/ ConnectFails
             \/ ReceiveHandshake \/ HandshakeFails \/ ReceiveBitField \/ ReceiveFails
  BY <1>4 DEF Announce, AnnounceFails, Return, LeaveList, Connect, ConnectFails, ReceiveHandshake,
              HandshakeFails, ReceiveBitField, ReceiveFails, NextPeer
<1>5. CASE SelectThrows \/ SelectNone \/ Select \/ SendKills \/ ReceiveChoke \/ ReceiveHave
             \/ ReceiveOther \/ ReceivePiece \/ VerifyFails \/ VerifyPiece \/ VerifyCrashes
             \/ WriteToFile
  BY <1>5 DEF SelectThrows, SelectNone, Select, SendKills, ReceiveChoke, ReceiveHave, ReceiveOther,
              ReceivePiece, VerifyFails, VerifyPiece, VerifyCrashes, WriteToFile, NextPeer
<1> QED
  BY <1>1, <1>2, <1>3, <1>4, <1>5, PeerStepKeeps DEF Next, ClientStep, Stopped, vars

\* Nor does it unchoke the client in passing, or take blocks back.
LEMMA UnaskedKeeps ==
    ASSUME TypeOK, PeerStep, ~PeerUnchokes
    PROVE  /\ Of(inbox', "unchoke") # {} => Of(inbox, "unchoke") # {}
           /\ Of(inbox, "piece") # {} => Of(inbox', "piece") # {}
<1>1. inbox \in Seq(ToClient)
  BY DEF TypeOK, QueuesOK
<1>2. \/ inbox' = inbox
      \/ \E m \in ToClient : m.id # "unchoke" /\ inbox' = inbox \o <<m>>
      \/ \E m, n \in ToClient :
            m.id # "unchoke" /\ n.id # "unchoke" /\ inbox' = inbox \o <<m, n>>
  <2>1. CASE PeerGreets
    <3>1. PICK hello, field \in ToClient :
                 /\ hello.id = "handshake" /\ field.id = "bitField"
                 /\ inbox' = inbox \o <<hello, field>> \/ inbox' = inbox \o <<hello>>
      BY <2>1, PeerSaysHello
    <3>2. hello.id # "unchoke" /\ field.id # "unchoke"
      BY <3>1
    <3> QED
      BY <3>1, <3>2
  <2>2. CASE ~PeerGreets
    BY <2>2, PeerSends
  <2> QED
    BY <2>1, <2>2
<1>3. Fewer(inbox, inbox', "unchoke")
  BY <1>1, <1>2, FewerMoves
<1>4. Of(inbox, "piece") \subseteq Of(inbox', "piece")
  BY <1>1, <1>2, OfMoves
<1> QED
  BY <1>3, <1>4, FewerNone

LEMMA WaitInvStep ==
    ASSUME TypeOK, QueuesInv, IdleInv, WaitInv, [Next]_vars, "choke" \notin Events
    PROVE  WaitInv'
<1> DEFINE Owed == link = "open" /\ requestSent =>
                     Of(outbox, "request") # {} \/ Of(inbox, "piece") # {}
           Served == ~choke \/ Of(inbox, "unchoke") # {} \/ Of(outbox, "request") # {} =>
                       ~peerChoking
<1>a. inbox \in Seq(ToClient) /\ outbox \in Seq(ToPeer)
  BY DEF TypeOK, QueuesOK
<1>b. Owed /\ Served
  BY DEF WaitInv
\* A step keeps what it shares with the state before.
<1>c. ASSUME Owed', Served' PROVE WaitInv'
  BY <1>c, WaitBegins DEF WaitInv
<1>d. ASSUME UNCHANGED <<choke, requestSent, network, peerChoking>> PROVE WaitInv'
  BY <1>b, <1>c, <1>d DEF network
<1>e. ASSUME NextPeer PROVE WaitInv'
  <2>1. Of(<<>>, "unchoke") = {} /\ Of(<<>>, "request") = {}
    BY DEF Of
  <2> QED
    BY <1>c, <1>e, <2>1 DEF NextPeer, ResetSession
\* A message that is neither a block nor an unchoke is received.
<1>f. ASSUME inbox # <<>>, inbox' = Tail(inbox), outbox' = outbox, link' = link,
             peerChoking' = peerChoking, requestSent' = requestSent,
             requestSent => Head(inbox).id # "piece",
             choke' = choke \/ choke' \/ Head(inbox).id = "unchoke"
      PROVE  WaitInv'
  <2>1. Fewer(inbox, inbox', "unchoke")
    BY <1>a, <1>f, FewerMoves
  <2>2. Of(inbox', "unchoke") # {} => Of(inbox, "unchoke") # {}
    BY <2>1, FewerNone
  <2>3. requestSent /\ Of(inbox, "piece") # {} => Of(inbox', "piece") # {}
    BY <1>a, <1>f, OfMoves
  <2>4. Head(inbox).id = "unchoke" => Of(inbox, "unchoke") # {}
    <3>1. Head(inbox).id = "unchoke" => 1 \in Of(inbox, "unchoke")
      BY <1>a, <1>f DEF Of
    <3> QED
      BY <3>1
  <2>5. Owed'
    BY <1>b, <1>f, <2>3
  <2>6. Served'
    BY <1>b, <1>f, <2>2, <2>4
  <2> QED
    BY <1>c, <2>5, <2>6
<1> USE DEF session, locals, visit, state, client, network, remote
<1>1. CASE Announce \/ AnnounceFails \/ Return \/ LeaveList
  BY <1>1, <1>d DEF Announce, AnnounceFails, Return, LeaveList
<1>2. CASE Connect
  <2>1. /\ pc = "next" /\ outbox' = <<HandshakeMessage("ours")>> /\ inbox' = inbox
        /\ UNCHANGED <<choke, requestSent, peerChoking>>
    BY <1>2 DEF Connect
  <2>2. Of(outbox', "request") = {}
    BY <2>1 DEF Of, HandshakeMessage
  <2>3. ~requestSent'
    BY <2>1 DEF IdleInv
  <2> QED
    BY <1>b, <1>c, <2>1, <2>2, <2>3
<1>3. CASE ConnectFails \/ HandshakeFails \/ ReceiveFails \/ SelectNone
  BY <1>3, <1>e DEF ConnectFails, HandshakeFails, ReceiveFails, SelectNone
<1>4. CASE ReceiveHandshake
  <2>1. CASE HandshakeRefused(Head(inbox))
    BY <1>4, <2>1, <1>e DEF ReceiveHandshake
  <2>2. CASE ~HandshakeRefused(Head(inbox))
    BY <1>4, <2>2, <1>f DEF ReceiveHandshake, Arrived
  <2> QED
    BY <2>1, <2>2
<1>5. CASE ReceiveBitField
  BY <1>5, <1>f DEF ReceiveBitField, Arrived, IdleInv
<1>6. CASE ReceiveChoke
  BY <1>6, <1>f DEF ReceiveChoke, Arrived
<1>7. CASE ReceiveHave \/ ReceiveOther
  BY <1>7, <1>f DEF ReceiveHave, ReceiveOther, Arrived
<1>8. CASE ReceivePiece
  <2>1. /\ inbox # <<>> /\ inbox' = Tail(inbox) /\ requestSent' = FALSE
        /\ UNCHANGED <<choke, outbox, peerChoking>>
    BY <1>8 DEF ReceivePiece, Arrived
  <2>2. Fewer(inbox, inbox', "unchoke")
    BY <1>a, <2>1, FewerMoves
  <2>3. Of(inbox', "unchoke") # {} => Of(inbox, "unchoke") # {}
    BY <2>2, FewerNone
  <2> QED
    BY <1>b, <1>c, <2>1, <2>3
<1>9. CASE SelectThrows \/ SkipRequest \/ SendKills \/ VerifyFails \/ VerifyPiece
             \/ VerifyCrashes \/ WriteToFile
  BY <1>9, <1>d DEF SelectThrows, SkipRequest, SendKills, VerifyFails, VerifyPiece,
                    VerifyCrashes, WriteToFile
<1>10. CASE Select
  <2>1. pc = "select" /\ Send(Interested) /\ UNCHANGED <<choke, requestSent, inbox, peerChoking>>
    BY <1>10 DEF Select
  <2>2. ~requestSent'
    BY <2>1 DEF IdleInv
  <2>3. Of(outbox', "request") # {} => Of(outbox, "request") # {}
    <3>1. Interested \in ToPeer /\ Interested.id # "request"
      BY SentTypes DEF Interested
    <3>2. Fewer(outbox, outbox', "request")
      BY <1>a, <2>1, <3>1, FewerMoves DEF Send
    <3> QED
      BY <3>2, FewerNone
  <2> QED
    BY <1>b, <1>c, <2>1, <2>2, <2>3
<1>11. CASE RequestPiece
  <2> DEFINE r == Request(piece, offset, RequestSize(PieceSize(piece), block))
  <2>1. ~choke /\ Send(r) /\ UNCHANGED <<choke, inbox, peerChoking>>
    BY <1>11 DEF RequestPiece, WantsRequest
  <2>2. ~peerChoking'
    BY <1>b, <2>1
  <2>3. r \in ToPeer /\ r.id = "request"
    BY SentTypes DEF Request
  <2>4. link' = "open" => Of(outbox', "request") # {}
    BY <1>a, <2>1, <2>3, OfMoves DEF Send
  <2> QED
    BY <1>c, <2>2, <2>4
<1>12. CASE PeerStep /\ ~PeerServes /\ ~PeerUnchokes
  <2>0. UNCHANGED client
    BY <1>12, PeerStepKeeps
  <2>1. peerChoking' = peerChoking
    BY <1>12 DEF PeerStep, PeerAnswers, PeerGreets, PeerNotesInterest, PeerChokes, PeerHas,
                 PeerKeepsAlive, PeerSaysOther, PeerRepeats, PeerCloses
  <2>2. \/ outbox' = outbox
        \/ outbox # <<>> /\ Head(outbox).id # "request" /\ outbox' = Tail(outbox)
    BY <1>12, PeerTakes
  <2>3. (Of(outbox', "request") # {}) = (Of(outbox, "request") # {})
    <3>1. Fewer(outbox, outbox', "request")
      BY <1>a, <2>2, FewerMoves
    <3> QED
      BY <1>a, <2>2, <3>1, FewerNone, OfMoves
  <2>4. link' = "open" => link = "open"
    BY <1>12, PeerStepKeeps
  <2>5. /\ Of(inbox', "unchoke") # {} => Of(inbox, "unchoke") # {}
        /\ Of(inbox, "piece") # {} => Of(inbox', "piece") # {}
    BY <1>12, UnaskedKeeps
  <2> QED
    BY <1>b, <1>c, <2>0, <2>1, <2>3, <2>4, <2>5
<1>13. CASE PeerUnchokes
  <2>1. peerChoking' = FALSE /\ inbox' = inbox \o <<Unchoke>> /\ UNCHANGED <<client, outbox, link>>
    BY <1>13 DEF PeerUnchokes, Deliver
  <2>2. Of(inbox, "piece") \subseteq Of(inbox', "piece")
    BY <1>a, <2>1, OfMoves, AnswerTypes
  <2> QED
    BY <1>b, <1>c, <2>1, <2>2
<1>14. CASE PeerServes
  <2> DEFINE r == Head(outbox)
  <2>1. /\ outbox # <<>> /\ r.id = "request" /\ outbox' = Tail(outbox)
        /\ UNCHANGED <<client, peerChoking, link>>
    BY <1>14 DEF PeerServes
  <2>2. ~peerChoking
    <3>1. 1 \in Of(outbox, "request")
      BY <1>a, <2>1 DEF Of
    <3> QED
      BY <1>b, <3>1
  <2>3. PICK data \in Seq(Byte) : inbox' = inbox \o <<Piece(r.index, r.begin, data)>>
    <3>1. r \in ToPeer /\ r.id = "request"
      BY <1>a, <2>1, HeadTail
    <3>2. Bytes(r.index, r.begin, r.len) \in Seq(Byte) /\ Garbage(r.len) \in Seq(Byte)
      BY <3>1, RequestTypes, BytesType
    <3> QED
      BY <1>14, <2>2, <3>2 DEF PeerServes, Deliver
  <2>4. Piece(r.index, r.begin, data) \in ToClient /\ Piece(r.index, r.begin, data).id = "piece"
    <3>1. r \in ToPeer
      BY <1>a, <2>1, HeadTail
    <3>2. r.index \in Nat /\ r.begin \in Nat
      BY <2>1, <3>1, RequestTypes
    <3> QED
      BY <3>2, PieceType DEF Piece
  <2>5. Of(inbox', "piece") # {}
    BY <1>a, <2>3, <2>4, OfMoves
  <2> QED
    BY <1>c, <2>1, <2>2, <2>5
<1>15. CASE Stopped \/ UNCHANGED vars
  BY <1>15, <1>d DEF Stopped, vars
<1> QED
  BY <1>1, <1>2, <1>3, <1>4, <1>5, <1>6, <1>7, <1>8, <1>9, <1>10, <1>11, <1>12, <1>13, <1>14,
     <1>15 DEF Next, ClientStep

\* The client never waits, unchoked, for a peer it has no request with, as long as
\* peers do not choke again: not over the second connection either, and not
\* after a block nobody asked for.
THEOREM NoIdleWaitCorrect ==
    ASSUME "choke" \notin Events
    PROVE  Spec => []NoIdleWait
<1>1. TypeOK /\ ConnInv /\ IdleInv /\ WaitInv /\ [Next]_vars => WaitInv'
  BY WaitInvStep DEF ConnInv
<1>2. WaitInv => NoIdleWait
  BY DEF WaitInv, NoIdleWait, OutboxRequests, Of
<1> QED
  BY <1>1, <1>2, InitWaitInv, ExchangeBasics, PTL DEF Spec
-----------------------------------------------------------------------------
(* The greeting                                                            *)

\* No handshake and no bit field among the messages.
Plain(q) == Of(q, "handshake") = {} /\ Of(q, "bitField") = {}

\* A bit field, and it comes first.
Introduced(q) == q # <<>> /\ Head(q).id = "bitField" /\ Plain(Tail(q))

\* What the messages say the peer has.
Tells(q) == UNION {Told(q[k]) : k \in 1 .. Len(q)}

\* Handshake, then bit field, then everything else; and the bit field at hand is
\* the one that came, not the empty string.
GreetInv ==
    /\ pc = "handshake" =>
          \/ outbox = <<HandshakeMessage("ours")>> /\ inbox = <<>>
          \/ /\ outbox = <<>> /\ inbox # <<>>
             /\ Head(inbox).id = "handshake" /\ Introduced(Tail(inbox))
    /\ pc = "bitfield" => outbox = <<>> /\ Introduced(inbox)
    /\ pc \in Talking =>
          Of(outbox, "handshake") = {} /\ Plain(inbox) /\ bitField.size = FieldSize(peer)

\* What the client has heard and what it will hear is what the peer has.
TellInv ==
    /\ pc \in Talking => has[peer] = bitField.bits \cup Tells(inbox)
    /\ pc = "bitfield" \/ (pc = "handshake" /\ outbox = <<>>) => has[peer] = Tells(inbox)

LEMMA InitGreetInv == Init => GreetInv /\ TellInv
BY DEF Init, GreetInv, TellInv, Talking

\* Messages without a handshake and a bit field leave a queue as plain as it is.
LEMMA PlainMoves ==
    ASSUME NEW S, NEW q \in Seq(S)
    PROVE  /\ Plain(<<>>)
           /\ Plain(q) /\ q # <<>> => Plain(Tail(q)) /\ Head(q).id # "bitField"
           /\ \A m \in S : m.id \notin {"handshake", "bitField"} =>
                /\ Plain(q) => Plain(q \o <<m>>)
                /\ Introduced(q) => Introduced(q \o <<m>>)
<1>1. Plain(<<>>)
  BY DEF Plain, Of
<1>2. ASSUME NEW r \in Seq(S), Plain(r), r # <<>> PROVE Plain(Tail(r)) /\ Head(r).id # "bitField"
  <2>1. Head(r).id = "bitField" => 1 \in Of(r, "bitField")
    BY <1>2 DEF Of
  <2>2. Fewer(r, Tail(r), "handshake") /\ Fewer(r, Tail(r), "bitField")
    BY <1>2, FewerMoves
  <2> QED
    BY <1>2, <2>1, <2>2, FewerNone DEF Plain
<1>3. ASSUME NEW r \in Seq(S), NEW m \in S, m.id \notin {"handshake", "bitField"}, Plain(r)
      PROVE  Plain(r \o <<m>>)
  <2>1. Fewer(r, r \o <<m>>, "handshake") /\ Fewer(r, r \o <<m>>, "bitField")
    BY <1>3, FewerMoves
  <2> QED
    BY <1>3, <2>1, FewerNone DEF Plain
<1>4. ASSUME NEW m \in S, m.id \notin {"handshake", "bitField"}, Introduced(q)
      PROVE  Introduced(q \o <<m>>)
  <2>1. /\ q # <<>> /\ q \o <<m>> # <<>> /\ Head(q \o <<m>>) = Head(q)
        /\ Tail(q \o <<m>>) = Tail(q) \o <<m>> /\ Tail(q) \in Seq(S)
    BY <1>4 DEF Introduced
  <2> QED
    BY <1>3, <1>4, <2>1 DEF Introduced
<1> QED
  BY <1>1, <1>2, <1>3, <1>4

\* What is told moves with the messages.
LEMMA TellsMoves ==
    ASSUME NEW S, NEW q \in Seq(S)
    PROVE  /\ Tells(<<>>) = {}
           /\ q # <<>> => Tells(q) = Told(Head(q)) \cup Tells(Tail(q))
           /\ \A m \in S : Tells(q \o <<m>>) = Tells(q) \cup Told(m)
           /\ \A m, n \in S : Tells(<<m, n>>) = Told(m) \cup Told(n)
<1>0. \A r, x : x \in Tells(r) <=> \E k \in 1 .. Len(r) : x \in Told(r[k])
  BY DEF Tells
<1>1. Tells(<<>>) = {}
  BY <1>0
<1>2. ASSUME q # <<>> PROVE Tells(q) = Told(Head(q)) \cup Tells(Tail(q))
  <2>1. ASSUME NEW x \in Tells(q) PROVE x \in Told(Head(q)) \cup Tells(Tail(q))
    <3>1. PICK k \in 1 .. Len(q) : x \in Told(q[k])
      BY <1>0, <2>1
    <3>2. CASE k = 1
      BY <1>2, <3>1, <3>2
    <3>3. CASE k # 1
      <4>1. k - 1 \in 1 .. Len(Tail(q)) /\ Tail(q)[k - 1] = q[k]
        BY <1>2, <3>3
      <4> QED
        BY <1>0, <3>1, <4>1
    <3> QED
      BY <3>2, <3>3
  <2>2. ASSUME NEW x \in Tells(Tail(q)) PROVE x \in Tells(q)
    <3>1. PICK k \in 1 .. Len(Tail(q)) : x \in Told(Tail(q)[k])
      BY <1>0, <2>2
    <3>2. k + 1 \in 1 .. Len(q) /\ Tail(q)[k] = q[k + 1]
      BY <1>2
    <3> QED
      BY <1>0, <3>1, <3>2
  <2>3. Told(Head(q)) \subseteq Tells(q)
    <3>1. 1 \in 1 .. Len(q) /\ Head(q) = q[1]
      BY <1>2
    <3> QED
      BY <1>0, <3>1
  <2> QED
    BY <2>1, <2>2, <2>3
<1>3. ASSUME NEW m \in S PROVE Tells(q \o <<m>>) = Tells(q) \cup Told(m)
  <2> DEFINE r == q \o <<m>>
  <2>1. /\ Len(r) = Len(q) + 1 /\ Len(q) \in Nat /\ r[Len(q) + 1] = m
        /\ \A k \in 1 .. Len(q) : r[k] = q[k]
    OBVIOUS
  <2> HIDE DEF r
  <2>2. \A x : x \in Tells(r) <=> x \in Tells(q) \/ x \in Told(m)
    BY <1>0, <2>1
  <2>3. Tells(r) = Tells(q) \cup Told(m)
    BY <2>2
  <2> QED
    BY <2>3 DEF r
<1>4. ASSUME NEW m \in S, NEW n \in S PROVE Tells(<<m, n>>) = Told(m) \cup Told(n)
  <2> DEFINE r == <<m, n>>
  <2>1. Len(r) = 2 /\ r[1] = m /\ r[2] = n
    OBVIOUS
  <2> HIDE DEF r
  <2>2. \A x : x \in Tells(r) <=> x \in Told(m) \/ x \in Told(n)
    BY <1>0, <2>1
  <2>3. Tells(r) = Told(m) \cup Told(n)
    BY <2>2
  <2> QED
    BY <2>3 DEF r
<1> QED
  BY <1>1, <1>2, <1>3, <1>4
\* Only the end of the connection is possible before the handshake is answered.
LEMMA NotReady ==
    ASSUME PeerStep, ~PeerGreets, outbox # <<>>, Head(outbox).id = "handshake"
    PROVE  UNCHANGED <<inbox, outbox>>
<1>1. ~PeerReady
  BY DEF PeerReady
<1> QED
  BY <1>1 DEF PeerStep, PeerAnswers, PeerNotesInterest, PeerServes, PeerUnchokes, PeerChokes,
              PeerHas, PeerKeepsAlive, PeerSaysOther, PeerRepeats, PeerCloses

LEMMA GreetPeerStep ==
    ASSUME TypeOK, GreetInv, TellInv, PeerStep, "nobitfield" \notin Events
    PROVE  GreetInv' /\ TellInv'
<1>a. inbox \in Seq(ToClient) /\ outbox \in Seq(ToPeer)
  BY DEF TypeOK, QueuesOK
<1>b. /\ UNCHANGED <<pc, bitField, peer>> /\ FieldSize(peer)' = FieldSize(peer)
      /\ pc \in {"handshake", "bitfield"} \cup Talking \cup Ended
      /\ has \in [Peers -> SUBSET Nat] /\ peer \in Peers
  BY PeerStepKeeps DEF client, state, visit, FieldSize, TypeOK, ControlOK, Connected, Talking,
                       DataOK
<1>c. CASE pc \in Ended
  BY <1>b, <1>c DEF Ended, GreetInv, TellInv, Talking
<1>1. CASE PeerGreets
  <2>1. outbox # <<>> /\ Head(outbox).id = "handshake" /\ outbox' = Tail(outbox) /\ has' = has
    BY <1>1 DEF PeerGreets, remote
  <2>2. pc \notin Talking
    <3>1. 1 \in Of(outbox, "handshake")
      BY <1>a, <2>1 DEF Of
    <3> QED
      BY <3>1 DEF GreetInv
  <2>3. CASE pc = "handshake"
    <3>1. outbox = <<HandshakeMessage("ours")>> /\ inbox = <<>>
      BY <2>1, <2>3 DEF GreetInv
    <3>2. outbox' = <<>>
      BY <2>1, <3>1
    <3>3. PICK hello, field \in ToClient :
                 /\ hello.id = "handshake" /\ field.id = "bitField"
                 /\ field.field = [size |-> FieldSize(peer), bits |-> has[peer]]
                 /\ inbox' = inbox \o <<hello, field>>
      BY <1>1, PeerSaysHello
    <3>4. inbox' = <<hello, field>>
      BY <3>1, <3>3
    <3>5. Introduced(Tail(inbox'))
      <4>1. Tail(inbox') = <<field>> /\ Tail(<<field>>) = <<>> /\ Head(<<field>>) = field
        BY <3>4
      <4>2. Plain(<<>>) /\ <<field>> # <<>>
        BY <1>a, PlainMoves
      <4> QED
        BY <3>3, <4>1, <4>2 DEF Introduced
    <3>6. Tells(inbox') = Told(hello) \cup Told(field)
      BY <1>a, <3>4, TellsMoves
    <3>7. Told(hello) = {} /\ Told(field) = has[peer]
      BY <3>3 DEF Told
    <3> QED
      BY <1>b, <2>1, <2>3, <3>2, <3>3, <3>4, <3>5, <3>6, <3>7 DEF GreetInv, TellInv, Talking
  <2>4. CASE pc = "bitfield"
    BY <2>1, <2>4 DEF GreetInv
  <2> QED
    BY <1>b, <1>c, <2>2, <2>3, <2>4
<1>2. CASE ~PeerGreets /\ outbox # <<>> /\ Head(outbox).id = "handshake"
  <2>1. UNCHANGED <<inbox, outbox>>
    BY <1>2, NotReady
  <2>2. pc \notin Talking
    <3>1. 1 \in Of(outbox, "handshake")
      BY <1>a, <1>2 DEF Of
    <3> QED
      BY <3>1 DEF GreetInv
  <2> QED
    BY <1>b, <1>2, <2>1, <2>2 DEF GreetInv, TellInv, Talking
<1>3. CASE ~PeerGreets /\ ~(outbox # <<>> /\ Head(outbox).id = "handshake")
  <2>1. outbox' = outbox \/ (outbox # <<>> /\ outbox' = Tail(outbox))
    BY PeerTakes
  <2>2. Of(outbox, "handshake") = {} => Of(outbox', "handshake") = {}
    <3>1. Fewer(outbox, outbox', "handshake")
      BY <1>a, <2>1, FewerMoves
    <3> QED
      BY <3>1, FewerNone
  <2>3. CASE inbox' = inbox /\ has' = has
    BY <1>b, <1>3, <2>1, <2>2, <2>3 DEF GreetInv, TellInv, HandshakeMessage
  <2>4. ASSUME NEW m \in ToClient, inbox' = inbox \o <<m>>, m.id \notin {"handshake", "bitField"},
               has'[peer] = has[peer] \cup Told(m)
        PROVE  GreetInv' /\ TellInv'
    <3>1. Tells(inbox') = Tells(inbox) \cup Told(m)
      BY <1>a, <2>4, TellsMoves
    <3>2. /\ Plain(inbox) => Plain(inbox')
          /\ Introduced(inbox) => Introduced(inbox')
      BY <1>a, <2>4, PlainMoves
    <3>3. inbox # <<>> => /\ inbox' # <<>> /\ Head(inbox') = Head(inbox)
                          /\ Tail(inbox') = Tail(inbox) \o <<m>> /\ Tail(inbox) \in Seq(ToClient)
      BY <1>a, <2>4
    <3>4. inbox # <<>> /\ Introduced(Tail(inbox)) => Introduced(Tail(inbox'))
      BY <2>4, <3>3, PlainMoves
    <3>5. GreetInv'
      BY <1>b, <1>3, <2>1, <2>2, <3>2, <3>3, <3>4 DEF GreetInv, HandshakeMessage
    <3>6. TellInv'
      BY <1>b, <1>3, <2>1, <2>4, <3>1 DEF GreetInv, TellInv, HandshakeMessage
    <3> QED
      BY <3>5, <3>6
  <2> QED
    BY <1>3, <2>3, <2>4, PeerSends
<1> QED
  BY <1>1, <1>2, <1>3

LEMMA GreetClientStep ==
    ASSUME TypeOK, QueuesInv, GreetInv, TellInv, ClientStep, "nobitfield" \notin Events
    PROVE  GreetInv' /\ TellInv'
<1>a. inbox \in Seq(ToClient) /\ outbox \in Seq(ToPeer) /\ bitField \in BitFields
  BY DEF TypeOK, QueuesOK, DataOK
<1>b. ASSUME pc' \notin {"handshake", "bitfield"} \cup Talking PROVE GreetInv' /\ TellInv'
  BY <1>b DEF GreetInv, TellInv, Talking
\* Steps of the exchange that leave the messages to the client alone.
<1>c. ASSUME pc \in Talking, pc' \in Talking, UNCHANGED <<bitField, peer, has, inbox>>,
             \/ outbox' = outbox
             \/ \E m \in ToPeer : m.id # "handshake" /\ outbox' = Append(outbox, m)
      PROVE  GreetInv' /\ TellInv'
  <2>1. Fewer(outbox, outbox', "handshake")
    BY <1>a, <1>c, FewerMoves
  <2>2. Of(outbox', "handshake") = {}
    BY <1>c, <2>1, FewerNone DEF GreetInv
  <2> QED
    BY <1>c, <2>2 DEF GreetInv, TellInv, Talking, FieldSize
\* Steps of the exchange that receive a message.
<1>d. ASSUME pc \in Talking, pc' \in Talking, UNCHANGED <<peer, has, outbox>>,
             inbox # <<>>, inbox' = Tail(inbox), bitField'.size = bitField.size,
             bitField'.bits = bitField.bits \cup Told(Head(inbox))
      PROVE  GreetInv' /\ TellInv'
  <2>1. Tells(inbox) = Told(Head(inbox)) \cup Tells(inbox')
    BY <1>a, <1>d, TellsMoves
  <2>2. Plain(inbox) => Plain(inbox')
    BY <1>a, <1>d, PlainMoves
  <2>3. GreetInv'
    BY <1>d, <2>2 DEF GreetInv, Talking, FieldSize
  <2>4. TellInv'
    BY <1>d, <2>1 DEF TellInv, Talking
  <2> QED
    BY <2>3, <2>4
<1> USE DEF progress, visit, session, state, client, network, remote
<1>1. CASE Announce \/ AnnounceFails \/ Return \/ LeaveList \/ ConnectFails \/ HandshakeFails
             \/ ReceiveFails \/ SelectThrows \/ SelectNone \/ SendKills \/ VerifyCrashes
  BY <1>1, <1>b DEF Announce, AnnounceFails, Return, LeaveList, ConnectFails, HandshakeFails,
                    ReceiveFails, SelectThrows, SelectNone, SendKills, VerifyCrashes, NextPeer,
                    Talking
<1>2. CASE Connect
  <2>1. pc = "next" /\ pc' = "handshake" /\ inbox' = inbox
        /\ outbox' = <<HandshakeMessage("ours")>>
    BY <1>2 DEF Connect
  <2>2. inbox = <<>>
    BY <2>1 DEF QueuesInv, TypeOK, ControlOK
  <2> QED
    BY <2>1, <2>2 DEF GreetInv, TellInv, Talking
<1>3. CASE ReceiveHandshake
  <2>1. CASE HandshakeRefused(Head(inbox))
    BY <1>3, <2>1, <1>b DEF ReceiveHandshake, NextPeer, Talking
  <2>2. CASE ~HandshakeRefused(Head(inbox))
    <3>1. /\ pc = "handshake" /\ pc' = "bitfield" /\ UNCHANGED <<peer, has, outbox>>
          /\ inbox # <<>> /\ Head(inbox).id = "handshake" /\ inbox' = Tail(inbox)
      BY <1>3, <2>2 DEF ReceiveHandshake, Arrived
    <3>2. outbox = <<>> /\ Introduced(inbox')
      BY <3>1 DEF GreetInv
    <3>3. Tells(inbox) = Told(Head(inbox)) \cup Tells(inbox')
      BY <1>a, <3>1, TellsMoves
    <3>4. Told(Head(inbox)) = {}
      BY <3>1 DEF Told
    <3> QED
      BY <3>1, <3>2, <3>3, <3>4 DEF GreetInv, TellInv, Talking
  <2> QED
    BY <2>1, <2>2
<1>4. CASE ReceiveBitField
  <2>1. /\ pc = "bitfield" /\ pc' = "select" /\ UNCHANGED <<peer, has, outbox>>
        /\ inbox # <<>> /\ inbox' = Tail(inbox)
    BY <1>4 DEF ReceiveBitField
  <2>2. outbox = <<>> /\ Head(inbox).id = "bitField" /\ Plain(inbox')
    BY <2>1 DEF GreetInv, Introduced
  <2>3. bitField' = Head(inbox).field
    BY <1>4, <2>1, <2>2 DEF ReceiveBitField, Arrived
  <2>4. bitField'.size = FieldSize(peer)
    BY <2>1, <2>2, <2>3, QueueMoves DEF SoundAnswers
  <2>5. Tells(inbox) = Told(Head(inbox)) \cup Tells(inbox')
    BY <1>a, <2>1, TellsMoves
  <2>6. Told(Head(inbox)) = bitField'.bits
    BY <2>2, <2>3 DEF Told
  <2>7. Of(outbox', "handshake") = {}
    BY <2>1, <2>2 DEF Of
  <2> QED
    BY <2>1, <2>2, <2>4, <2>5, <2>6, <2>7 DEF GreetInv, TellInv, Talking, FieldSize
<1>5. CASE Select
  <2>1. Interested \in ToPeer /\ Interested.id # "handshake"
    BY SentTypes DEF Interested
  <2>2. \/ outbox' = outbox
        \/ \E m \in ToPeer : m.id # "handshake" /\ outbox' = Append(outbox, m)
    BY <1>5, <2>1 DEF Select, Send
  <2> QED
    BY <1>5, <1>c, <2>2 DEF Select, Talking
<1>6. CASE RequestPiece
  <2> DEFINE r == Request(piece, offset, RequestSize(PieceSize(piece), block))
  <2>1. r \in ToPeer /\ r.id # "handshake"
    BY SentTypes DEF Request
  <2>2. Send(r)
    BY <1>6 DEF RequestPiece
  <2> HIDE DEF r
  <2>3. \/ outbox' = outbox
        \/ \E m \in ToPeer : m.id # "handshake" /\ outbox' = Append(outbox, m)
    BY <2>1, <2>2 DEF Send
  <2> QED
    BY <1>6, <1>c, <2>3 DEF RequestPiece, Talking
<1>7. CASE SkipRequest \/ VerifyFails \/ VerifyPiece \/ WriteToFile
  BY <1>7, <1>c DEF SkipRequest, VerifyFails, VerifyPiece, WriteToFile, Talking
<1>8. CASE ReceiveChoke \/ ReceiveOther \/ ReceivePiece
  <2>1. /\ pc \in Talking /\ pc' \in Talking /\ UNCHANGED <<peer, has, outbox, bitField>>
        /\ inbox # <<>> /\ inbox' = Tail(inbox)
        /\ Head(inbox).id \in {"choke", "unchoke", "other", "piece"}
    BY <1>8 DEF ReceiveChoke, ReceiveOther, ReceivePiece, Arrived, Talking
  <2>2. Told(Head(inbox)) = {}
    BY <2>1 DEF Told
  <2> QED
    BY <1>d, <2>1, <2>2
<1>9. CASE ReceiveHave
  <2>1. /\ pc = "receive" /\ UNCHANGED <<peer, has, outbox>>
        /\ inbox # <<>> /\ inbox' = Tail(inbox) /\ Head(inbox).id = "have"
        /\ \/ pc' = "request" /\ bitField' = SetBit(bitField, Head(inbox).index)
           \/ pc' = "terminated"
    BY <1>9 DEF ReceiveHave, Arrived
  <2>2. CASE pc' = "terminated"
    BY <1>b, <2>2 DEF Talking
  <2>3. CASE pc' = "request" /\ bitField' = SetBit(bitField, Head(inbox).index)
    <3>1. /\ bitField'.size = bitField.size
          /\ bitField'.bits = bitField.bits \cup Told(Head(inbox))
      BY <1>a, <2>1, <2>3 DEF SetBit, BitFields, Told
    <3> QED
      BY <1>d, <2>1, <2>3, <3>1 DEF Talking
  <2> QED
    BY <2>1, <2>2, <2>3
<1> QED
  BY <1>1, <1>2, <1>3, <1>4, <1>5, <1>6, <1>7, <1>8, <1>9 DEF ClientStep

LEMMA GreetInvStep ==
    ASSUME TypeOK, ConnInv, GreetInv, TellInv, [Next]_vars, "nobitfield" \notin Events
    PROVE  GreetInv' /\ TellInv'
<1>1. CASE Stopped \/ UNCHANGED vars
  BY <1>1 DEF Stopped, vars, client, state, visit, network, remote, GreetInv, TellInv, FieldSize
<1> QED
  BY <1>1, GreetClientStep, GreetPeerStep DEF Next, ConnInv

LEMMA GreetingCorrect ==
    ASSUME "nobitfield" \notin Events
    PROVE  Spec => [](TypeOK /\ ConnInv /\ GreetInv /\ TellInv)
<1>1. TypeOK /\ ConnInv /\ GreetInv /\ TellInv /\ [Next]_vars => GreetInv' /\ TellInv'
  BY GreetInvStep
<1> QED
  BY <1>1, InitGreetInv, ExchangeBasics, PTL DEF Spec

\* The bit field the client keeps is the truth about the peer it talks to, but for
\* the have messages still on their way: nothing is left over from an earlier
\* peer and no message of the greeting is taken for another, as long as every
\* peer sends a bit field.
THEOREM BitFieldCorrect ==
    ASSUME "nobitfield" \notin Events
    PROVE  Spec => []BitFieldTracksPeer
<1>1. ASSUME TypeOK, GreetInv, TellInv PROVE BitFieldTracksPeer
  <2> DEFINE haves == {inbox[k].index : k \in {j \in DOMAIN inbox : inbox[j].id = "have"}}
  <2> SUFFICES ASSUME pc \in Talking PROVE has[peer] = bitField.bits \cup haves
    BY DEF BitFieldTracksPeer, Talking
  <2>1. has[peer] = bitField.bits \cup Tells(inbox) /\ Plain(inbox)
    BY <1>1 DEF GreetInv, TellInv
  <2>2. DOMAIN inbox = 1 .. Len(inbox)
    BY <1>1 DEF TypeOK, QueuesOK
  <2>3. \A k \in 1 .. Len(inbox) :
           Told(inbox[k]) = IF inbox[k].id = "have" THEN {inbox[k].index} ELSE {}
    BY <2>1 DEF Plain, Of, Told
  <2>4. Tells(inbox) = haves
    BY <2>2, <2>3 DEF Tells
  <2> QED
    BY <2>1, <2>4
<1> QED
  BY <1>1, GreetingCorrect, PTL
-----------------------------------------------------------------------------
(* Exceptions                                                              *)

\* A bit field of width bits, in whole bytes, has every bit below the width, and
\* one more unless the bits fill the last byte.
LEMMA FieldRange ==
    ASSUME NEW width \in Nat, NEW n \in Nat,
           n < width \/ (n = width /\ width % ByteBits # 0)
    PROVE  n \div ByteBits < (width + ByteBits - 1) \div ByteBits
<1> DEFINE q == n \div ByteBits
           r == n % ByteBits
           top == (width + ByteBits - 1) \div ByteBits
           rest == (width + ByteBits - 1) % ByteBits
<1>1. ByteBits \in Nat /\ ByteBits > 0
  BY ByteBitsAssumption
<1>2. q \in Nat /\ r \in 0 .. ByteBits - 1 /\ n = ByteBits * q + r
  BY <1>1
<1>3. /\ top \in Nat /\ rest \in 0 .. ByteBits - 1
      /\ width + ByteBits - 1 = ByteBits * top + rest
  BY <1>1
<1>4. n < width \/ (n = width /\ r > 0)
  BY <1>1, <1>2
<1> HIDE DEF q, r, top, rest
<1>5. ByteBits * top > ByteBits * q
  <2> DEFINE x == ByteBits * top
             y == ByteBits * q
  <2>1. x \in Int /\ y \in Int /\ n = y + r /\ width + ByteBits - 1 = x + rest
    BY <1>1, <1>2, <1>3
  <2> HIDE DEF x, y
  <2>2. x > y
    BY <1>1, <1>2, <1>3, <1>4, <2>1
  <2> QED
    BY <2>2 DEF x, y
<1>6. q < top
  BY <1>1, <1>2, <1>3, <1>5
<1> QED
  BY <1>6 DEF q, top

\* Peers of this torrent have pieces of this torrent.
LEMMA PiecesInRange ==
    ASSUME TypeOK, FieldInv, link # "none", ForeignPeers \cap Peers = {},
           bitField.size = FieldSize(peer)
    PROVE  /\ \A i \in has[peer] : InRange(bitField, i)
           /\ TotalPieces % ByteBits # 0 => InRange(bitField, piece)
<1>1. peer \in Peers /\ peer \notin ForeignPeers
  BY PeersAssumption DEF TypeOK, ControlOK, Peers
<1>2. bitField.size = (TotalPieces + ByteBits - 1) \div ByteBits
  BY <1>1 DEF FieldSize
<1>3. \A i \in has[peer] : i \in Nat /\ i < TotalPieces
  BY <1>1, TorrentAssumption DEF FieldInv, PiecesOf, Pieces
<1>4. piece \in Nat /\ piece <= TotalPieces /\ TotalPieces \in Nat
  BY TorrentAssumption DEF TypeOK, ControlOK
<1> QED
  BY <1>2, <1>3, <1>4, FieldRange DEF InRange

\* Once an exception has ended the program there is no connection.
EndInv == pc = "terminated" => link = "none"

\* A number of pieces that leaves a bit of the last byte of the bit field, peers
\* of this torrent only, and a bit field from each of them: then neither getBit nor
\* setBit throws, and an exception ends the program only where the announce
\* fails.  Without the first condition getBit throws after the last piece.
THEOREM ThrowsCorrect ==
    ASSUME "nobitfield" \notin Events, ForeignPeers \cap Peers = {},
           TotalPieces % ByteBits # 0
    PROVE  Spec => ThrowsOnlyAtTracker
<1> DEFINE Throws == pc' = "terminated" => pc = "announce"
<1>1. ASSUME TypeOK, ConnInv, GreetInv, EndInv, [Next]_vars PROVE [Throws]_vars
  <2>1. CASE SelectThrows
    <3>1. pc = "select" /\ ~InRange(bitField, piece)
      BY <2>1 DEF SelectThrows
    <3>2. bitField.size = FieldSize(peer) /\ link # "none"
      BY <1>1, <3>1 DEF GreetInv, Talking, TypeOK, ControlOK, Connected
    <3> QED
      BY <1>1, <3>1, <3>2, PiecesInRange DEF ConnInv
  <2>2. CASE ReceiveHave
    <3>1. pc = "receive" /\ inbox # <<>> /\ Head(inbox).id = "have"
      BY <2>2 DEF ReceiveHave, Arrived
    <3>2. bitField.size = FieldSize(peer) /\ link # "none"
      BY <1>1, <3>1 DEF GreetInv, Talking, TypeOK, ControlOK, Connected
    <3>3. Head(inbox).index \in has[peer]
      BY <1>1, <3>1, QueueMoves DEF ConnInv, SoundAnswers
    <3>4. InRange(bitField, Head(inbox).index)
      BY <1>1, <3>2, <3>3, PiecesInRange DEF ConnInv
    <3> QED
      BY <2>2, <3>4 DEF ReceiveHave
  <2>3. CASE Announce \/ AnnounceFails \/ Return \/ LeaveList \/ Connect \/ ConnectFails
               \/ ReceiveHandshake \/ HandshakeFails \/ ReceiveBitField \/ ReceiveFails
    BY <2>3 DEF Announce, AnnounceFails, Return, LeaveList, Connect, ConnectFails,
                ReceiveHandshake, HandshakeFails, ReceiveBitField, ReceiveFails, NextPeer
  <2>4. CASE SelectNone \/ Select \/ RequestPiece \/ SkipRequest \/ SendKills \/ ReceiveChoke
               \/ ReceiveOther \/ ReceivePiece \/ VerifyFails \/ VerifyPiece \/ VerifyCrashes
               \/ WriteToFile
    BY <2>4 DEF SelectNone, Select, RequestPiece, SkipRequest, SendKills, ReceiveChoke,
                ReceiveOther, ReceivePiece, VerifyFails, VerifyPiece, VerifyCrashes,
                WriteToFile, NextPeer
  <2>5. CASE PeerStep
    BY <1>1, <2>5, PeerStepKeeps DEF client, EndInv
  <2>6. CASE Stopped \/ UNCHANGED vars
    BY <2>6 DEF Stopped
  <2> QED
    BY <1>1, <2>1, <2>2, <2>3, <2>4, <2>5, <2>6 DEF Next, ClientStep
<1>2. TypeOK /\ ConnInv /\ GreetInv /\ EndInv /\ [Next]_vars => [Throws]_vars
  BY <1>1
<1>3. ASSUME TypeOK, EndInv, [Next]_vars, [Throws]_vars PROVE EndInv'
  <2>1. CASE UNCHANGED vars
    BY <1>3, <2>1 DEF EndInv, vars, client, network
  <2>2. CASE Stopped
    BY <1>3, <2>2 DEF EndInv, Stopped, vars, client, network
  <2>3. CASE PeerStep
    BY <1>3, <2>3, PeerStepKeeps DEF EndInv, client
  <2>4. CASE pc = "announce" /\ ClientStep /\ pc' = "terminated"
    <3>1. link = "none" /\ link' = link
      BY <1>3, <2>4 DEF ClientStep, Announce, AnnounceFails, Return, LeaveList, Connect,
           ConnectFails, ReceiveHandshake, HandshakeFails, ReceiveBitField, ReceiveFails,
           SelectThrows, SelectNone, Select, RequestPiece, SkipRequest, SendKills,
           ReceiveChoke, ReceiveHave, ReceiveOther, ReceivePiece, VerifyFails, VerifyPiece,
           VerifyCrashes, WriteToFile, network, TypeOK, ControlOK
    <3> QED
      BY <3>1 DEF EndInv
  <2>5. CASE ClientStep /\ pc' # "terminated"
    BY <2>5 DEF EndInv
  <2> QED
    BY <1>3, <2>1, <2>2, <2>3, <2>4, <2>5 DEF Next
<1>4. TypeOK /\ EndInv /\ [Next]_vars /\ [Throws]_vars => EndInv'
  BY <1>3
<1>5. Init => EndInv
  BY DEF Init, EndInv
<1>6. Init /\ [](TypeOK /\ ConnInv /\ GreetInv /\ TellInv) /\ [][Next]_vars => [][Throws]_vars
  BY <1>2, <1>4, <1>5, PTL
<1> QED
  BY <1>6, GreetingCorrect, PTL DEF Spec, ThrowsOnlyAtTracker

-----------------------------------------------------------------------------
(* The file                                                                *)

\* Between verifyPiece and the write the string at hand is the piece counted
\* last: without this, nothing would be known of what the write appends.
PieceAtHand == pc = "write" => piece \in Nat \ {0} /\ pieceString = Content(piece - 1)

FileInv == FileMatchesCount /\ PieceAtHand

LEMMA InitFileInv == Init => FileInv
BY DEF Init, FileInv, FileMatchesCount, FileHoldsCounted, PieceAtHand, Stored

\* Only verifyPiece and savePiece bear on the count and on the file.
FileUntouched ==
    /\ pc # "write" /\ pc' # "write"
    /\ leaked' = leaked \/ leaked' = leaked + 1
    /\ UNCHANGED <<piece, file>>

LEMMA Untouched ==
    TypeOK /\ [Next]_vars =>
        VerifyPiece \/ WriteToFile \/ FileUntouched \/ UNCHANGED client
<1> SUFFICES ASSUME TypeOK, [Next]_vars, ~VerifyPiece, ~WriteToFile, ~UNCHANGED client
             PROVE  FileUntouched
  OBVIOUS
<1> USE DEF FileUntouched, progress, visit, state, client
<1>1. CASE Announce \/ AnnounceFails \/ Return \/ LeaveList
  BY <1>1 DEF Announce, AnnounceFails, Return, LeaveList
<1>2. CASE Connect \/ ConnectFails
  BY <1>2 DEF Connect, ConnectFails, NextPeer
<1>3. CASE ReceiveHandshake \/ HandshakeFails
  BY <1>3 DEF ReceiveHandshake, HandshakeFails, NextPeer
<1>4. CASE ReceiveBitField \/ ReceiveFails
  BY <1>4 DEF ReceiveBitField, ReceiveFails, NextPeer
<1>5. CASE SelectThrows \/ SelectNone \/ Select
  BY <1>5 DEF SelectThrows, SelectNone, Select, NextPeer
<1>6. CASE RequestPiece \/ SkipRequest \/ SendKills
  BY <1>6 DEF RequestPiece, SkipRequest, SendKills
<1>7. CASE ReceiveChoke \/ ReceiveHave \/ ReceiveOther
  BY <1>7 DEF ReceiveChoke, ReceiveHave, ReceiveOther
<1>8. CASE ReceivePiece
  BY <1>8 DEF ReceivePiece
<1>9. CASE VerifyFails \/ VerifyCrashes
  BY <1>9 DEF VerifyFails, VerifyCrashes
<1>10. CASE PeerStep \/ Stopped \/ UNCHANGED vars
  BY <1>10 DEF PeerStep, PeerAnswers, PeerGreets, PeerNotesInterest, PeerServes,
               PeerUnchokes, PeerChokes, PeerHas, PeerKeepsAlive, PeerSaysOther,
               PeerRepeats, PeerCloses, Stopped, vars
<1> QED
  BY <1>1, <1>2, <1>3, <1>4, <1>5, <1>6, <1>7, <1>8, <1>9, <1>10 DEF Next, ClientStep

\* Appending the piece counted last to the file of all earlier ones.
LEMMA AppendCounted ==
    ASSUME NEW n \in Nat \ {0}, file = [i \in 1 .. n - 1 |-> Content(i - 1)]
    PROVE  /\ Len(file) = n - 1
           /\ Append(file, Content(n - 1)) = [i \in 1 .. n |-> Content(i - 1)]
OBVIOUS

\* A leaked descriptor does not come back.
LEMMA FailuresLast ==
    ASSUME leaked \in Nat, FdLimit \in Nat, leaked' = leaked \/ leaked' = leaked + 1
    PROVE  WritesSucceed' => WritesSucceed
BY DEF WritesSucceed

LEMMA FileInvStep == TypeOK /\ FileInv /\ [Next]_vars => FileInv'
<1> SUFFICES ASSUME TypeOK, FileInv, [Next]_vars PROVE FileInv'
  OBVIOUS
<1> USE DEF FileInv, FileMatchesCount, FileHoldsCounted, PieceAtHand, WritesSucceed
<1>0. piece \in Nat /\ leaked \in Nat /\ FdLimit \in Nat
  BY TorrentAssumption, EnvironmentAssumption DEF TypeOK, ControlOK
<1>1. CASE VerifyPiece
  <2>1. pc = "verify" /\ pc' = "write" /\ piece' = piece + 1
    BY <1>1 DEF VerifyPiece
  <2>2. UNCHANGED <<file, leaked>> /\ pieceString' = pieceString
    BY <1>1 DEF VerifyPiece, visit, locals
  <2>3. pieceString = Content(piece)
    BY <1>1 DEF VerifyPiece, Verified
  <2>4. Stored' = Stored
    BY <1>0, <2>1 DEF Stored
  <2>5. PieceAtHand'
    BY <1>0, <2>1, <2>2, <2>3
  <2> QED
    BY <2>2, <2>4, <2>5
<1>2. CASE WriteToFile
  <2>1. /\ pc = "write" /\ pc' = "select"
        /\ UNCHANGED <<piece, leaked>>
    BY <1>2 DEF WriteToFile, visit
  <2>2. Stored = piece - 1 /\ Stored' = piece
    BY <2>1 DEF Stored
  <2>3. ASSUME WritesSucceed' PROVE FileHoldsCounted'
    <3>1. WritesSucceed
      BY <2>1, <2>3
    <3>2. file' = Append(file, Content(piece - 1))
      BY <1>0, <1>2, <2>1, <3>1 DEF WriteToFile
    <3>3. file = [i \in 1 .. piece - 1 |-> Content(i - 1)]
      BY <2>2, <3>1
    <3>4. file' = [i \in 1 .. piece |-> Content(i - 1)]
      BY <2>1, <3>2, <3>3, AppendCounted
    <3> QED
      BY <2>2, <3>4
  <2> QED
    BY <2>1, <2>3
<1>3. CASE FileUntouched
  <2>1. Stored' = Stored
    BY <1>3 DEF FileUntouched, Stored
  <2>2. WritesSucceed' => WritesSucceed
    BY <1>0, <1>3, FailuresLast DEF FileUntouched
  <2> QED
    BY <1>3, <2>1, <2>2 DEF FileUntouched
<1>4. CASE UNCHANGED client
  BY <1>4 DEF client, state, progress, locals, visit, Stored
<1> QED
  BY <1>1, <1>2, <1>3, <1>4, Untouched

\* Whatever the peers send and however connections fail, the file holds
\* exactly the pieces counted, intact and in order, as long as no write fails.
THEOREM FileCorrect == Spec => []FileMatchesCount
<1>1. Init /\ [][Next]_vars /\ []TypeOK => []FileInv
  BY InitFileInv, FileInvStep, PTL
<1>2. FileInv => FileMatchesCount
  BY DEF FileInv
<1> QED
  BY <1>1, <1>2, TypeCorrect, PTL DEF Spec

-----------------------------------------------------------------------------
(* The refinement                                                          *)

\* The steps of the client that end the program.
LEMMA Endings ==
    TypeOK /\ [Next]_vars /\ FileUntouched =>
        \/ Return
        \/ pc \notin Ended /\ pc' \in {"terminated", "killed"}
        \/ pc \notin Ended /\ pc' \notin Ended
        \/ UNCHANGED client
<1> SUFFICES ASSUME [Next]_vars, ~Return, ~UNCHANGED client
             PROVE  pc \notin Ended /\ pc' # "returned"
  BY DEF Ended
<1> USE DEF Ended
<1>1. CASE Announce \/ AnnounceFails \/ LeaveList
  BY <1>1 DEF Announce, AnnounceFails, LeaveList
<1>2. CASE Connect \/ ConnectFails
  BY <1>2 DEF Connect, ConnectFails, NextPeer
<1>3. CASE ReceiveHandshake \/ HandshakeFails
  BY <1>3 DEF ReceiveHandshake, HandshakeFails, NextPeer
<1>4. CASE ReceiveBitField \/ ReceiveFails
  BY <1>4 DEF ReceiveBitField, ReceiveFails, NextPeer
<1>5. CASE SelectThrows \/ SelectNone \/ Select
  BY <1>5 DEF SelectThrows, SelectNone, Select, NextPeer
<1>6. CASE RequestPiece \/ SkipRequest \/ SendKills
  BY <1>6 DEF RequestPiece, SkipRequest, SendKills
<1>7. CASE ReceiveChoke \/ ReceiveHave \/ ReceiveOther
  BY <1>7 DEF ReceiveChoke, ReceiveHave, ReceiveOther
<1>8. CASE ReceivePiece
  BY <1>8 DEF ReceivePiece
<1>9. CASE VerifyFails \/ VerifyPiece \/ VerifyCrashes \/ WriteToFile
  BY <1>9 DEF VerifyFails, VerifyPiece, VerifyCrashes, WriteToFile
<1>10. CASE PeerStep \/ Stopped \/ UNCHANGED vars
  BY <1>10 DEF PeerStep, PeerAnswers, PeerGreets, PeerNotesInterest, PeerServes,
               PeerUnchokes, PeerChokes, PeerHas, PeerKeepsAlive, PeerSaysOther,
               PeerRepeats, PeerCloses, Stopped, vars
<1> QED
  BY <1>1, <1>2, <1>3, <1>4, <1>5, <1>6, <1>7, <1>8, <1>9, <1>10 DEF Next, ClientStep

LEMMA AssemblyInit == Init => Assembled!Init
BY DEF Init, Assembled!Init, Ended

\* Every step is a step of the assembly or leaves its variables alone:
\* verifyPiece counts, savePiece stores, and the ends of the program end it.
LEMMA AssemblyStep ==
    TypeOK /\ FileInv /\ [Next]_vars =>
        [WritesSucceed => Assembled!Next]_(Assembled!vars)
<1> SUFFICES ASSUME TypeOK, FileInv, [Next]_vars, WritesSucceed
             PROVE  [Assembled!Next]_(Assembled!vars)
  BY DEF Assembled!vars
<1> USE DEF Ended
<1>0. /\ piece \in Nat /\ TotalPieces \in Nat /\ piece <= TotalPieces
      /\ file = [i \in 1 .. Stored |-> Content(i - 1)]
  BY TorrentAssumption DEF TypeOK, ControlOK, FileInv, FileMatchesCount, FileHoldsCounted
<1>1. CASE VerifyPiece
  <2>1. /\ pc = "verify" /\ pc' = "write"
        /\ piece' = piece + 1 /\ file' = file /\ piece < TotalPieces
    BY <1>1 DEF VerifyPiece, Verified
  <2>2. Len(file) = piece
    BY <1>0, <2>1 DEF Stored
  <2>3. Assembled!Count
    BY <2>1, <2>2 DEF Assembled!Count
  <2> QED
    BY <2>3 DEF Assembled!Next
<1>2. CASE WriteToFile
  <2>1. /\ pc = "write" /\ pc' = "select"
        /\ piece' = piece
    BY <1>2 DEF WriteToFile
  <2>2. piece \in Nat \ {0} /\ pieceString = Content(piece - 1)
    BY <2>1 DEF FileInv, PieceAtHand
  <2>3. Len(file) = piece - 1
    BY <1>0, <2>1, <2>2 DEF Stored
  <2>4. file' = Append(file, Content(piece - 1))
    BY <1>2, <2>2, EnvironmentAssumption DEF WriteToFile, WritesSucceed, TypeOK, ControlOK
  <2>5. piece - 1 \in Pieces
    BY <1>0, <2>2 DEF Pieces
  <2>6. [i \in Pieces |-> Content(i)][Len(file)] = Content(piece - 1)
    BY <2>3, <2>5
  <2>7. Assembled!Store
    BY <2>1, <2>2, <2>3, <2>4, <2>6 DEF Assembled!Store
  <2> QED
    BY <2>7 DEF Assembled!Next
<1>3. CASE Return
  <2>1. /\ pc = "announce" /\ pc' = "returned" /\ piece >= TotalPieces
        /\ UNCHANGED <<piece, file>>
    BY <1>3 DEF Return, state, progress
  <2>2. Len(file) = TotalPieces
    BY <1>0, <2>1 DEF Stored
  <2>3. Assembled!Complete
    BY <2>1, <2>2 DEF Assembled!Complete
  <2> QED
    BY <2>3 DEF Assembled!Next
<1>4. CASE FileUntouched /\ pc \notin Ended /\ pc' \in {"terminated", "killed"}
  <2>1. Assembled!GiveUp
    BY <1>4 DEF FileUntouched, Assembled!GiveUp
  <2> QED
    BY <2>1 DEF Assembled!Next
<1>5. CASE FileUntouched /\ pc \notin Ended /\ pc' \notin Ended
  BY <1>5 DEF FileUntouched, Assembled!vars
<1>6. CASE UNCHANGED client
  BY <1>6 DEF client, state, progress, Assembled!vars
<1> QED
  BY <1>1, <1>2, <1>3, <1>4, <1>5, <1>6, Untouched, Endings

\* The download implements the assembly of the file, as long as no write
\* fails: pieces are counted and stored in turn, each with its own bytes, and
\* download() returns only when all of them are in the file.
THEOREM DownloadAssembles == Spec => AssemblesWhileWritesSucceed
<1>1. Init => Assembled!Init
  BY AssemblyInit
<1>2. Init /\ [][Next]_vars /\ []TypeOK => []FileInv
  BY InitFileInv, FileInvStep, PTL
<1>3. TypeOK /\ FileInv /\ [Next]_vars =>
        [WritesSucceed => Assembled!Next]_(Assembled!vars)
  BY AssemblyStep
<1>4. []TypeOK /\ []FileInv /\ [][Next]_vars =>
        [][WritesSucceed => Assembled!Next]_(Assembled!vars)
  BY <1>3, PTL
<1> QED
  BY <1>1, <1>2, <1>4, TypeCorrect, PTL DEF Spec, AssemblesWhileWritesSucceed
\* Sockets that time out are the only ones that leak, and with peers that answer and
\* stay none does: until the handshake is answered it is with the peer.
NoLeakInv ==
    /\ leaked = 0
    /\ pc \in Connected => link = "open"
    /\ pc = "handshake" => \/ outbox = <<HandshakeMessage("ours")>> /\ inbox = <<>>
                           \/ outbox = <<>> /\ inbox # <<>>

LEMMA NoLeakPeerStep ==
    ASSUME TypeOK, NoLeakInv, PeerStep, "close" \notin Events
    PROVE  NoLeakInv'
<1>a. UNCHANGED client /\ inbox \in Seq(ToClient) /\ outbox \in Seq(ToPeer)
  BY PeerStepKeeps DEF TypeOK, QueuesOK
<1>b. link' = link
  BY DEF PeerStep, PeerAnswers, PeerGreets, PeerNotesInterest, PeerServes, PeerUnchokes,
         PeerChokes, PeerHas, PeerKeepsAlive, PeerSaysOther, PeerRepeats, PeerCloses
<1> SUFFICES ASSUME pc = "handshake"
             PROVE  \/ outbox' = <<HandshakeMessage("ours")>> /\ inbox' = <<>>
                    \/ outbox' = <<>> /\ inbox' # <<>>
  BY <1>a, <1>b DEF NoLeakInv, client, state, visit
<1>1. CASE PeerGreets
  <2>1. outbox' = <<>>
    <3>1. outbox # <<>> /\ outbox' = Tail(outbox)
      BY <1>1 DEF PeerGreets
    <3>2. outbox = <<HandshakeMessage("ours")>>
      BY <3>1 DEF NoLeakInv
    <3> QED
      BY <3>1, <3>2
  <2>2. PICK hello, field \in ToClient :
               inbox' = inbox \o <<hello, field>> \/ inbox' = inbox \o <<hello>>
    BY <1>1, PeerSaysHello
  <2>3. inbox' # <<>>
    BY <1>a, <2>2
  <2> QED
    BY <2>1, <2>3
<1>2. CASE ~PeerGreets /\ outbox = <<>> /\ inbox # <<>>
  <2>1. outbox' = <<>>
    BY <1>2, PeerTakes
  <2>2. inbox' # <<>>
    <3>1. \A m \in ToClient : inbox \o <<m>> # <<>>
      BY <1>a, <1>2
    <3> QED
      BY <1>2, <3>1, PeerSends
  <2> QED
    BY <2>1, <2>2
<1>3. CASE ~PeerGreets /\ outbox = <<HandshakeMessage("ours")>> /\ inbox = <<>>
  <2>1. outbox # <<>> /\ Head(outbox).id = "handshake"
    BY <1>3 DEF HandshakeMessage
  <2> QED
    BY <1>3, <2>1, NotReady
<1> QED
  BY <1>1, <1>2, <1>3 DEF NoLeakInv

LEMMA NoLeakStep ==
    ASSUME TypeOK, QueuesInv, NoLeakInv, [Next]_vars, {"slow", "close"} \cap Events = {}
    PROVE  NoLeakInv'
<1>a. ASSUME leaked' = leaked, pc' \notin Connected PROVE NoLeakInv'
  BY <1>a DEF NoLeakInv, Connected
<1>b. ASSUME leaked' = leaked, pc \in Connected, link' = link, pc' # "handshake"
      PROVE  NoLeakInv'
  BY <1>b DEF NoLeakInv, Connected
<1> USE DEF visit, state, client, network
<1>1. CASE Announce \/ AnnounceFails \/ Return \/ LeaveList \/ ConnectFails \/ ReceiveFails
             \/ SelectThrows \/ SelectNone \/ SendKills \/ VerifyCrashes
  BY <1>1, <1>a DEF Announce, AnnounceFails, Return, LeaveList, ConnectFails, ReceiveFails,
                    SelectThrows, SelectNone, SendKills, VerifyCrashes, NextPeer, Connected
<1>2. CASE Connect
  <2>1. /\ pc = "next" /\ pc' = "handshake" /\ link' = "open" /\ leaked' = leaked
        /\ inbox' = inbox /\ outbox' = <<HandshakeMessage("ours")>>
    BY <1>2 DEF Connect
  <2>2. inbox = <<>>
    BY <2>1 DEF QueuesInv, TypeOK, ControlOK
  <2> QED
    BY <2>1, <2>2 DEF NoLeakInv
<1>3. CASE ReceiveHandshake
  BY <1>3, <1>a, <1>b DEF ReceiveHandshake, NextPeer, Connected
<1>4. CASE HandshakeFails
  <2>1. pc = "handshake" /\ TimedOut
    BY <1>4 DEF HandshakeFails
  <2>2. link = "open" /\ inbox = <<>> /\ outbox = <<HandshakeMessage("ours")>>
    BY <2>1 DEF TimedOut, NoLeakInv, Connected
  <2>3. outbox # <<>> /\ Head(outbox).id = "handshake"
    BY <2>2 DEF HandshakeMessage
  <2> QED
    BY <2>1, <2>2, <2>3 DEF TimedOut, PeerReady
<1>5. CASE ReceiveBitField \/ SkipRequest \/ ReceiveChoke \/ ReceiveOther \/ ReceivePiece
             \/ VerifyFails \/ VerifyPiece \/ WriteToFile
  BY <1>5, <1>b DEF ReceiveBitField, SkipRequest, ReceiveChoke, ReceiveOther, ReceivePiece,
                    VerifyFails, VerifyPiece, WriteToFile, Connected
<1>6. CASE ReceiveHave
  BY <1>6, <1>a, <1>b DEF ReceiveHave, Connected
<1>7. CASE Select \/ RequestPiece
  <2>1. pc \in Connected /\ pc' # "handshake" /\ leaked' = leaked
    BY <1>7 DEF Select, RequestPiece, Connected
  <2>2. link = "open"
    BY <2>1 DEF NoLeakInv
  <2>3. link' = link
    BY <1>7, <2>2 DEF Select, RequestPiece, Send
  <2> QED
    BY <1>b, <2>1, <2>3
<1>8. CASE PeerStep
  BY <1>8, NoLeakPeerStep
<1>9. CASE Stopped \/ UNCHANGED vars
  BY <1>9 DEF Stopped, vars, NoLeakInv
<1> QED
  BY <1>1, <1>2, <1>3, <1>4, <1>5, <1>6, <1>7, <1>8, <1>9 DEF Next, ClientStep

\* Where peers answer in time and stay, and the disk has room, no socket leaks, no
\* write fails, and the download implements the assembly of the file without a
\* reservation, whatever else the peers send and wherever else it fails.
THEOREM DownloadImplements ==
    ASSUME {"slow", "close", "disk"} \cap Events = {}, FdLimit > 1
    PROVE  Spec => ImplementsAssembly
<1>1. Init => NoLeakInv
  BY DEF Init, NoLeakInv, Connected
<1>2. TypeOK /\ ConnInv /\ NoLeakInv /\ [Next]_vars => NoLeakInv'
  BY NoLeakStep DEF ConnInv
<1>3. NoLeakInv => WritesSucceed
  BY EnvironmentAssumption DEF NoLeakInv, WritesSucceed
<1>4. Spec => []WritesSucceed
  BY <1>1, <1>2, <1>3, ExchangeBasics, PTL DEF Spec
<1>5. []WritesSucceed /\ [][WritesSucceed => Assembled!Next]_(Assembled!vars) =>
          [][Assembled!Next]_(Assembled!vars)
  BY PTL
<1> QED
  BY <1>4, <1>5, DownloadAssembles, PTL
     DEF AssemblesWhileWritesSucceed, ImplementsAssembly, Assembled!Spec

-----------------------------------------------------------------------------
(* After a failed write                                                    *)

OrderInv == StoredInOrder /\ PieceAtHand

\* What is written of a piece names the piece, and is its beginning.
LEMMA StringWritten ==
    ASSUME NEW i \in Nat, NEW string,
           \/ string = Content(i)
           \/ \E n \in 1 .. Len(Content(i)) - 1 : string = SubSeq(Content(i), 1, n)
    PROVE  /\ string # <<>> /\ Origin(string) = i
           /\ string = SubSeq(Content(i), 1, Len(string))
<1>1. PieceSize(i) \in Nat \ {0}
  BY PieceSizePositive
<1>2. /\ Content(i) \in Seq(Byte) /\ Len(Content(i)) = PieceSize(i)
      /\ Content(i)[1] = <<i, 0>>
  <2>1. Content(i) \in Seq(Byte) /\ Len(Content(i)) = PieceSize(i)
    BY <1>1, BytesType DEF Content
  <2>2. Content(i) = [k \in 1 .. PieceSize(i) |-> <<i, k - 1>>]
    BY DEF Content, Bytes
  <2> QED
    BY <1>1, <2>1, <2>2
<1>3. ASSUME NEW n \in 1 .. Len(Content(i)), string = SubSeq(Content(i), 1, n)
      PROVE  /\ string # <<>> /\ Origin(string) = i
             /\ string = SubSeq(Content(i), 1, Len(string))
  <2>1. Len(string) = n /\ string[1] = Content(i)[1] /\ string # <<>>
    BY <1>1, <1>2, <1>3
  <2> QED
    BY <1>2, <1>3, <2>1 DEF Origin
<1>4. Content(i) = SubSeq(Content(i), 1, Len(Content(i)))
  BY <1>2
<1>5. \E n \in 1 .. Len(Content(i)) : string = SubSeq(Content(i), 1, n)
  BY <1>1, <1>2, <1>4
<1> QED
  BY <1>3, <1>5

LEMMA OrderInvStep == TypeOK /\ OrderInv /\ [Next]_vars => OrderInv'
<1> SUFFICES ASSUME TypeOK, OrderInv, [Next]_vars PROVE OrderInv'
  OBVIOUS
<1> USE DEF OrderInv
<1>0. piece \in Nat /\ file \in Seq(Seq(Byte)) /\ DOMAIN file = 1 .. Len(file)
  BY TorrentAssumption DEF TypeOK, ControlOK, DataOK
<1>a. ASSUME file' = file, Stored' = Stored PROVE StoredInOrder'
  BY <1>a DEF StoredInOrder
<1>1. CASE VerifyPiece
  <2>1. /\ pc = "verify" /\ pc' = "write" /\ piece' = piece + 1
        /\ file' = file /\ pieceString' = pieceString /\ pieceString = Content(piece)
    BY <1>1 DEF VerifyPiece, Verified, locals
  <2>2. Stored' = Stored
    BY <1>0, <2>1 DEF Stored
  <2>3. PieceAtHand'
    BY <1>0, <2>1 DEF PieceAtHand
  <2> QED
    BY <1>a, <2>1, <2>2, <2>3
<1>2. CASE WriteToFile
  <2>1. pc = "write" /\ pc' = "select" /\ piece' = piece
    BY <1>2 DEF WriteToFile
  <2>2. piece \in Nat \ {0} /\ pieceString = Content(piece - 1)
    BY <2>1 DEF PieceAtHand
  <2>3. Stored = piece - 1 /\ Stored' = piece
    BY <2>1 DEF Stored
  <2>4. ASSUME file' = file PROVE StoredInOrder'
    BY <2>2, <2>3, <2>4 DEF StoredInOrder
  <2>5. ASSUME NEW string, file' = Append(file, string),
               string # <<>>, Origin(string) = piece - 1,
               string = SubSeq(Content(piece - 1), 1, Len(string))
        PROVE  StoredInOrder'
    <3>1. /\ DOMAIN file' = 1 .. Len(file) + 1 /\ file'[Len(file) + 1] = string
          /\ \A k \in DOMAIN file : file'[k] = file[k]
      BY <1>0, <2>5
    <3>2. \A k \in DOMAIN file :
             /\ file[k] # <<>> /\ Origin(file[k]) \in 0 .. piece - 2
             /\ file[k] = SubSeq(Content(Origin(file[k])), 1, Len(file[k]))
      BY <2>2, <2>3 DEF StoredInOrder
    <3>3. \A k \in DOMAIN file' :
             /\ file'[k] # <<>> /\ Origin(file'[k]) \in 0 .. piece - 1
             /\ file'[k] = SubSeq(Content(Origin(file'[k])), 1, Len(file'[k]))
      <4> TAKE k \in DOMAIN file'
      <4>1. CASE k = Len(file) + 1
        BY <2>2, <2>5, <3>1, <4>1
      <4>2. CASE k # Len(file) + 1
        <5>1. k \in DOMAIN file
          BY <1>0, <3>1, <4>2
        <5> QED
          BY <2>2, <3>1, <3>2, <5>1
      <4> QED
        BY <4>1, <4>2
    <3>4. \A j, k \in DOMAIN file' : j < k => Origin(file'[j]) < Origin(file'[k])
      <4> SUFFICES ASSUME NEW j \in DOMAIN file', NEW k \in DOMAIN file', j < k
                   PROVE  Origin(file'[j]) < Origin(file'[k])
        OBVIOUS
      <4>1. j \in DOMAIN file
        BY <1>0, <3>1
      <4>2. CASE k = Len(file) + 1
        <5>1. Origin(file[j]) \in 0 .. piece - 2
          BY <3>2, <4>1
        <5> QED
          BY <2>2, <2>5, <3>1, <4>1, <4>2, <5>1
      <4>3. CASE k # Len(file) + 1
        <5>1. k \in DOMAIN file
          BY <1>0, <3>1, <4>3
        <5> QED
          BY <3>1, <4>1, <5>1 DEF StoredInOrder
      <4> QED
        BY <4>2, <4>3
    <3> QED
      BY <2>3, <3>3, <3>4 DEF StoredInOrder
  <2>6. \/ file' = file
        \/ file' = Append(file, pieceString)
        \/ \E n \in 1 .. Len(pieceString) - 1 : file' = Append(file, SubSeq(pieceString, 1, n))
    BY <1>2 DEF WriteToFile
  <2>7. StoredInOrder'
    <3>1. piece - 1 \in Nat
      BY <2>2
    <3>2. CASE file' = Append(file, pieceString)
      BY <2>2, <2>5, <3>1, <3>2, StringWritten
    <3>3. CASE \E n \in 1 .. Len(pieceString) - 1 :
                  file' = Append(file, SubSeq(pieceString, 1, n))
      BY <2>2, <2>5, <3>1, <3>3, StringWritten
    <3> QED
      BY <2>4, <2>6, <3>2, <3>3
  <2> QED
    BY <2>1, <2>7 DEF PieceAtHand
<1>3. CASE FileUntouched
  BY <1>3, <1>a DEF FileUntouched, Stored, PieceAtHand
<1>4. CASE UNCHANGED client
  BY <1>4, <1>a DEF client, state, progress, locals, Stored, PieceAtHand
<1> QED
  BY <1>1, <1>2, <1>3, <1>4, Untouched

\* Whatever fails on the way, descriptors and disk included, the strings in the file
\* are the beginnings of pieces that were counted, in the order of the torrent
\* and each at most once.
THEOREM OrderCorrect == Spec => []StoredInOrder
<1>1. Init => OrderInv
  BY DEF Init, OrderInv, StoredInOrder, PieceAtHand
<1>2. TypeOK /\ OrderInv /\ [Next]_vars => OrderInv'
  BY OrderInvStep
<1>3. OrderInv => StoredInOrder
  BY DEF OrderInv
<1> QED
  BY <1>1, <1>2, <1>3, TypeCorrect, PTL DEF Spec
===============================================================================
