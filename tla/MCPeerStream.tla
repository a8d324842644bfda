----------------------------- MODULE MCPeerStream -----------------------------
(* Four short conversations: bytes have 256 values and numbers have 2 bytes.   *)
EXTENDS PeerStream

Message(id, fields, data) == [id |-> id, fields |-> fields, data |-> data]

ProtocolBytes == <<66>>
DigestBytes == <<172>>
OwnId == <<7>>
PeerHandshake == <<1, 66, 0, 9, 5>>

\* There are 8 pieces.  A bit field, a block, a have, a keep-alive and an
\* unchoke after it; a bit field, a have, a block without its offset and a have
\* without its index; a bit field and a have of a piece beyond it; a have where
\* the bit field should be.
SomeConversations ==
    { << Message(BitField, <<>>, <<192>>), Message(Piece, <<258, 130>>, <<200>>),
         Message(Have, <<5>>, <<>>), Message(-1, <<>>, <<>>), Message(Unchoke, <<>>, <<>>) >>,
      << Message(BitField, <<>>, <<192>>), Message(Have, <<7>>, <<>>),
         Message(Piece, <<0>>, <<1>>), Message(Have, <<>>, <<>>) >>,
      << Message(BitField, <<>>, <<192>>), Message(Have, <<259>>, <<>>),
         Message(Unchoke, <<>>, <<>>) >>,
      << Message(Have, <<5>>, <<>>) >> }

Blocks == << <<258, 0, 130>>, <<258, 130, 1>> >>
=============================================================================
