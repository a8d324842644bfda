---------------------------------- MODULE Sha1 ----------------------------------
(***************************************************************************)
(* SHA1::update and SHA1::final: a message is cut into blocks and padded,  *)
(* and every block goes through transform.                                 *)
(***************************************************************************)
EXTENDS Sha1Transform, Hex

BlockBytes == 64   \* BLOCK_BYTES
LengthBytes == 8   \* of the number of bits at the end

VARIABLES
    stream,   \* what is still to be read of the stream
    buffer,   \* SHA1::buffer
    digest,   \* SHA1::digest
    blocks,   \* history: the blocks given to transform, in number transforms
    hash,     \* what final has returned
    hashing   \* "update", "final", or "done"

sha1 == <<stream, buffer, digest, blocks, hash, hashing>>

HashInit ==
    /\ stream = <<>> /\ buffer = <<>> /\ blocks = <<>> /\ hash = <<>>
    /\ digest = Start
    /\ hashing = "done"

\* A new SHA1, and update() called with the message.
Begin(message) ==
    /\ stream' = message /\ buffer' = <<>> /\ blocks' = <<>> /\ hash' = <<>>
    /\ digest' = Start
    /\ hashing' = "update"

\* The digest after the blocks.
Transformed(more) ==
    LET after[k \in 0 .. Len(more)] ==
          IF k = 0 THEN digest ELSE transform[<<after[k - 1], buffer_to_block(more[k])>>]
    IN  after[Len(more)]

\* A turn of update(): fill the buffer, and go on as long as it gets full.
Update ==
    /\ hashing = "update"
    /\ LET room   == BlockBytes - Len(buffer)
           filled == buffer \o SubSeq(stream, 1, IF room < Len(stream) THEN room ELSE Len(stream))
       IN  IF Len(filled) = BlockBytes
             THEN /\ blocks' = Append(blocks, filled)
                  /\ digest' = Transformed(<<filled>>)
                  /\ buffer' = <<>>
                  /\ stream' = SubSeq(stream, room + 1, Len(stream))
                  /\ UNCHANGED hashing
             ELSE /\ buffer' = filled /\ stream' = <<>>
                  /\ hashing' = "final"
                  /\ UNCHANGED <<blocks, digest>>
    /\ UNCHANGED hash

Zeros(n) == [i \in 1 .. n |-> 0]

\* The last LengthBytes bytes of a number, the most significant first.
LengthField(n) ==
    LET rest[k \in 0 .. LengthBytes] == IF k = 0 THEN n ELSE rest[k - 1] \div 256
    IN  [k \in 1 .. LengthBytes |-> rest[LengthBytes - k] % 256]

\* Eight digits of each word.
WordDigits(words) == HexText(FlattenSeq([k \in DOMAIN words |-> BytesOf(words[k])]))

\* Mutant of Spills: a length that just fits is put into a block of its own.
SpillsEarly(size) == size >= BlockBytes - LengthBytes

\* The padded buffer leaves no room for the length.
Spills(size) == size > BlockBytes - LengthBytes

\* final(): 0x80 and zeros up to the end of the block, and the number of bits
\* over the last bytes of it, or of a block of zeros behind it; the digits of
\* the digest are returned, and everything is reset.
Final ==
    /\ hashing = "final"
    /\ LET length == LengthField(8 * (Len(blocks) * BlockBytes + Len(buffer)))
           marked == Append(buffer, 128)
           padded == marked \o Zeros(BlockBytes - Len(marked))
           room   == BlockBytes - LengthBytes
           more   == IF Spills(Len(marked)) THEN <<padded, Zeros(room) \o length>>
                     ELSE <<SubSeq(padded, 1, room) \o length>>
       IN  /\ blocks' = blocks \o more
           /\ hash' = WordDigits(Transformed(more))
    /\ digest' = Start
    /\ buffer' = <<>>
    /\ hashing' = "done"
    /\ UNCHANGED stream

HashNext == Update \/ Final

-----------------------------------------------------------------------------
\* The padding of FIPS 180: a 1 bit, the fewest zeros, and the number of bits.
Padded(message) ==
    LET zeros == CHOOSE n \in 0 .. BlockBytes - 1 :
                    (Len(message) + 1 + n + LengthBytes) % BlockBytes = 0
    IN  Append(message, 128) \o Zeros(zeros) \o LengthField(8 * Len(message))

\* What transform was given is the padded message in whole blocks.
IsHashOf(message) ==
    /\ \A k \in DOMAIN blocks : Len(blocks[k]) = BlockBytes
    /\ FlattenSeq(blocks) = Padded(message)

\* What final returned is the digest of the blocks, in digits.
IsDigestOfBlocks == hash = WordDigits(DigestOf(blocks))

=============================================================================
