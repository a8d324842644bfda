------------------------------- MODULE TorrentFile -------------------------------
(***************************************************************************)
(* Decoder::getTorrentFile: the file is decoded, its fields are taken out, *)
(* the info dictionary is written to InfoHash.torrent and the hash of what *)
(* is in that file is the info hash, and the pieces and sizes are parsed.  *)
(* Names of fields are one character here.                                 *)
(***************************************************************************)
EXTENDS Bencode, Sha1

CONSTANTS
    HashSize,                 \* bytes of a piece's hash: 20
    IntLimit,                 \* int holds -IntLimit .. IntLimit - 1
    Leftovers,                \* what InfoHash.torrent may hold of others
    Encoder(_)                \* what the encoder writes for a value

ASSUME TorrentFileAssumption ==
    /\ {HashSize, IntLimit} \subseteq Nat \ {0}
    /\ Leftovers \subseteq Seq(Characters)

VARIABLES
    phase,      \* "decode", "extract", "write", "open", "hash", "parse", "ready",
                \* "terminated" by an exception, or "undefined"
    temp,       \* the contents of InfoHash.torrent
    disturbed,  \* history: another client, or a failure, has got in between
    torrent     \* pieceHashes, PieceLength and Length of TorrentFile

\* The hash of Sha1 is the InfoHash.
vars == <<decoder, phase, temp, disturbed, torrent, sha1>>

\* The names of the fields, in the order of the real ones.
Announce    == <<97>>
Info        == <<102>>
Length      == <<108>>
Name        == <<110>>
PieceLength == <<113>>
Pieces      == <<114>>

TorrentInit ==
    /\ Init
    /\ HashInit
    /\ phase = "decode"
    /\ temp \in Leftovers
    /\ disturbed = FALSE
    /\ torrent = [hashes |-> <<>>, pieceLength |-> 0, length |-> 0]

Goes(from, to) == phase = from /\ phase' = to

ReadFile ==
    /\ Decode
    /\ Goes("decode", CASE outcome' = "done"   -> "extract"
                        [] outcome' = "failed" -> "terminated"
                        [] OTHER               -> "decode")
    /\ UNCHANGED <<temp, disturbed, torrent, sha1>>

\* The first of the fields that is not there, or not of its type: find()
\* returns end(), which is dereferenced, and get throws.
Defect(fields, dict) ==
    LET bad == {k \in DOMAIN fields :
                   fields[k].name \in DOMAIN dict => ~Is(fields[k].type, dict[fields[k].name])}
        first == CHOOSE k \in bad : \A j \in bad : k <= j
    IN  IF bad = {} THEN "none"
        ELSE IF fields[first].name \in DOMAIN dict THEN "terminated" ELSE "undefined"

Field(name, type) == [name |-> name, type |-> type]
RootFields == <<Field(Info, "dict"), Field(Announce, "str")>>
InfoFields == <<Field(Name, "str"), Field(PieceLength, "int"),
                Field(Length, "int"), Field(Pieces, "str")>>

InfoOf(root) == root.dict[Info]

\* decode() up to the call of sha1.
Extract ==
    /\ phase = "extract"
    /\ Goes("extract",
            IF ~Is("dict", result) THEN "terminated"
            ELSE LET root == Defect(RootFields, result.dict) IN
                 IF root # "none" THEN root
                 ELSE LET info == Defect(InfoFields, InfoOf(result).dict) IN
                      IF info # "none" THEN info ELSE "write")
    /\ UNCHANGED <<decoder, temp, disturbed, torrent, sha1>>

\* Mutant of WriteTemp: the file is opened for appending.
WriteTempAppends ==
    /\ Goes("write", "open")
    /\ temp' = temp \o Encoder(InfoOf(result))
    /\ UNCHANGED <<decoder, disturbed, torrent, sha1>>

\* sha1(): the file is truncated and written.
WriteTemp ==
    /\ Goes("write", "open")
    /\ temp' = Encoder(InfoOf(result))
    /\ UNCHANGED <<decoder, disturbed, torrent, sha1>>

\* It cannot be opened for writing, and nothing is said.
WriteTempFails ==
    /\ Goes("write", "open")
    /\ disturbed' = TRUE
    /\ UNCHANGED <<decoder, temp, torrent, sha1>>

\* Another client in the same directory writes its own.
OtherClient ==
    /\ phase = "open" /\ phase' = phase
    /\ temp' \in Leftovers
    /\ disturbed' = TRUE
    /\ UNCHANGED <<decoder, torrent, sha1>>

ReadTemp ==
    /\ Goes("open", "hash")
    /\ Begin(temp)
    /\ UNCHANGED <<decoder, temp, disturbed, torrent>>

Hash ==
    /\ HashNext
    /\ Goes("hash", IF hashing' = "done" THEN "parse" ELSE "hash")
    /\ UNCHANGED <<decoder, temp, disturbed, torrent>>

\* The conversion of a long to an int.
ToInt(n) == ((n + IntLimit) % (2 * IntLimit)) - IntLimit

\* Mutant of Chunks: a loop with one turn too few.
ChunksButLast(s) ==
    [k \in 1 .. (Len(s) - 1) \div HashSize |-> SubSeq(s, (k - 1) * HashSize + 1, k * HashSize)]

Chunks(s) ==
    [k \in 1 .. Len(s) \div HashSize |-> SubSeq(s, (k - 1) * HashSize + 1, k * HashSize)]

\* parse(): hashes of the wrong size throw.
Parse ==
    /\ phase = "parse"
    /\ LET info   == InfoOf(result).dict
           pieces == info[Pieces].str
       IN  \/ /\ Len(pieces) % HashSize > 0
              /\ phase' = "terminated"
              /\ UNCHANGED torrent
           \/ /\ Len(pieces) % HashSize = 0
              /\ phase' = "ready"
              /\ torrent' = [hashes |-> Chunks(pieces),
                             pieceLength |-> ToInt(info[PieceLength].int),
                             length |-> ToInt(info[Length].int)]
    /\ UNCHANGED <<decoder, temp, disturbed, sha1>>

Stopped == phase \in {"ready", "terminated", "undefined"} /\ UNCHANGED vars

Next ==
    \/ ReadFile \/ Extract \/ WriteTemp \/ WriteTempFails \/ OtherClient
    \/ ReadTemp \/ Hash \/ Parse \/ Stopped

Spec == TorrentInit /\ [][Next]_vars

-----------------------------------------------------------------------------
(* Properties                                                              *)

\* The phases fit what was read; no number leaves its type and the hashes have
\* their size.
TypeOK ==
    /\ outcome = "reading" <=> phase = "decode"
    /\ phase \notin {"decode", "terminated"} => outcome = "done"
    /\ at \in {"sign", "number"} => InRange(number.value)
    /\ at = "bytes" => missing \in 1 .. MaxSize /\ Len(chars) + missing = number.value
    /\ \A k \in DOMAIN torrent.hashes : Len(torrent.hashes[k]) = HashSize
    /\ hashing \in {"update", "final"} <=> phase = "hash"

Hashed == phase \in {"parse", "ready"}

\* Whatever is in the file, SHA-1 gets it whole and padded.
PadsMessage == Hashed => IsHashOf(temp)

\* The info hash is, in digits, the digest that the standard gives the blocks: a
\* schedule that overwrites its words in place and variables that change their
\* roles compute the same.
DigestsAsSpecified == Hashed => IsDigestOfBlocks

\* The number of pieces that the length makes.
PiecesOf(length, pieceLength) == (length + pieceLength - 1) \div pieceLength

\* A torrent with one hash for every piece, of sizes below 2 GiB, is what
\* download() takes it for: the last piece has 1 to PieceLength bytes.
SizesFit ==
    phase = "ready" =>
        LET length      == InfoOf(result).dict[Length].int
            pieceLength == InfoOf(result).dict[PieceLength].int
            hashes      == Len(InfoOf(result).dict[Pieces].str)
            last == torrent.length - (Len(torrent.hashes) - 1) * torrent.pieceLength
        IN  {length, pieceLength} \subseteq 1 .. IntLimit - 1 =>
              (hashes = HashSize * PiecesOf(length, pieceLength) =>
                 last \in 1 .. torrent.pieceLength)
=============================================================================
