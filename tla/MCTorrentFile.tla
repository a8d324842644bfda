----------------------------- MODULE MCTorrentFile -----------------------------
(* Short texts of any kind, and torrent files with the fields spelled in     *)
(* any order, some of them wrong.                                            *)
EXTENDS TorrentFile, BencodeText

CONSTANT Canonical    \* texts with sorted keys and shortest numbers

Letters == [n \in 0 .. 9 |-> [i \in 1 .. n |-> 120]]

\* The text of an entry of a dictionary.
Entry(name, v) == EncodeString(name) \o Encode(v)
InfoText(length, pieceLength, pieces, name, extra) ==
    <<CharD>> \o Entry(Length, IntOf(length)) \o Entry(Name, StrOf(Letters[name]))
              \o Entry(PieceLength, IntOf(pieceLength)) \o Entry(Pieces, StrOf(Letters[pieces]))
              \o extra \o <<CharE>>
FileText(info) ==
    <<CharD>> \o Entry(Announce, StrOf(Letters[1])) \o EncodeString(Info) \o info \o <<CharE>>

\* An entry that is not used, of 3 + 2 + 11 * n characters.
Unused(n) == Entry(<<120>>, ListOf([k \in 1 .. n |-> StrOf(Letters[9])]))

\* Names that bring the info dictionary to the lengths that the blocks of the
\* hash tell apart, and sizes that fill the last piece, do not fill it, and are
\* too large for an int.
CanonicalTexts ==
    {FileText(InfoText(4, 2, 4, name, Unused(2))) : name \in {0, 1, 8, 9}}
      \union {FileText(InfoText(length, 2, pieces, 1, <<>>)) : length \in {3, 9}, pieces \in {2, 3, 4}}

\* The keys of the info dictionary in another order, fields missing in either
\* dictionary or of other types, and a key that comes twice.
OddTexts ==
    {FileText(<<CharD>> \o Entry(Pieces, StrOf(Letters[4])) \o Entry(Name, StrOf(Letters[1]))
                \o Entry(PieceLength, IntOf(2)) \o Entry(Length, IntOf(4)) \o <<CharE>>),
     FileText(<<CharD>> \o Entry(Length, StrOf(Letters[1])) \o Entry(Name, StrOf(Letters[1]))
                \o Entry(PieceLength, IntOf(2)) \o Entry(Pieces, StrOf(Letters[2])) \o <<CharE>>),
     FileText(<<CharD>> \o Entry(Length, IntOf(1)) \o <<CharE>>),
     FileText(Encode(IntOf(1))),
     <<CharD>> \o EncodeString(Info) \o <<CharD, CharE, CharE>>}
      \union {<<CharD>> \o Entry(Name, IntOf(0)) \o Entry(Name, v) \o <<CharE>> :
                 v \in {IntOf(0), StrOf(<<>>), StrOf(Letters[1]), ListOf(<<>>), EmptyDict}}

AnyText == CanonicalTexts \union OddTexts

SomeValues ==
    LET scalars == {IntOf(n) : n \in {-11, -2, 0, 1, 10}} \union {StrOf(Letters[n]) : n \in 0 .. 1}
    IN  scalars \union {ListOf(<<v, w>>) : v, w \in scalars} \union {ListOf(<<>>)}
          \union {DictOf([k \in {<<>>} |-> v]) : v \in scalars}
          \union {DictOf([k \in {<<48>>, <<49>>} |-> IntOf(Head(k) - Zero)])}
          \union {ListOf(<<ListOf(<<>>), DictOf([k \in {<<>>} |-> ListOf(<<>>)])>>)}

OldFiles == {<<>>, <<1, 2, 3>>}

\* The known answer of FIPS 180 for the three characters abc.
ASSUME KnownAnswer ==
    DigestOf(<< <<97, 98, 99, 128>> \o Zeros(59) \o <<24>> >>) =
        << Word(\Ha999, \H3e36), Word(\H4706, \H816a), Word(\Hba3e, \H2571),
           Word(\H7850, \Hc26c), Word(\H9cd0, \Hd89d) >>

\* The info hash is the hash of the bytes that the torrent file has behind the
\* key of its info dictionary, if it is spelled as the format asks and nobody
\* has touched the file in between.
InfoHashIsOfFile ==
    Hashed /\ ~disturbed /\ text \in Canonical =>
        \E i \in DOMAIN text, j \in DOMAIN text :
            /\ IsSuffix(EncodeString(Info), SubSeq(text, 1, i - 1))
            /\ IsHashOf(SubSeq(text, i, j))
            /\ Means(SubSeq(text, i, j), InfoOf(result))
=============================================================================
