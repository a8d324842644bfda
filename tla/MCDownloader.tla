----------------------------- MODULE MCDownloader -----------------------------
(* Small instances of Downloader: who has what when the client starts.      *)
EXTENDS Downloader

\* Peer 0 has everything, peer 1 the first piece only, peer 2 all the others.
Split ==
    [p \in Peers |-> CASE p = 0 -> Pieces [] p = 1 -> {0} [] OTHER -> Pieces \ {0}]

\* Peer 0 has everything, peer 1 nothing yet.
SeedAndNewcomer == [p \in Peers |-> IF p = 0 THEN Pieces ELSE {}]

\* Peer 2 has nothing yet, the others all pieces of the torrent they share.
SeedsNewcomerStranger == [p \in Peers |-> IF p = 2 THEN {} ELSE PiecesOf(p)]

\* Peer 0 has nothing yet, peer 1 everything.
NewcomerAndSeed == [p \in Peers |-> IF p = 0 THEN {} ELSE Pieces]

\* Every peer has all pieces of the torrent it shares.
Seeds == [p \in Peers |-> PiecesOf(p)]
=============================================================================
