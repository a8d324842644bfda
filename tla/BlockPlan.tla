------------------------------ MODULE BlockPlan ------------------------------
(***************************************************************************)
(* The arithmetic by which TorrentDownloader::downloadPiece cuts a piece   *)
(* into blocks: how many requests it sends and how long each one is.       *)
(***************************************************************************)
EXTENDS Integers

CONSTANT BlockSize   \* #define BlockSize 16384

ASSUME BlockSizeAssumption == BlockSize \in Nat \ {0}

\* The number of blocks of the full size in a piece.
TotalFullBlocks(length) == length \div BlockSize

\* The length of the last block, which is a full one when they fit exactly.
LastBlockLength(length) ==
    IF length % BlockSize = 0 THEN BlockSize ELSE length % BlockSize

\* The number of blocks downloadPiece has to receive.
TotalBlocks(length) ==
    IF LastBlockLength(length) < BlockSize
      THEN TotalFullBlocks(length) + 1
      ELSE TotalFullBlocks(length)

\* Mutant of RequestSize: every block is asked for as a full one.
RequestSizeFull(length, block) == BlockSize

\* The size asked for in the request of block number "block".
RequestSize(length, block) ==
    IF block = TotalBlocks(length) - 1 THEN LastBlockLength(length) ELSE BlockSize
=============================================================================
