------------------------------- MODULE Assembly -------------------------------
(***************************************************************************)
(* What a download promises, whoever sends the data: the output file grows *)
(* by whole pieces, in order, each with the contents the torrent names; a  *)
(* piece is counted as downloaded just before it is stored; and the        *)
(* download is complete only when every piece is in the file.              *)
(***************************************************************************)
EXTENDS Integers, Sequences

CONSTANTS N,         \* the number of pieces
          Contents   \* [0 .. N-1 -> the bytes of the piece]

VARIABLES saved,     \* pieces counted as downloaded
          file,      \* the pieces stored
          status     \* "running", "complete", or "failed" when given up

vars == <<saved, file, status>>

Init == saved = 0 /\ file = <<>> /\ status = "running"

\* The next piece is there and counted.
Count ==
    /\ status = "running"
    /\ Len(file) = saved
    /\ saved < N
    /\ saved' = saved + 1
    /\ UNCHANGED <<file, status>>

\* The piece counted last is stored.
Store ==
    /\ status = "running"
    /\ Len(file) < saved
    /\ file' = Append(file, Contents[Len(file)])
    /\ UNCHANGED <<saved, status>>

Complete ==
    /\ status = "running"
    /\ Len(file) = N
    /\ status' = "complete"
    /\ UNCHANGED <<saved, file>>

GiveUp ==
    /\ status = "running"
    /\ status' = "failed"
    /\ UNCHANGED <<saved, file>>

Next == Count \/ Store \/ Complete \/ GiveUp

Spec == Init /\ [][Next]_vars
=============================================================================
