-------------------------------- MODULE Client --------------------------------
(***************************************************************************)
(* The program: main constructs the downloader, starts the progress thread *)
(* and detaches it, and downloads.  The two threads share the downloader,  *)
(* which lives on the stack of main, and its lock; what a download does    *)
(* between two pieces is Downloader's matter.  The end of the process ends *)
(* both threads.                                                           *)
(***************************************************************************)
EXTENDS Integers, Sequences

CONSTANTS
    TotalPieces,  \* torrentFile.PieceHashes.size()
    Hour,         \* seconds of an hour: 3600
    MaxHours,     \* the first number of hours with three digits: 100
    Epoch,        \* the time at which the program starts
    MaxTime,      \* bounds the clock
    Garbage       \* what memory may hold before startTime is set

ASSUME ClientAssumption ==
    /\ TotalPieces \in Nat
    /\ Hour \in Nat \ {0} /\ MaxHours \in Nat
    /\ Epoch \in Nat /\ MaxTime \in Nat /\ Epoch <= MaxTime
    /\ Garbage \subseteq Int /\ Garbage # {}

VARIABLES
    now,        \* time(nullptr)
    exit,       \* "running", or how the process has ended
    main,       \* the place of the main thread
    watcher,    \* the place of the progress thread
    lock,       \* TorrentDownloader::lock: "free" or its holder
    life,       \* of the downloader and the tracker: "unborn", "alive", "gone"
    startTime,  \* TorrentDownloader::startTime
    piece,      \* TorrentDownloader::piece
    file,       \* the output file, as the pieces written to it
    lost,       \* history: the pieces of which a write has failed
    stats,      \* ProgressStatistics of the progress thread
    shown,      \* ProgressTracker::piecesDownloaded
    read        \* history: what the last getStatistics read

vars == <<now, exit, main, watcher, lock, life, startTime, piece, file, lost,
          stats, shown, read>>

output     == <<file, lost>>
downloader == <<life, startTime, piece, output>>
tracker    == <<watcher, stats, shown, read>>

Running == exit = "running"

\* The process goes on after a step, or ends.
Continue == Running /\ exit' = exit
EndAs(how) == Running /\ exit' = how

MainGoes(from, to) == main = from /\ main' = to
WatcherGoes(from, to) == watcher = from /\ watcher' = to

-----------------------------------------------------------------------------
Init ==
    /\ now = Epoch
    /\ exit = "running"
    /\ main = "options"
    /\ watcher = "none"
    /\ lock = "free"
    /\ life = "unborn"
    /\ startTime \in Garbage
    /\ piece = 0
    /\ file = <<>>
    /\ lost = {}
    /\ stats = [startTime |-> 0, currentTime |-> 0, downloaded |-> 0, total |-> 0]
    /\ shown = 0
    /\ read = "nothing"

Tick ==
    /\ Continue
    /\ now' = IF now < MaxTime THEN now + 1 ELSE now
    /\ UNCHANGED <<main, watcher, lock, downloader, stats, shown, read>>

\* Options that do not parse end the program with 1, and without a torrent
\* file there is nothing to do.
ParseOptions ==
    /\ \/ MainGoes("options", "construct") /\ Continue
       \/ MainGoes("options", "done") /\ \E how \in {"usage", "idle"} : EndAs(how)
    /\ UNCHANGED <<now, lock, downloader, tracker>>

\* A torrent file that does not parse throws; otherwise the downloader has an
\* empty file and no startTime yet, and the thread is started and detached.
Construct ==
    /\ \/ MainGoes("construct", "start") /\ Continue /\ life' = "alive" /\ watcher' = "lock"
       \/ MainGoes("construct", "done") /\ EndAs("aborted") /\ UNCHANGED <<life, watcher>>
    /\ UNCHANGED <<now, lock, startTime, piece, output, stats, shown, read>>

\* Mutant of SetStartTime: it is left to the constructor, which has none.
SetStartTimeNot ==
    /\ Continue
    /\ MainGoes("start", "download")
    /\ UNCHANGED <<now, lock, downloader, tracker>>

\* download() begins.
SetStartTime ==
    /\ Continue
    /\ MainGoes("start", "download")
    /\ startTime' = now
    /\ UNCHANGED <<now, lock, life, piece, output, tracker>>

\* Mutant of PieceArrives: the loop runs once too often.
PieceArrivesOnceMore ==
    /\ Continue
    /\ piece <= TotalPieces
    /\ MainGoes("download", "lock")
    /\ UNCHANGED <<now, lock, downloader, tracker>>

\* The next piece has come and verifies.
PieceArrives ==
    /\ Continue
    /\ piece < TotalPieces
    /\ MainGoes("download", "lock")
    /\ UNCHANGED <<now, lock, downloader, tracker>>

\* An exception that download() does not catch, or a signal.
DownloadThrows ==
    /\ EndAs("aborted")
    /\ MainGoes("download", "done")
    /\ UNCHANGED <<now, lock, downloader, tracker>>

\* Mutant of LockToSave: savePiece takes no lock.
LockToSaveNot ==
    /\ Continue
    /\ MainGoes("lock", "count")
    /\ UNCHANGED <<now, lock, downloader, tracker>>

\* savePiece: the count changes under the lock, the file after it.
LockToSave ==
    /\ Continue
    /\ MainGoes("lock", "count")
    /\ lock = "free" /\ lock' = "main"
    /\ UNCHANGED <<now, downloader, tracker>>

Count ==
    /\ Continue
    /\ MainGoes("count", "unlock")
    /\ piece' = piece + 1
    /\ UNCHANGED <<now, lock, life, startTime, output, tracker>>

UnlockToWrite ==
    /\ Continue
    /\ MainGoes("unlock", "write")
    /\ lock' = "free"
    /\ UNCHANGED <<now, downloader, tracker>>

\* Piece p, or the beginning of it.
Whole(p) == [piece |-> p, whole |-> TRUE]
Cut(p)   == [piece |-> p, whole |-> FALSE]

\* Mutant of WriteToFile: the count is taken for the index of the piece.
WriteToFileNext ==
    \/ file' = Append(file, Whole(piece)) /\ UNCHANGED lost
    \/ file' \in {file, Append(file, Cut(piece))} /\ lost' = lost \union {piece}

\* writeToFile opens the file and writes, and looks at neither result: all of
\* the piece gets there, or a part, or nothing.
WriteToFile ==
    \/ file' = Append(file, Whole(piece - 1)) /\ UNCHANGED lost
    \/ file' \in {file, Append(file, Cut(piece - 1))} /\ lost' = lost \union {piece - 1}

\* The rest of savePiece; download() goes on in any case.
Write ==
    /\ Continue
    /\ MainGoes("write", "download")
    /\ WriteToFile
    /\ UNCHANGED <<now, lock, life, startTime, piece, tracker>>

\* Mutant of Return: download() goes on with no piece left.
ReturnNever ==
    /\ Continue
    /\ piece > TotalPieces
    /\ MainGoes("download", "return")
    /\ life' = "gone"
    /\ UNCHANGED <<now, lock, startTime, piece, output, tracker>>

\* download() returns, and the tracker and the downloader are destroyed.
Return ==
    /\ Continue
    /\ piece >= TotalPieces
    /\ MainGoes("download", "return")
    /\ life' = "gone"
    /\ UNCHANGED <<now, lock, startTime, piece, output, tracker>>

Exit ==
    /\ EndAs("success")
    /\ MainGoes("return", "done")
    /\ UNCHANGED <<now, lock, downloader, tracker>>

MainProceeds ==
    \/ ParseOptions \/ Construct \/ SetStartTime \/ PieceArrives
    \/ LockToSave \/ Count \/ UnlockToWrite \/ Write \/ Return \/ Exit

Main == MainProceeds \/ DownloadThrows

-----------------------------------------------------------------------------
\* getStatistics: the fields are read under the lock.
LockToRead ==
    /\ Continue
    /\ WatcherGoes("lock", "read")
    /\ lock = "free" /\ lock' = "watcher"
    /\ UNCHANGED <<now, main, downloader, stats, shown, read>>

\* What is read of a downloader that is gone may be anything.
ReadStatistics ==
    /\ Continue
    /\ WatcherGoes("read", "unlock")
    /\ \/ /\ life = "alive"
          /\ stats' = [startTime |-> startTime, currentTime |-> now,
                       downloaded |-> piece, total |-> TotalPieces]
          /\ read' = IF main = "start" THEN "early" ELSE "timely"
       \/ /\ life = "gone"
          /\ \E start \in Garbage \union {startTime}, count, total \in 0 .. TotalPieces :
                stats' = [startTime |-> start, currentTime |-> now,
                          downloaded |-> count, total |-> total]
          /\ read' = "late"
    /\ UNCHANGED <<now, main, lock, downloader, shown>>

UnlockToDisplay ==
    /\ Continue
    /\ WatcherGoes("unlock", "display")
    /\ lock' = "free"
    /\ UNCHANGED <<now, main, downloader, stats, shown, read>>

\* formatTime pads the hours to two digits, by a width that is negative, and
\* refused by std::string, when they have three; below 0 it says "inf".
FormatTimeThrows(seconds) == seconds \div Hour >= MaxHours

\* Mutant of Shown: the pieces since the last time are remembered.
ShownSince == stats.downloaded - shown

\* What displayProgress remembers for the next time.
Shown == stats.downloaded

\* Mutant of AllShown: the progress is rounded.
AllShownRounded == 2 * stats.downloaded >= stats.total

\* floor(progress) of displayProgress, as a bool.
AllShown == stats.downloaded >= stats.total

DisplayThrows ==
    /\ EndAs("aborted")
    /\ FormatTimeThrows(stats.currentTime - stats.startTime)
    /\ WatcherGoes("display", "threw")
    /\ UNCHANGED <<now, main, lock, downloader, stats, shown, read>>

\* trackProgress ends, or sleeps until the next second.
DisplayProgress ==
    /\ Continue
    /\ ~FormatTimeThrows(stats.currentTime - stats.startTime)
    /\ WatcherGoes("display", IF AllShown THEN "finished" ELSE "sleep")
    /\ shown' = Shown
    /\ UNCHANGED <<now, main, lock, downloader, stats, read>>

Wake ==
    /\ Continue
    /\ now > stats.currentTime \/ now = MaxTime
    /\ WatcherGoes("sleep", "lock")
    /\ UNCHANGED <<now, main, lock, downloader, stats, shown, read>>

Watcher ==
    \/ LockToRead \/ ReadStatistics \/ UnlockToDisplay
    \/ DisplayThrows \/ DisplayProgress \/ Wake

Ended == ~Running /\ UNCHANGED vars

Next == Tick \/ Main \/ Watcher \/ Ended

Spec == Init /\ [][Next]_vars

\* Both threads are scheduled, the clock runs and pieces arrive; no exception
\* is owed.  The progress thread sleeps for a second between two uses of the
\* lock, of microseconds each, so that main gets it.
Fairness ==
    /\ WF_vars(Tick) /\ WF_vars(Watcher)
    /\ WF_vars(MainProceeds) /\ SF_vars(LockToSave)

FairSpec == Spec /\ Fairness

-----------------------------------------------------------------------------
(* Properties                                                              *)

TypeOK ==
    /\ now \in Epoch .. MaxTime
    /\ exit \in {"running", "usage", "idle", "success", "aborted"}
    /\ main \in {"options", "construct", "start", "download", "lock", "count",
                 "unlock", "write", "return", "done"}
    /\ watcher \in {"none", "lock", "read", "unlock", "display", "sleep",
                    "finished", "threw"}
    /\ lock \in {"free", "main", "watcher"}
    /\ life \in {"unborn", "alive", "gone"}
    /\ startTime \in Garbage \union (Epoch .. MaxTime)
    /\ piece \in 0 .. TotalPieces
    /\ file \in Seq([piece : 0 .. TotalPieces - 1, whole : BOOLEAN])
    /\ lost \subseteq 0 .. TotalPieces - 1
    /\ stats \in [startTime : Int, currentTime : Int,
                  downloaded : 0 .. TotalPieces, total : 0 .. TotalPieces]
    /\ shown \in 0 .. TotalPieces
    /\ read \in {"nothing", "early", "timely", "late"}

\* The progress thread does not read the count while savePiece changes it.
NoRaceOnPiece == ~(main = "count" /\ watcher = "read")

\* The first n pieces are in the file, but for those whose write has failed.
StoredButLost(n) ==
    \A p \in 0 .. n - 1 : p \in lost \/ \E k \in DOMAIN file : file[k] = Whole(p)

\* When the progress thread has shown everything, all pieces are counted and
\* all but the last one are in the file, unless a write of them failed; when
\* the program ends with success, so is the last one.
FinishedMeansStored ==
    /\ watcher = "finished" /\ read # "late" =>
         piece = TotalPieces /\ StoredButLost(TotalPieces - 1)
    /\ exit = "success" => StoredButLost(TotalPieces)

\* The progress shown never goes back while the downloader exists.
ShownNeverBack == [][life = "alive" => shown' >= shown]_vars

\* The progress display can end the program only by a time it read before
\* download() had set it or after the downloader was gone, or after MaxHours.
OnlyWrongOrLongTimesThrow ==
    watcher = "threw" /\ read = "timely" => now - Epoch >= MaxHours * Hour

\* As long as no write has failed, the two threads together do no more than
\* the assembly of the file: the program ends with success only when every
\* piece is stored, whole and in its place.
Assembly == INSTANCE Assembly WITH
    N <- TotalPieces, Contents <- [p \in 0 .. TotalPieces - 1 |-> Whole(p)],
    saved <- piece,
    status <- IF main = "return" \/ exit = "success" THEN "complete"
              ELSE IF exit = "aborted" THEN "failed" ELSE "running"

AssemblesWhileWritesSucceed ==
    /\ Assembly!Init
    /\ [][lost' = {} => Assembly!Next]_(Assembly!vars)

\* The program ends, if pieces go on coming: nobody waits for the progress
\* thread, and no thread ends or waits with the lock in its hands.
Ends == <>(exit # "running")
=============================================================================
