----------------------------- MODULE ClientProofs -----------------------------
(***************************************************************************)
(* The two threads of Client for any number of pieces and any schedule:    *)
(* the lock excludes them from each other, what the progress thread shows  *)
(* is true, and the program assembles the file.                            *)
(***************************************************************************)
EXTENDS Client, TLAPS

\* The lock is held by the thread that is between its lock() and unlock().
LockInv ==
    /\ lock = "main" <=> main \in {"count", "unlock"}
    /\ lock = "watcher" <=> watcher \in {"read", "unlock"}

\* The downloader exists from its construction to the return of download(),
\* and the progress thread runs only after the former.
LifeInv ==
    /\ life = "unborn" <=> watcher = "none"
    /\ main \in {"options", "construct"} => life = "unborn"
    /\ main \in {"start", "download", "lock", "count", "unlock", "write"} => life = "alive"
    /\ main = "return" => life = "gone"
    /\ life = "gone" => piece = TotalPieces
    /\ life = "unborn" => shown = 0 /\ read = "nothing" /\ stats.downloaded = 0

\* The pieces for which writeToFile has been called.
Handed == IF main \in {"unlock", "write"} THEN piece - 1 ELSE piece

\* The count is one ahead of the file from Count to Write.
FileInv ==
    /\ main \in {"lock", "count"} => piece < TotalPieces
    /\ main \in {"unlock", "write"} => piece > 0
    /\ lost = {} => Len(file) = Handed
    /\ exit = "success" => piece = TotalPieces /\ main = "done"
    /\ main = "done" => exit # "running"

\* What was read while the downloader existed was true then, and the count
\* only grows.
StatsInv ==
    /\ life = "alive" => read # "late"
    /\ read # "late" => shown <= stats.downloaded /\ stats.downloaded <= piece
    /\ read # "late" /\ watcher \in {"unlock", "display", "sleep", "finished"} =>
         stats.total = TotalPieces
    /\ watcher = "finished" => stats.downloaded >= stats.total

\* What was read between the start of download() and its end are times of
\* this run of the program.
TimeInv ==
    /\ life = "alive" /\ main # "start" => startTime >= Epoch
    /\ read = "timely" => stats.startTime >= Epoch /\ stats.currentTime <= now
    /\ watcher = "threw" => FormatTimeThrows(stats.currentTime - stats.startTime)

IInv == LockInv /\ LifeInv /\ FileInv /\ StoredButLost(Handed) /\ StatsInv /\ TimeInv

\* Each thread takes the lock when it is free and gives back its own.
LEMMA LockStep == TypeOK /\ LockInv /\ LifeInv /\ [Next]_vars => LockInv'
<1> SUFFICES ASSUME TypeOK, LockInv, LifeInv, [Next]_vars
             PROVE  LockInv'
  OBVIOUS
<1> USE ClientAssumption DEF TypeOK, LockInv, LifeInv, Continue, EndAs, Running, MainGoes,
        WatcherGoes, downloader, output, tracker
<1>1. CASE ParseOptions \/ Construct \/ SetStartTime
  BY <1>1 DEF ParseOptions, Construct, SetStartTime
<1>2. CASE PieceArrives \/ DownloadThrows \/ LockToSave
  BY <1>2 DEF PieceArrives, DownloadThrows, LockToSave
<1>3. CASE Count
  BY <1>3 DEF Count
<1>4. CASE UnlockToWrite
  BY <1>4 DEF UnlockToWrite
<1>5. CASE Write
  BY <1>5 DEF Write, WriteToFile
<1>6. CASE Return
  BY <1>6 DEF Return
<1>7. CASE Exit
  BY <1>7 DEF Exit
<1>8. CASE LockToRead \/ ReadStatistics
  BY <1>8 DEF LockToRead, ReadStatistics
<1>9. CASE UnlockToDisplay \/ DisplayThrows
  BY <1>9 DEF UnlockToDisplay, DisplayThrows
<1>10. CASE DisplayProgress \/ Wake
  BY <1>10 DEF DisplayProgress, Wake, Shown, AllShown
<1>11. CASE Tick \/ Ended \/ UNCHANGED vars
  BY <1>11 DEF Tick, Ended, vars
<1> QED
  BY <1>1, <1>2, <1>3, <1>4, <1>5, <1>6, <1>7, <1>8, <1>9, <1>10, <1>11
     DEF Next, Main, MainProceeds, Watcher

\* The downloader goes only when every piece is stored.
LEMMA LifeStep == TypeOK /\ LifeInv /\ FileInv /\ [Next]_vars => LifeInv'
<1> SUFFICES ASSUME TypeOK, LifeInv, FileInv, [Next]_vars
             PROVE  LifeInv'
  OBVIOUS
<1> USE ClientAssumption DEF TypeOK, LifeInv, FileInv, Handed, Continue, EndAs, Running, MainGoes,
        WatcherGoes, downloader, output, tracker
<1>1. CASE ParseOptions \/ Construct \/ SetStartTime
  BY <1>1 DEF ParseOptions, Construct, SetStartTime
<1>2. CASE PieceArrives \/ DownloadThrows \/ LockToSave
  BY <1>2 DEF PieceArrives, DownloadThrows, LockToSave
<1>3. CASE Count
  BY <1>3 DEF Count
<1>4. CASE UnlockToWrite
  BY <1>4 DEF UnlockToWrite
<1>5. CASE Write
  BY <1>5 DEF Write, WriteToFile
<1>6. CASE Return
  BY <1>6 DEF Return
<1>7. CASE Exit
  BY <1>7 DEF Exit
<1>8. CASE LockToRead \/ ReadStatistics
  BY <1>8 DEF LockToRead, ReadStatistics
<1>9. CASE UnlockToDisplay \/ DisplayThrows
  BY <1>9 DEF UnlockToDisplay, DisplayThrows
<1>10. CASE DisplayProgress \/ Wake
  BY <1>10 DEF DisplayProgress, Wake, Shown, AllShown
<1>11. CASE Tick \/ Ended \/ UNCHANGED vars
  BY <1>11 DEF Tick, Ended, vars
<1> QED
  BY <1>1, <1>2, <1>3, <1>4, <1>5, <1>6, <1>7, <1>8, <1>9, <1>10, <1>11
     DEF Next, Main, MainProceeds, Watcher

\* The file follows the count, one write behind.
LEMMA FileStep == TypeOK /\ LifeInv /\ FileInv /\ [Next]_vars => FileInv'
<1> SUFFICES ASSUME TypeOK, LifeInv, FileInv, [Next]_vars
             PROVE  FileInv'
  OBVIOUS
<1> USE ClientAssumption DEF TypeOK, LifeInv, FileInv, Handed, Continue, EndAs, Running, MainGoes,
        WatcherGoes, downloader, output, tracker
<1>1. CASE ParseOptions \/ Construct \/ SetStartTime
  BY <1>1 DEF ParseOptions, Construct, SetStartTime
<1>2. CASE PieceArrives \/ DownloadThrows \/ LockToSave
  BY <1>2 DEF PieceArrives, DownloadThrows, LockToSave
<1>3. CASE Count
  BY <1>3 DEF Count
<1>4. CASE UnlockToWrite
  BY <1>4 DEF UnlockToWrite
<1>5. CASE Write
  BY <1>5 DEF Write, WriteToFile
<1>6. CASE Return
  BY <1>6 DEF Return
<1>7. CASE Exit
  BY <1>7 DEF Exit
<1>8. CASE LockToRead \/ ReadStatistics
  BY <1>8 DEF LockToRead, ReadStatistics
<1>9. CASE UnlockToDisplay \/ DisplayThrows
  BY <1>9 DEF UnlockToDisplay, DisplayThrows
<1>10. CASE DisplayProgress \/ Wake
  BY <1>10 DEF DisplayProgress, Wake, Shown, AllShown
<1>11. CASE Tick \/ Ended \/ UNCHANGED vars
  BY <1>11 DEF Tick, Ended, vars
<1> QED
  BY <1>1, <1>2, <1>3, <1>4, <1>5, <1>6, <1>7, <1>8, <1>9, <1>10, <1>11
     DEF Next, Main, MainProceeds, Watcher

\* A write leaves the piece in the file, or notes that it is lost.
LEMMA StoredStep == TypeOK /\ FileInv /\ StoredButLost(Handed) /\ [Next]_vars => StoredButLost(Handed)'
<1> SUFFICES ASSUME TypeOK, FileInv, StoredButLost(Handed), [Next]_vars,
                    NEW p \in 0 .. Handed' - 1
             PROVE  p \in lost' \/ \E k \in DOMAIN file' : file'[k] = Whole(p)
  BY DEF StoredButLost
<1> USE DEF Continue, EndAs, Running, MainGoes, WatcherGoes, downloader, output, tracker
<1>1. CASE Write
  <2>1. piece \in Nat /\ piece > 0 /\ Handed = piece - 1 /\ Handed' = piece
    BY <1>1 DEF Write, Handed, TypeOK, FileInv
  <2>2. p \in 0 .. piece - 2 \/ p = piece - 1
    BY <2>1
  <2>3. CASE p \in 0 .. piece - 2
    <3>1. p \in lost \/ \E k \in DOMAIN file : file[k] = Whole(p)
      BY <2>1, <2>3 DEF StoredButLost
    <3>2. /\ lost \subseteq lost'
          /\ \A k \in DOMAIN file : k \in DOMAIN file' /\ file'[k] = file[k]
      <4>1. lost \subseteq lost' /\ (file' = file \/ \E x : file' = Append(file, x))
        BY <1>1 DEF Write, WriteToFile
      <4>2. ASSUME NEW x, NEW k \in DOMAIN file
            PROVE  k \in DOMAIN Append(file, x) /\ Append(file, x)[k] = file[k]
        BY <4>2 DEF TypeOK
      <4> QED
        BY <4>1, <4>2
    <3> QED
      BY <3>1, <3>2
  <2>4. CASE p = piece - 1
    <3>1. CASE file' = Append(file, Whole(piece - 1))
      <4>1. Len(file) + 1 \in DOMAIN file' /\ file'[Len(file) + 1] = Whole(p)
        BY <2>4, <3>1 DEF TypeOK
      <4> QED
        BY <4>1
    <3>2. CASE lost' = lost \union {piece - 1}
      BY <2>4, <3>2
    <3> QED
      BY <1>1, <3>1, <3>2 DEF Write, WriteToFile
  <2> QED
    BY <2>2, <2>3, <2>4
<1>2. CASE Count
  <2>1. Handed' = Handed /\ file' = file /\ lost' = lost
    BY <1>2 DEF Count, Handed, TypeOK
  <2> QED
    BY <2>1 DEF StoredButLost
<1>3. CASE ParseOptions \/ Construct \/ SetStartTime \/ PieceArrives \/ DownloadThrows \/ LockToSave
  <2>1. Handed' = Handed /\ file' = file /\ lost' = lost
    BY <1>3 DEF ParseOptions, Construct, SetStartTime, PieceArrives, DownloadThrows, LockToSave, Handed
  <2> QED
    BY <2>1 DEF StoredButLost
<1>4. CASE UnlockToWrite \/ Return \/ Exit
  <2>1. Handed' = Handed /\ file' = file /\ lost' = lost
    BY <1>4 DEF UnlockToWrite, Return, Exit, Handed
  <2> QED
    BY <2>1 DEF StoredButLost
<1>5. CASE Watcher \/ Tick \/ Ended \/ UNCHANGED vars
  <2>1. piece' = piece /\ main' = main /\ file' = file /\ lost' = lost
    BY <1>5 DEF Watcher, LockToRead, ReadStatistics, UnlockToDisplay, DisplayThrows,
                DisplayProgress, Wake, Tick, Ended, vars
  <2> QED
    BY <2>1 DEF StoredButLost, Handed
<1> QED
  BY <1>1, <1>2, <1>3, <1>4, <1>5 DEF Next, Main, MainProceeds

\* What was read stays below the count.
LEMMA StatsStep == TypeOK /\ LifeInv /\ StatsInv /\ [Next]_vars => StatsInv'
<1> SUFFICES ASSUME TypeOK, LifeInv, StatsInv, [Next]_vars
             PROVE  StatsInv'
  OBVIOUS
<1> USE ClientAssumption DEF TypeOK, LifeInv, StatsInv, Continue, EndAs, Running, MainGoes,
        WatcherGoes, downloader, output, tracker
<1>1. CASE ParseOptions \/ Construct \/ SetStartTime
  BY <1>1 DEF ParseOptions, Construct, SetStartTime
<1>2. CASE PieceArrives \/ DownloadThrows \/ LockToSave
  BY <1>2 DEF PieceArrives, DownloadThrows, LockToSave
<1>3. CASE Count
  BY <1>3 DEF Count
<1>4. CASE UnlockToWrite
  BY <1>4 DEF UnlockToWrite
<1>5. CASE Write
  BY <1>5 DEF Write, WriteToFile
<1>6. CASE Return
  BY <1>6 DEF Return
<1>7. CASE Exit
  BY <1>7 DEF Exit
<1>8. CASE LockToRead \/ ReadStatistics
  BY <1>8 DEF LockToRead, ReadStatistics
<1>9. CASE UnlockToDisplay \/ DisplayThrows
  BY <1>9 DEF UnlockToDisplay, DisplayThrows
<1>10. CASE DisplayProgress \/ Wake
  BY <1>10 DEF DisplayProgress, Wake, Shown, AllShown
<1>11. CASE Tick \/ Ended \/ UNCHANGED vars
  BY <1>11 DEF Tick, Ended, vars
<1> QED
  BY <1>1, <1>2, <1>3, <1>4, <1>5, <1>6, <1>7, <1>8, <1>9, <1>10, <1>11
     DEF Next, Main, MainProceeds, Watcher

\* The times read stay those of this run.
LEMMA TimeStep == TypeOK /\ LifeInv /\ TimeInv /\ [Next]_vars => TimeInv'
<1> SUFFICES ASSUME TypeOK, LifeInv, TimeInv, [Next]_vars
             PROVE  TimeInv'
  OBVIOUS
<1> USE ClientAssumption DEF TypeOK, LifeInv, TimeInv, Continue, EndAs, Running, MainGoes,
        WatcherGoes, downloader, output, tracker
<1>1. CASE ParseOptions
  BY <1>1 DEF ParseOptions
<1>2. CASE Construct
  BY <1>2 DEF Construct
<1>3. CASE SetStartTime
  BY <1>3 DEF SetStartTime
<1>4. CASE PieceArrives
  BY <1>4 DEF PieceArrives
<1>5. CASE DownloadThrows
  BY <1>5 DEF DownloadThrows
<1>6. CASE LockToSave
  BY <1>6 DEF LockToSave
<1>7. CASE Count
  BY <1>7 DEF Count
<1>8. CASE UnlockToWrite
  BY <1>8 DEF UnlockToWrite
<1>9. CASE Write
  BY <1>9 DEF Write, WriteToFile
<1>10. CASE Return
  BY <1>10 DEF Return
<1>11. CASE Exit
  BY <1>11 DEF Exit
<1>12. CASE LockToRead
  BY <1>12 DEF LockToRead
<1>13. CASE ReadStatistics
  BY <1>13 DEF ReadStatistics
<1>14. CASE UnlockToDisplay
  BY <1>14 DEF UnlockToDisplay
<1>15. CASE DisplayThrows
  BY <1>15 DEF DisplayThrows
<1>16. CASE DisplayProgress
  BY <1>16 DEF DisplayProgress, Shown, AllShown
<1>17. CASE Wake
  BY <1>17 DEF Wake
<1>18. CASE Tick
  BY <1>18 DEF Tick
<1>19. CASE Ended \/ UNCHANGED vars
  BY <1>19 DEF Ended, vars
<1> QED
  BY <1>1, <1>2, <1>3, <1>4, <1>5, <1>6, <1>7, <1>8, <1>9, <1>10, <1>11,
     <1>12, <1>13, <1>14, <1>15, <1>16, <1>17, <1>18, <1>19
     DEF Next, Main, MainProceeds, Watcher

\* Types are kept; the count and the file need FileInv.
LEMMA TypeStep == TypeOK /\ FileInv /\ [Next]_vars => TypeOK'
<1> SUFFICES ASSUME TypeOK, FileInv, [Next]_vars
             PROVE  TypeOK'
  OBVIOUS
<1> USE ClientAssumption DEF TypeOK, Continue, EndAs, Running, MainGoes,
        WatcherGoes, downloader, output, tracker
<1>1. CASE ParseOptions
  BY <1>1 DEF ParseOptions
<1>2. CASE Construct
  BY <1>2 DEF Construct
<1>3. CASE SetStartTime
  BY <1>3 DEF SetStartTime
<1>4. CASE PieceArrives
  BY <1>4 DEF PieceArrives
<1>5. CASE DownloadThrows
  BY <1>5 DEF DownloadThrows
<1>6. CASE LockToSave
  BY <1>6 DEF LockToSave
<1>7. CASE Count
  BY <1>7 DEF Count, FileInv
<1>8. CASE UnlockToWrite
  BY <1>8 DEF UnlockToWrite
<1>9. CASE Write
  <2> DEFINE Pieces == [piece : 0 .. TotalPieces - 1, whole : BOOLEAN]
  <2>1. piece - 1 \in 0 .. TotalPieces - 1
    BY <1>9 DEF Write, FileInv
  <2>2. Whole(piece - 1) \in Pieces /\ Cut(piece - 1) \in Pieces
    BY <2>1 DEF Whole, Cut
  <2>3. file \in Seq(Pieces)
    OBVIOUS
  <2>4. lost' \subseteq 0 .. TotalPieces - 1
    BY <1>9, <2>1 DEF Write, WriteToFile
  <2>5. \/ file' = file \/ file' = Append(file, Whole(piece - 1))
        \/ file' = Append(file, Cut(piece - 1))
    BY <1>9 DEF Write, WriteToFile
  <2> HIDE DEF Pieces, TypeOK
  <2>6. file' \in Seq(Pieces)
    BY <2>2, <2>3, <2>5
  <2> USE DEF TypeOK
  <2>7. UNCHANGED <<now, exit, watcher, lock, life, startTime, piece, stats, shown, read>>
    BY <1>9 DEF Write
  <2>8. main' \in {"options", "construct", "start", "download", "lock", "count",
                   "unlock", "write", "return", "done"}
    BY <1>9 DEF Write
  <2> QED
    BY <2>4, <2>6, <2>7, <2>8 DEF Pieces
<1>10. CASE Return
  BY <1>10 DEF Return
<1>11. CASE Exit
  BY <1>11 DEF Exit
<1>12. CASE LockToRead
  BY <1>12 DEF LockToRead
<1>13. CASE ReadStatistics
  BY <1>13 DEF ReadStatistics
<1>14. CASE UnlockToDisplay
  BY <1>14 DEF UnlockToDisplay
<1>15. CASE DisplayThrows
  BY <1>15 DEF DisplayThrows
<1>16. CASE DisplayProgress
  BY <1>16 DEF DisplayProgress, Shown, AllShown
<1>17. CASE Wake
  BY <1>17 DEF Wake
<1>18. CASE Tick
  BY <1>18 DEF Tick
<1>19. CASE Ended \/ UNCHANGED vars
  <2>1. UNCHANGED vars
    BY <1>19 DEF Ended
  <2>2. UNCHANGED <<now, exit, main, watcher, lock, life, startTime, piece, file, lost, stats, shown, read>>
    BY <2>1 DEF vars
  <2> QED
    BY <2>2
<1> QED
  BY <1>1, <1>2, <1>3, <1>4, <1>5, <1>6, <1>7, <1>8, <1>9, <1>10, <1>11,
     <1>12, <1>13, <1>14, <1>15, <1>16, <1>17, <1>18, <1>19
     DEF Next, Main, MainProceeds, Watcher

LEMMA InitIInv == Init => TypeOK /\ IInv
<1> SUFFICES ASSUME Init PROVE TypeOK /\ IInv
  OBVIOUS
<1> USE ClientAssumption DEF Init
<1>1. TypeOK
  BY DEF TypeOK
<1>2. LockInv /\ LifeInv /\ FileInv /\ StatsInv /\ TimeInv
  BY DEF LockInv, LifeInv, FileInv, Handed, StatsInv, TimeInv
<1>3. StoredButLost(Handed)
  BY DEF StoredButLost, Handed
<1> QED
  BY <1>1, <1>2, <1>3 DEF IInv

\* Types, together with the invariants they rest on.
THEOREM ClientCorrect == Spec => [](TypeOK /\ IInv)
<1>1. TypeOK /\ IInv /\ [Next]_vars => (TypeOK /\ IInv)'
  BY LockStep, LifeStep, FileStep, StoredStep, StatsStep, TimeStep, TypeStep DEF IInv
<1> QED
  BY InitIInv, <1>1, PTL DEF Spec

\* The lock keeps the progress thread from reading the count while savePiece
\* changes it.
THEOREM RaceFree == Spec => []NoRaceOnPiece
<1>1. IInv => NoRaceOnPiece
  BY DEF IInv, LockInv, NoRaceOnPiece
<1> QED
  BY <1>1, ClientCorrect, PTL

\* When the progress thread has shown everything, all pieces are counted and
\* all but the last one are in the file, unless a write of them failed; when
\* the program ends with success, so is the last one.
THEOREM FinishedCorrect == Spec => []FinishedMeansStored
<1>1. TypeOK /\ IInv => FinishedMeansStored
  <2> SUFFICES ASSUME TypeOK, IInv PROVE FinishedMeansStored
    OBVIOUS
  <2>1. \A p \in 0 .. Handed - 1 : p \in lost \/ \E k \in DOMAIN file : file[k] = Whole(p)
    BY DEF IInv, StoredButLost
  <2>2. piece \in Nat /\ TotalPieces \in Nat
    BY ClientAssumption DEF TypeOK
  <2>3. ASSUME watcher = "finished", read # "late"
        PROVE  piece = TotalPieces /\ StoredButLost(TotalPieces - 1)
    <3>1. piece = TotalPieces
      BY <2>2, <2>3 DEF TypeOK, IInv, StatsInv
    <3>2. \A p \in 0 .. (TotalPieces - 1) - 1 : p \in 0 .. Handed - 1
      BY <2>2, <3>1 DEF Handed
    <3> QED
      BY <2>1, <3>1, <3>2 DEF StoredButLost
  <2>4. ASSUME exit = "success"
        PROVE  StoredButLost(TotalPieces)
    <3>1. Handed = TotalPieces
      BY <2>4 DEF IInv, FileInv, Handed
    <3> QED
      BY <2>1, <3>1 DEF StoredButLost
  <2> QED
    BY <2>3, <2>4 DEF FinishedMeansStored
<1> QED
  BY <1>1, ClientCorrect, PTL

\* The progress shown never goes back while the downloader exists.
THEOREM ShownGrows == Spec => ShownNeverBack
<1>1. TypeOK /\ IInv /\ [Next]_vars => [life = "alive" => shown' >= shown]_vars
  <2> SUFFICES ASSUME TypeOK, IInv, Next, life = "alive"
               PROVE  shown' >= shown
    OBVIOUS
  <2>1. shown' = shown \/ shown' = stats.downloaded
    BY DEF Next, Tick, Main, MainProceeds, ParseOptions, Construct, SetStartTime,
           PieceArrives, DownloadThrows, LockToSave, Count, UnlockToWrite, Write,
           Return, Exit, Watcher, LockToRead, ReadStatistics, UnlockToDisplay,
           DisplayThrows, DisplayProgress, Shown, Wake, Ended, tracker, vars
  <2> QED
    BY <2>1 DEF TypeOK, IInv, StatsInv
<1> QED
  BY <1>1, ClientCorrect, PTL DEF Spec, ShownNeverBack

\* A quotient that reaches m takes at least m times the divisor.
LEMMA QuotientBound ==
    ASSUME NEW a \in Int, NEW b \in Nat \ {0}, NEW m \in Nat, a \div b >= m
    PROVE  a >= m * b
<1>1. a \div b \in Int /\ a = b * (a \div b) + (a % b) /\ a % b >= 0
  OBVIOUS
<1>2. ASSUME NEW q \in Int, NEW r \in Nat, q >= m
      PROVE  b * q + r >= m * b
  <2>1. b * q = b * m + b * (q - m)
    OBVIOUS
  <2>2. b * (q - m) >= 0
    BY <1>2
  <2> QED
    BY <2>1, <2>2
<1> QED
  BY <1>1, <1>2

\* The progress display ends the program only by a time it read before it was
\* set or after it was gone, or after MaxHours.
THEOREM ThrowsExplained == Spec => []OnlyWrongOrLongTimesThrow
<1>1. TypeOK /\ IInv => OnlyWrongOrLongTimesThrow
  <2> SUFFICES ASSUME TypeOK, IInv, watcher = "threw", read = "timely"
               PROVE  now - Epoch >= MaxHours * Hour
    BY DEF OnlyWrongOrLongTimesThrow
  <2>1. stats.currentTime - stats.startTime \in Int
    BY DEF TypeOK
  <2>2. (stats.currentTime - stats.startTime) \div Hour >= MaxHours
    BY DEF IInv, TimeInv, FormatTimeThrows
  <2>3. stats.currentTime - stats.startTime >= MaxHours * Hour
    BY <2>1, <2>2, QuotientBound, ClientAssumption
  <2>4. stats.startTime >= Epoch /\ stats.currentTime <= now
    BY DEF IInv, TimeInv
  <2>5. stats.startTime \in Int /\ stats.currentTime \in Int /\ now \in Int
        /\ Epoch \in Int /\ MaxHours * Hour \in Int
    BY ClientAssumption DEF TypeOK
  <2> QED
    BY <2>3, <2>4, <2>5
<1> QED
  BY <1>1, ClientCorrect, PTL

\* As long as no write has failed, every step of the two threads is a step of
\* the assembly of the file: success comes only when every piece is in it.
THEOREM ProgramAssembles == Spec => AssemblesWhileWritesSucceed
<1> USE DEF Continue, EndAs, Running, MainGoes, WatcherGoes, downloader, output, tracker,
            Assembly!vars
<1>1. Init => Assembly!Init
  BY DEF Init, Assembly!Init
<1>2. TypeOK /\ IInv /\ [Next]_vars => [lost' = {} => Assembly!Next]_(Assembly!vars)
  <2> SUFFICES ASSUME TypeOK, IInv, [Next]_vars, lost' = {}
               PROVE  [Assembly!Next]_(Assembly!vars)
    OBVIOUS
  <2>0. lost = {}
    BY DEF Next, Tick, Main, MainProceeds, ParseOptions, Construct, SetStartTime,
           PieceArrives, DownloadThrows, LockToSave, Count, UnlockToWrite, Write, WriteToFile,
           Return, Exit, Watcher, LockToRead, ReadStatistics, UnlockToDisplay,
           DisplayThrows, DisplayProgress, Wake, Ended, vars
  <2> USE <2>0, ClientAssumption DEF TypeOK, IInv, LifeInv, FileInv, Handed
  <2>1. CASE Count
    <3>1. Assembly!Count
      BY <2>1 DEF Count, Assembly!Count
    <3> QED
      BY <3>1 DEF Assembly!Next
  <2>2. CASE Write
    <3>1. Len(file) = piece - 1 /\ Len(file) \in 0 .. TotalPieces - 1
      BY <2>2 DEF Write
    <3>2. file' = Append(file, [p \in 0 .. TotalPieces - 1 |-> Whole(p)][Len(file)])
      BY <2>2, <3>1 DEF Write, WriteToFile
    <3>3. Assembly!Store
      BY <2>2, <3>1, <3>2 DEF Write, Assembly!Store
    <3> QED
      BY <3>3 DEF Assembly!Next
  <2>3. CASE Return
    <3>1. Assembly!Complete
      BY <2>3 DEF Return, Assembly!Complete
    <3> QED
      BY <3>1 DEF Assembly!Next
  <2>4. CASE DownloadThrows \/ DisplayThrows
    <3>1. Assembly!GiveUp \/ UNCHANGED Assembly!vars
      BY <2>4 DEF DownloadThrows, DisplayThrows, Assembly!GiveUp
    <3> QED
      BY <3>1 DEF Assembly!Next
  <2>5. CASE Construct
    <3>1. Assembly!GiveUp \/ UNCHANGED Assembly!vars
      BY <2>5 DEF Construct, Assembly!GiveUp
    <3> QED
      BY <3>1 DEF Assembly!Next
  <2>6. CASE Tick \/ ParseOptions \/ SetStartTime \/ PieceArrives \/ LockToSave
             \/ UnlockToWrite \/ Exit
    BY <2>6 DEF Tick, ParseOptions, SetStartTime, PieceArrives, LockToSave,
                UnlockToWrite, Exit
  <2>7. CASE LockToRead \/ ReadStatistics \/ UnlockToDisplay \/ DisplayProgress \/ Wake
    BY <2>7 DEF LockToRead, ReadStatistics, UnlockToDisplay, DisplayProgress, Wake
  <2>8. CASE Ended \/ UNCHANGED vars
    BY <2>8 DEF Ended, vars
  <2> QED
    BY <2>1, <2>2, <2>3, <2>4, <2>5, <2>6, <2>7, <2>8
       DEF Next, Main, MainProceeds, Watcher
<1> QED
  BY <1>1, <1>2, ClientCorrect, PTL DEF Spec, AssemblesWhileWritesSucceed

(* Both threads stay in the order of the code: the places of each, the count,
   the file and the clock keep their types and bounds whatever the schedule. *)
THEOREM ClientTypeCorrect == Spec => []TypeOK
  BY ClientCorrect, PTL

===============================================================================
