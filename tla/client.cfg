\* Two pieces; an hour of one second, of which three have too many digits; the
\* program starts long after time 0.
SPECIFICATION FairSpec
CONSTANTS
    TotalPieces = 2
    Hour = 1
    MaxHours = 3
    Epoch = 4
    MaxTime = 8
    Garbage <- AnyMemory
INVARIANTS TypeOK NoRaceOnPiece FinishedMeansStored OnlyWrongOrLongTimesThrow
PROPERTIES ShownNeverBack AssemblesWhileWritesSucceed Ends
