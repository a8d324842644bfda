\* Command lines of up to three arguments, of every kind.
SPECIFICATION Spec
CONSTANTS
    Letters <- MCLetters
    Arguments <- MCArguments
    MaxArguments = 3
    Setups <- MCSetups
INVARIANTS TypeOK MeansArguments FailsForAReason ClientServed
CHECK_DEADLOCK FALSE
