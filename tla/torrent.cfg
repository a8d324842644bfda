\* Integers have one sure digit and go to 10, an int holds -8 to 7 and
\* the hashes of pieces have two bytes.
SPECIFICATION Spec
CONSTANTS
    IntDigits = 1
    MaxInt = 10
    SizeDigits = 1
    MaxSize = 10
    Alphabet = {45, 48, 49, 50, 58, 100, 101, 105, 108}
    FreeLength = 7
    Texts <- AnyText
    Values <- SomeValues
    HashSize = 2
    IntLimit = 8
    Leftovers <- OldFiles
    Encoder <- Encode
    Means <- Meaning
    Begins <- Beginning
    Canonical <- CanonicalTexts
INVARIANTS TypeOK DecodesGrammar InfoHashIsOfFile PadsMessage DigestsAsSpecified SizesFit
PROPERTIES AcceptsEncodings
