SPECIFICATION FairSpec
CONSTANTS
    NCells = 13
    Typed <- TypedTokens
    Numbers <- TypedNumbers
    Hashes <- TypedHashes
    Names <- TypedNames
    Words <- DefinedWords
    DefnRoots <- DefinitionRoots
    DefnCells <- DefinedCells
    FreeCounts = {4, 7, 11}
    Octet = 4
INVARIANTS HandsAlive ReadsAsWritten AsksForMore PrintedReadsBack
PROPERTY ReadingEnds
CHECK_DEADLOCK FALSE
