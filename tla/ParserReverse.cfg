SPECIFICATION Spec
CONSTANTS
    NCells = 13
    Typed <- ReversedNames
    Numbers <- TypedNumbers
    Hashes <- TypedHashes
    Names <- TypedNames
    Words <- DefinedWords
    DefnRoots <- DefinitionRoots
    DefnCells <- DefinedCells
    FreeCounts = {11}
    Octet = 4
INVARIANT ReadsAsWritten
CHECK_DEADLOCK FALSE
