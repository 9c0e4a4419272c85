SPECIFICATION FairSpec
CONSTANTS
    Files = {f, g}
    Constants <- OneConstant
    Names = {"a"}
    Values = {0}
    MAX_TAG = 1
    TraceLimits = {2}
    MaxScripts = 2
    f = f
    g = g
INVARIANTS TypeOK CallsAreRegistered RetriedFiles TraceIsBounded
PROPERTY FilesEnd
CHECK_DEADLOCK FALSE
