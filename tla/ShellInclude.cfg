SPECIFICATION Spec
CONSTANTS
    Files = {f, g}
    Constants <- OneConstant
    Names = {"a"}
    Values = {0}
    MAX_TAG = 1
    TraceLimits = {2}
    MaxScripts = 1
    f = f
    g = g
INVARIANT RefusedFilesAreOpen
CHECK_DEADLOCK FALSE
