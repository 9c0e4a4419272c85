SPECIFICATION Spec
CONSTANTS
    NCells = 17
    Problems <- DocumentedGraft
    FreeCounts = {1, 2}
INVARIANTS
    GraftAsDocumented
CHECK_DEADLOCK FALSE
