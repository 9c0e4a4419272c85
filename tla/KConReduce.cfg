SPECIFICATION Spec
CONSTANTS
    NCells = 17
    Problems <- ReducedList
    FreeCounts = {1, 2}
INVARIANTS
    ReduceAsDocumented
CHECK_DEADLOCK FALSE
