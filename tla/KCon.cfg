SPECIFICATION FairSpec
CONSTANTS
    NCells = 13
    Problems <- AllProblems
    FreeCounts = {1, 3}
INVARIANTS HandsAlive RouteFits
PROPERTIES ImplementsKCon OperatorsAnswer
CHECK_DEADLOCK FALSE
