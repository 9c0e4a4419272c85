SPECIFICATION Spec
CONSTANTS
    NCells = 3
    ElemVar = {x}
    PcellVar = {p}
    ClientBytes = {}
INVARIANTS
    TypeOK
    AllocatedClosed
    LiveNotFree
    ReserveKept
    MarkComputesReach
    NoCycles
    NoSpuriousOom
PROPERTIES
    LiveCellsKept
    Implements
CHECK_DEADLOCK FALSE
