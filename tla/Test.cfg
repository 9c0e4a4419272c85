SPECIFICATION Spec
CONSTANTS
    NCells = 6
    NMax = 2
    ElemVar = {x}
    PcellVar = {p}
    ClientBytes = {}
INVARIANTS
    TypeOK
    NoDanglingAddress
    WithinMemoryLimit
PROPERTIES
    Implements
CHECK_DEADLOCK FALSE
