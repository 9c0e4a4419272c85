SPECIFICATION Spec
CONSTANTS
    NCells = 3
    ElemVar = {x}
    PcellVar = {p}
    ClientBytes = {}
INVARIANTS
    ReserveAssertion
CHECK_DEADLOCK FALSE
