CONSTANTS
    NULL = NULL
    MaxCoeff = 12
    Smooth = {4, 6, 8, 12}
    MsieveMult = 4
    TableCoeff = 4
    MinCoeffs = {1}
    Mults = {0, 6}
    Targets = {0, 2}
    MaxHits = 1
    Composites = 1
    Orphans = FALSE
    RecordCap = 4
SPECIFICATION LocalSpec
CONSTRAINT CorpusBound
INVARIANTS
    GapsFilled
CHECK_DEADLOCK FALSE
