CONSTANTS
    k1 = k1  k2 = k2  k3 = k3  c1 = c1  c2 = c2  None = None
    Keys = {k1, k2}
    N = 2
    Gpu = {}
    MayEvict = {}
    InsertTables = {1}
    MinInsertSize = 2
    MinInsertWait = 0
    Callers = {c1, c2}
    Batches <- OneKey
    Strides = {1}
    ModifyOps = {"erase"}
    TableIds = {0}
    OutputOnHost = TRUE
    MaxVersion = 0
    Exclusive = FALSE
    WaitsEach = FALSE
    MayThrow = FALSE
SPECIFICATION LayersSpec
INVARIANTS LayerTypeOK RowsAgree RowsHaveTheirKeys LookupAnswers HitsAreTheTables InsertLockExcludes
PROPERTIES LayerLockIsReleased LayerModifyReturns
