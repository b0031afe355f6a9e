CONSTANTS
    k1 = k1  k2 = k2  c1 = c1
    Keys = {k1, k2}
    N = 3
    Gpu = {1}
    MayEvict = {}
    InsertTables = {1, 2}
    MinInsertSize = 2
    MinInsertWait = 0
    Callers = {c1}
    Batches <- TwoBatches
    Strides = {1}
    ModifyOps = {"erase"}
    TableIds = {0}
    OutputOnHost = FALSE
    MaxVersion = 0
    Exclusive = TRUE
    WaitsEach = TRUE
    MayThrow = FALSE
    None = None
SPECIFICATION Spec
INVARIANT RowsMatchKeys
