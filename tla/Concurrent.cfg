CONSTANTS
    w1 = w1  w2 = w2  c1 = c1  c2 = c2  k1 = k1  k2 = k2  k3 = k3  Invalid = Invalid  None = None
    Contexts = {c1, c2}
    MaxLookups = 2
    MaxModifies = 3
SPECIFICATION AllSpec
INVARIANTS GInv NoOverlap ReadsItsPlace NoTornRow RowsAreCurrent OneBuffer
PROPERTIES ConcludesAll CallsReturn
CHECK_DEADLOCK FALSE
