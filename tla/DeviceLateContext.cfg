CONSTANTS
    k1 = k1  k2 = k2  c1 = c1  c2 = c2
    Keys = {k1, k2}
    Contexts = {c1, c2}
    FlowContexts = {c1, c2}
    Modifiers = {"m1"}
    Sets = {"s"}
    Ways = {1}
    SetOf <- MCSetOf
    MaxVal = 0
    MaxQueue = 1
    MaxUpdate = 1
    Sentinel = "free"
    LateContexts = TRUE
    EventMayFail = FALSE
    Calls <- AllCalls
SPECIFICATION Spec
INVARIANT NoRowRace
SYMMETRY Symmetry
