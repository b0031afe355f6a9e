CONSTANTS
    k1 = k1  k2 = k2  c1 = c1  c2 = c2
    Keys = {k1}
    Contexts = {c1}
    FlowContexts = {c1}
    Modifiers = {"m1", "m2"}
    Sets = {"s"}
    Ways = {1, 2}
    SetOf <- MCSetOf
    MaxVal = 0
    MaxQueue = 1
    MaxUpdate = 1
    Sentinel = "free"
    LateContexts = FALSE
    EventMayFail = TRUE
    Calls <- SplitCalls
SPECIFICATION FairSpec
INVARIANTS OneWayPerKey
PROPERTIES ModifyReturns UpdateRestoresKey
CHECK_DEADLOCK FALSE
