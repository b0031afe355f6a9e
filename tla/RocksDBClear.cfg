CONSTANTS
    k1 = k1  k2 = k2  k3 = k3  c1 = c1  c2 = c2  None = None  Wild = Wild  Stamp = Stamp  Count = Count
SPECIFICATION ClearSpec
INVARIANT ClearEmpties
