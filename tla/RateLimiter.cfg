SPECIFICATION Spec
CONSTANTS
    ip1 = ip1
    c1 = c1  c2 = c2
    NoBucket = NoBucket
    IP = {ip1}
    Call = {c1, c2}
    Reqs = 2
    Window = 2
    MaxTime = 7
SYMMETRY Symmetry
INVARIANTS
    WindowBound
PROPERTY
    BucketsApart
