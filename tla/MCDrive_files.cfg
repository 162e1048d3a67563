SPECIFICATION Spec
CONSTANTS
    Procs = {p1, p2}
    Cleaners = {c1}
    Limit = 2
    Size <- MCSize
    MaxFiles = 3
    MaxKeys = 3
    MaxVersion = 3
CONSTRAINT Bound
SYMMETRY ProcSymmetry
INVARIANTS TypeOK
PROPERTIES LostOnlyToOverlap KeepsCabinet HeldIsKept OvershootIsLate
