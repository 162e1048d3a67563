SPECIFICATION Spec
CONSTANTS
    Admins = {a, b}
    Workers = {w1, w2}
    MaxExports = 2
    PerRun = 1
    NoAdmin = none
    Free = free
SYMMETRY WorkerSymmetry
INVARIANTS
    TypeOK
    FourEyes
PROPERTIES
    KeepsDesk
    ReadyLostOnlyToItsBuilder
