SPECIFICATION Spec
CONSTANTS
    Procs = {p1, p2}
    MaxRecs = 2
    Free = free
INVARIANTS TypeOK
PROPERTIES HeldLostOnlyUnlocked
CONSTRAINT SecondIsUngoverned
SYMMETRY ProcSymmetry
