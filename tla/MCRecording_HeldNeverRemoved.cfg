SPECIFICATION Spec
CONSTANTS
    Procs = {p1, p2}
    MaxRecs = 1
    Free = free
PROPERTIES
    HeldNeverRemoved
