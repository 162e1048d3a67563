SPECIFICATION Spec
CONSTANTS
    Procs = {p1, p2}
    Codes = {c1}
    NoCode = none
    MaxSessions = 2
    MaxPasswords = 2
    MaxResets = 2
SYMMETRY Symmetry
INVARIANTS TypeOK SignedOut SpentIsRemoved
