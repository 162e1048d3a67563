INIT MCInit
NEXT Next
CONSTANTS
    Users = {h, m}
    Host = h
    Moderators = {}
    Admins = {}
    Externals = {}
    Guests = {}
    Procs = {p1, p2}
    MaxRows = 2
    NoUser = none
INVARIANTS TypeOK ActiveIsLatest
PROPERTIES GoneStaysGone KeepsSeats
CONSTRAINT Bound
SYMMETRY ProcSymmetry
