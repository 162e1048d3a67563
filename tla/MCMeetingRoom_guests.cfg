SPECIFICATION FairSpec
CONSTANTS
    Users = {h, x}
    Host = h
    Moderators = {}
    Admins = {}
    Externals = {x}
    Guests = {x}
    Procs = {p1}
    MaxRows = 1
    NoUser = none
INVARIANTS AdmittedOnly RolesKept
PROPERTIES OverdueEnds PlanEndedCloses
