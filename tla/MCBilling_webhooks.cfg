SPECIFICATION Spec
CONSTANTS
    Procs = {p1, p2}
    MaxPlans = 2
INVARIANTS TypeOK AppliedOnce
PROPERTIES  ScheduledLostToFailedOnly
CONSTRAINT Upgrade
SYMMETRY ProcSymmetry
