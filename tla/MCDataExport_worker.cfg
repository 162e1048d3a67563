SPECIFICATION FairSpec
CONSTANTS
    Admins = {a, b}
    Workers = {w1}
    MaxExports = 2
    PerRun = 2
    NoAdmin = none
    Free = free
PROPERTIES
    OverdueExpires
    ApprovedIsClaimed
