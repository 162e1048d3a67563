SPECIFICATION Spec
CONSTANTS
    Procs = {p1, p2}
    Viewers = {v1}
    Purgers = {g1, g2}
    Free = free
    Buffer = 2
    MaxMessages = 2
CONSTRAINT Bound
SYMMETRY Symmetry
INVARIANTS TypeOK ErasedStaysErased NewMessageUnhides
PROPERTIES HeldKeepsAttachments
