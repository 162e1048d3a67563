SPECIFICATION FairSpec
CONSTANTS
    Procs = {p1}
    MaxRecs = 1
    Free = free
PROPERTIES
    FinishedIsListed
    UploadedIsSized
    ExpiredIsPurged
