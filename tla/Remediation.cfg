SPECIFICATION FairSpec
CONSTANTS
    Sources = {s1}
    MaxChildren = 2
    MaxExecs = 2
    MaxCrashes = 1
    MaxResumes = 2
INVARIANTS
    FixNeedsConsent
    NoWaitForFailed
PROPERTIES
    CancelledStaysDown
    OrphanDriven

CHECK_DEADLOCK FALSE
