SPECIFICATION FairSpec
CONSTANTS
    Tasks = {t1, t2}
    None = None
    MaxStarts = 1
CHECK_DEADLOCK FALSE
INVARIANTS
    SpawnsSerial
    Accounted
PROPERTIES
    AcquireServed
    HungDropped
