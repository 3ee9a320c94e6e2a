SPECIFICATION Spec
CONSTANTS
    Sources = {s1}
    MaxChildren = 1
    MaxExecs = 1
    MaxCrashes = 1
    MaxResumes = 0
INVARIANTS
    CompletedChildResolves
CHECK_DEADLOCK FALSE
