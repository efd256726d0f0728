CONSTANTS
    Names = {"a", "b"}
    Symbols = {"X"}
    Lists = {}
    MaxRows = 1
    MaxBound = 2
    MaxMembers = 1
SPECIFICATION Spec
PROPERTY
    FallbackIsStored
CHECK_DEADLOCK FALSE
