SPECIFICATION Spec
CONSTANTS
    MaxInstances = 1
    MaxStarts = 2
    MaxFaults = 1
    MaxEvictions = 1
    MaxDeletes = 1
CHECK_DEADLOCK FALSE
INVARIANT TypeOK
INVARIANT RunsInSlot
INVARIANT Accounted
