SPECIFICATION Spec
CONSTANTS
    KeepArchives = 2
    Snapshots = {s1, s2}
    MaxStarts = 2
    MaxEdits = 1
    MaxArchives = 3
    MaxStops = 1
    Troubles <- MCTroubles
SYMMETRY MCSymmetry
CHECK_DEADLOCK FALSE
INVARIANT TypeOK
INVARIANT RestoredHomeIsComplete
INVARIANT NewestIsThere
PROPERTY SavedHomeSurvives
