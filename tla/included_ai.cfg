SPECIFICATION Spec
CONSTANTS
    Requests = {r1, r2}
    Hold = 2
    Usages = {1, 3}
    SessionMs = {1, 2}
    WeekMs = 3
    DayMs = 2
    MaxTime = 4
    MaxFaults = 2
SYMMETRY MCSymmetry
CHECK_DEADLOCK FALSE
INVARIANT TypeOK
INVARIANT BooksAddUp
INVARIANT NothingServedIsFree
