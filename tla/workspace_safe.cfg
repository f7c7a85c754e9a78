SPECIFICATION Spec
CONSTANTS
    Files = {a, b}
    Base <- MCBase
    Proposed <- MCProposed
    Partial <- MCPartial
    Typed <- MCTyped
    MaxFaults = 1
    MaxCrashes = 1
SYMMETRY MCSymmetry
CHECK_DEADLOCK FALSE
INVARIANT TypeOK
INVARIANT AppliedHasUndo
PROPERTY HumanTextPreserved
PROPERTY TransactionsAreWhole
