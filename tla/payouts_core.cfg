\* Two users, two requests, two handlers at a time, a debiting correction.
CONSTANTS
    Users = {u1, u2}
    NoUser = NoUser
    Wids = {w1, w2}
    Receipts = {r1}
    AdjIds = {a1}
    Calls = {c1, c2}
    Amounts <- MCAmounts
    Credits <- MCCredits
    Corrections <- MCDebit
    MinWithdrawal = 1
SPECIFICATION Spec
SYMMETRY Symmetry
INVARIANTS
    TypeOK
    OneRequestInProgress
    HoldMatchesRequest
    LedgerTellsTheStory
    AuditedDecisionsHappened
    BalanceIsFold
PROPERTIES
    FollowsLifecycle
    OnlyCorrectionsOverdraw
    KeepsPromise
CHECK_DEADLOCK FALSE
