\* Two views of the editor and one of another, two flushes at a time, a queue of two,
\* one death of the editor; no withdrawals; with fairness.
CONSTANTS
    Users = {u1}
    NoUser = NoUser
    Viewer = u1
    Wids = {}
    Receipts = {r1, r2, r3}
    AdjIds = {}
    Calls = {}
    Amounts <- MCAmounts
    Credits <- MCCredits
    Corrections <- MCCorrections
    MinWithdrawal = 1
    ReceiptIds = {r1, r2}
    Flushes = {f1, f2}
    Cap = 2
    MaxCrashes = 1
SPECIFICATION FairEarningsSpec
INVARIANT EarnedOncePerView
PROPERTY EveryReceiptReported
CHECK_DEADLOCK FALSE
