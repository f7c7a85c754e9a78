\* One order, a dispute, two campaigns, two portal requests at a time.
CONSTANTS
    Orders = {o1}
    Refunds = {}
    Disputes = {d1}
    Campaigns = {k1, k2}
    Calls = {c1, c2}
    Admins = {}
    Prices = {2}
    Budgets = {2}
    Moves = {1}
    MaxBudget = 3
    MaxSpent = 1
SPECIFICATION Spec
SYMMETRY Symmetry
INVARIANTS
    TypeOK
    Reconciles
    HeldIsActiveBudget
    UnderfundedIsStopped
CHECK_DEADLOCK FALSE
