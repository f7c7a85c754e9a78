\* Two orders, a refund, a dispute, an administrator; no campaigns.
CONSTANTS
    Orders = {o1, o2}
    Refunds = {r1}
    Disputes = {d1}
    Campaigns = {}
    Calls = {c1}
    Admins = {a1}
    Prices = {1, 2}
    Budgets = {}
    Moves = {}
    MaxBudget = 0
    MaxSpent = 0
SPECIFICATION Spec
SYMMETRY Symmetry
INVARIANTS
    OrderNetBounded
    StatusAgreesWithNet
CHECK_DEADLOCK FALSE
