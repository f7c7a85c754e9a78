\* One paid order, three campaigns it can fund one at a time, one request at a time.
CONSTANTS
    Orders = {o1}
    Refunds = {}
    Disputes = {}
    Campaigns = {k1, k2, k3}
    Calls = {c1}
    Admins = {}
    Prices = {1}
    Budgets = {1}
    Moves = {}
    MaxBudget = 1
    MaxSpent = 0
SPECIFICATION Spec
SYMMETRY Symmetry
INVARIANT NoDollarPromisedTwice
CHECK_DEADLOCK FALSE
