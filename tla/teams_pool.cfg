\* Two board runs and one slot; no request fits the budget, no save fails.
CONSTANTS
    t1 = t1
    t2 = t2
    n1 = n1
    n2 = n2
    n3 = n3
    Teams = {t1, t2}
    Nodes = {n1, n2}
    TeamOf <- PairTeam
    DependsOn <- PairDeps
    RoleOf <- PairRole
    MaxRuns = 1
    Sizes = {2}
    TokenLimit = 1
    Concurrency = 1
    SlotLimit = 1
    Refusals = {"error"}
    MaxFaults = 0
SPECIFICATION FairSpec
PROPERTIES
    QueuedIsServed
CHECK_DEADLOCK FALSE
