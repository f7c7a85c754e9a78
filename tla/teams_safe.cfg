\* One team of three tasks, two runs, one fault; two slots.
CONSTANTS
    t1 = t1
    t2 = t2
    n1 = n1
    n2 = n2
    n3 = n3
    Teams = {t1}
    Nodes = {n1, n2, n3}
    TeamOf <- ThreeTeam
    DependsOn <- ThreeDeps
    RoleOf <- ThreeRoles
    MaxRuns = 2
    Sizes = {2}
    TokenLimit = 3
    Concurrency = 2
    SlotLimit = 2
    Refusals = {"error", "refused"}
    MaxFaults = 1
SPECIFICATION Spec
INVARIANTS
    TypeOK
    SpendWithinLimit
    SlotsAccountedFor
    DependenciesRespected
PROPERTIES
    OnlyStaleSavesUndo
    NothingSentAfterCancel
CHECK_DEADLOCK FALSE
