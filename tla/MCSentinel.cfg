SPECIFICATION Spec
CONSTANTS
    c1 = c1
    f1 = f1
    f2 = f2
    f3 = f3
    Fires = {f1, f2, f3}
    Connectors <- MCConnectors
    System = "system"
    Names <- MCNames
    Tiers <- MCTiers
    Budget <- MCBudget
    Requests <- MCRequests
    Threshold = 2
    Cooldown = 1
    DeadManThreshold = 2
    Horizon = 3
SYMMETRY Symmetry
INVARIANTS
    TypeOK
    GoWasApproved
    DeadManBound
    OverThresholdIsOpening
    OpenedByFailures
    AdmittedWithinBudget
