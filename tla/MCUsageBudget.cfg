CONSTANTS
    q1 = q1
    q2 = q2
    v1 = v1
    None = None
    Service = Service
    Requests <- TwoRequests
    Vaults <- OneVault
    Kinds = {"read", "new-vault", "cleanup"}
    Cost <- Costs
    Uses = {0, 3}
    RollingCeiling <- Ceilings
    DailyCeiling <- Ceilings
    Window = 2
    Retention = 1
    Overlaps = FALSE
    MaxDay = 2
SPECIFICATION Spec
SYMMETRY Interchangeable
INVARIANTS
    LedgerExact
    CeilingsHold
PROPERTIES
    FaultClearedClean
CHECK_DEADLOCK FALSE
