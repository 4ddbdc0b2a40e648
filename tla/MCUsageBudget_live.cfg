CONSTANTS
    q1 = q1
    q2 = q2
    v1 = v1
    None = None
    Service = Service
    Requests = {q1}
    Vaults <- OneVault
    Kinds = {"read", "write", "new-vault", "pairing-retry", "cleanup"}
    Cost <- Costs
    Uses = {0, 3}
    RollingCeiling <- Ceilings
    DailyCeiling <- Ceilings
    Window = 2
    Retention = 1
    Overlaps = FALSE
    MaxDay = 2
SPECIFICATION FairSpec
PROPERTIES
    LeaksSurface
CHECK_DEADLOCK FALSE
