CONSTANTS
    phone = phone
    laptop = laptop
    Devices <- MCDevices
    Entities <- MCEntities
    Seeded <- MCSeeded
    Values = {v1, v2}
    SeedValue = v1
    Gone = Gone
    None = None
    PageSize = 1
    MaxGroups = 3
    MaxFailures = 0
    MaxClockSteps = 0
SPECIFICATION Spec
SYMMETRY DeviceSymmetry
INVARIANTS
    Convergence
    StagingNeverRefuses
    FrontierMatchesInbox
    AckedProcessed
    PendingConflictsHoldAck
    ConcurrentEditsSurface
    LocalValueExplained

    
