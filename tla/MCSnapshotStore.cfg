CONSTANTS
    v1 = v1
    s1 = s1
    s2 = s2
    r1 = r1
    r2 = r2
    None = None
    Vaults <- MCVaults
    Snapshots <- TwoSnapshots
    VaultOf <- MCVaultOf
    Requests <- TwoRequests
    MaxObjects = 2
    MaxVaultObjects = 2
    MaxEpoch = 2
    Phases = {}
SPECIFICATION Spec
SYMMETRY Interchangeable
INVARIANTS
    TotalIsExact
    CommittedIsCurrent

    
    
CHECK_DEADLOCK FALSE
