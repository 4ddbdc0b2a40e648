CONSTANTS
    v1 = v1
    s1 = s1
    s2 = s2
    r1 = r1
    r2 = r2
    None = None
    Vaults <- MCVaults
    Snapshots <- TwoSnapshots
    VaultOf <- MCVaultOf
    Requests <- OneRequest
    MaxObjects = 2
    MaxVaultObjects = 2
    MaxEpoch = 1
    Phases = {"deletion", "reconciliation"}
SPECIFICATION FairSpec
PROPERTIES
    SlotsComeBack
CHECK_DEADLOCK FALSE
