CONSTANTS
    a = a
    b = b
    old = old
    new = new
    None = None
    Devices <- TwoDevices
    Creator = a
    Entities <- TwoEntities
    Owner <- MCOwner
    Initially <- OldEntities
    MaxEdits = 2
    MaxSnapshots = 2
    MaxRotations = 1
SPECIFICATION Spec
INVARIANTS
    SnapshotsFollowLog
    TablesExplained
    PinnedIsHeld
    OutboxNeverStuck
CHECK_DEADLOCK FALSE
