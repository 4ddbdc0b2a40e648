CONSTANTS
    phone = phone
    laptop = laptop
    Devices <- MCDevices
    Entities <- MCEntities
    Seeded <- MCSeeded
    Values = {v1, v2}
    SeedValue = v1
    Gone = Gone
    None = None
    PageSize = 1
    MaxGroups = 2
    MaxFailures = 1
    MaxClockSteps = 0
SPECIFICATION FairSpec

INVARIANTS
    TypeOK

    
    
