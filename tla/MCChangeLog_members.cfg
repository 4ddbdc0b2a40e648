CONSTANTS
    phone = phone
    laptop = laptop
    tablet = tablet
    t1 = t1
    t2 = t2
    None = None
    Devices <- MCDevices
    Founders <- MCFounders
    Tabs <- OneTab
    Quota = 2
    MaxOps = 1
    MaxInFlight = 1
    MaxRevision = 3
    MaxChanges = 2
SPECIFICATION Spec
SYMMETRY Interchangeable
INVARIANTS
    DeletedWereRead
    
CHECK_DEADLOCK FALSE
