CONSTANTS
    phone = phone
    laptop = laptop
    tablet = tablet
    t1 = t1
    t2 = t2
    None = None
    Devices <- MCFounders
    Founders <- MCFounders
    Tabs <- TwoTabs
    Quota = 2
    MaxOps = 2
    MaxInFlight = 2
    MaxRevision = 2
    MaxChanges = 0
SPECIFICATION Spec
SYMMETRY Interchangeable
INVARIANTS
    StoredOnceInOrder
CHECK_DEADLOCK FALSE
