\* Debounce <= retries, offline check <= gap < resume < period <= budget pause.
CONSTANTS
    None = None
    Debounce = 1
    Gap = 2
    OfflineRecheck = 2
    Period = 4
    ResumeStale = 3
    SuccessStale = 4
    RetryBackoff <- Backoffs
    BudgetBackoff = 4
    Jitter = 1
SPECIFICATION FairSpec
INVARIANT TriggerHeld
 
PROPERTY EditsGoOut
