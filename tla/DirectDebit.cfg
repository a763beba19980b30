SPECIFICATION FairSpec
CONSTANTS
    Run = Run
    Callbacks = {c1}
    PaymentMethod = "DIRECT_DEBIT"
    RetryScheduleDays <- RetryDays
    MaxDebits = 3
    MaxMishaps = 1
    Days = {TRUE}
CHECK_DEADLOCK FALSE
INVARIANTS
    OneUnanswered
    RetriedOnce
PROPERTIES
    KeepsAsking
