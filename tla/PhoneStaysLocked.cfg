SPECIFICATION FinishSpec
CONSTANTS
    Hook = "hook"
    Direct = "direct"
    Horizon = 2
    MaxMishaps = 1
CHECK_DEADLOCK FALSE
INVARIANTS
    TypeOK
    OpenOnlyAsPaid
PROPERTIES
    UnpaidPhoneStaysLocked
