SPECIFICATION FairSpec
CONSTANTS
    Charges = {c1}
    Webhooks = {w1, w2}
    Sweeps = {s1}
    Staff = {a1}
    MaxCrashes = 2
    NoCharge = NoCharge
CHECK_DEADLOCK FALSE
PROPERTIES
    PaidInTimeIsAccountedFor
    LateSuccessLands
