SPECIFICATION FairSpec
CONSTANTS
    Charges = {c1}
    Webhooks = {w1}
    Sweeps = {s1}
    Staff = {a1}
    MaxCrashes = 0
    NoCharge = NoCharge
CHECK_DEADLOCK FALSE
PROPERTY
    PaidIsAccountedFor
