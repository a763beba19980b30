SPECIFICATION Spec
CONSTANTS
    Charges = {c1}
    Webhooks = {w1}
    Sweeps = {s1, s2}
    Staff = {a1, a2}
    MaxCrashes = 1
    NoCharge = NoCharge
SYMMETRY Interchangeable
CONSTRAINT WithinHalfAnHour
CHECK_DEADLOCK FALSE
INVARIANTS
    LedgerHoldsWhatWasPaid
    WorkedAloneIsSafe
PROPERTIES
    ImplementsCollection
