SPECIFICATION Spec
CONSTANTS
    Handlers = {h1, h2}
    Opening = Opening
    OpeningAmounts = {1, 2}
    Amounts = {1, 2}
    Deposit = 2
    Rates = {1, 3}
    NoOne = NoOne
    NoRate = NoRate
CHECK_DEADLOCK FALSE
INVARIANT
    RejectedIsUntouched
