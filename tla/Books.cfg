SPECIFICATION BooksSpec
CONSTANTS
    Txns = {t1, t2, t3}
    FirstRow = FirstRow
    FirstAmount = 1
    TxnAmounts = {1, 3}
    Price = 3
    DepositPart = 2
    Principal = 2
    ContractTypes = {"DEPOSIT_INSTALMENT", "DEVICE_LOAN", "SAVE_TO_OWN"}
    NoTxn = NoTxn
    Handlers = {h1, h2}
    Opening = Opening
    OpeningAmounts = {1, 2}
    Amounts = {1, 2}
    Deposit = 2
    Rates = {1, 3}
    NoOne = NoOne
    NoRate = NoRate
CHECK_DEADLOCK FALSE
INVARIANTS
    TypeOK
    ContractTypeOK
    ReversedOnce
    CashMatchesPayments
    HeldSinceOldest
    OnlyDriftDeadlocks
PROPERTIES
    HandedOverStaysOut
    Heals
    RemittedByConfirming
    UndisturbedSyncIsRight
