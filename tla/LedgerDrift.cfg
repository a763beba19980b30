SPECIFICATION Spec
CONSTANTS
    Txns = {t1, t2}
    FirstRow = FirstRow
    FirstAmount = 1
    TxnAmounts = {1, 3}
    Price = 3
    DepositPart = 2
    Principal = 2
    ContractTypes = {"DEPOSIT_INSTALMENT", "DEVICE_LOAN"}
    NoTxn = NoTxn
CHECK_DEADLOCK FALSE
INVARIANT
    NoDrift
