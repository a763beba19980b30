----------------------- MODULE LedgerConcurrencyTerms -----------------------
(* What LedgerConcurrency is a model for, whatever these are. *)
EXTENDS Integers

CONSTANTS
    Txns,            \* transactions, each run once; it names the payment row it inserts
    FirstRow,        \* the payment row there is at the start
    FirstAmount,
    TxnAmounts,
    Price, DepositPart,  \* of an instalment sale
    Principal,       \* of a device loan
    ContractTypes,
    NoTxn

ASSUME RowsAssumption == FirstRow \notin Txns /\ NoTxn \notin Txns
ASSUME MoneyAssumption ==
    /\ TxnAmounts \subseteq Nat \ {0}
    /\ FirstAmount \in Nat \ {0}
    /\ Price \in Nat /\ DepositPart \in Nat /\ DepositPart < Price
    /\ Principal \in Nat \ {0}
ASSUME ContractTypesAssumption ==
    ContractTypes \subseteq {"DEPOSIT_INSTALMENT", "DEVICE_LOAN", "SAVE_TO_OWN"}
=============================================================================
