SPECIFICATION Spec
CONSTANTS
    Deals <- MCDeals
    Amounts = {1, 4}
    TermCounts = {1}
    StartOffsets <- MCStartOffsets
    PeriodDays = 1
    PenaltyRateBps = 10000
    GracePeriodDays = 1
    DefaultThresholdDays = 1
    Horizon = 3
    MaxPayments = 3
    MaxInstalmentNo = 3
CHECK_DEADLOCK FALSE
INVARIANTS
    TypeOK
    TotalsMatchLedger
    InstalmentsMatchLedger
    ScheduleSumsToFinance
    ChargedOnce
    PhoneFollowsStatus
PROPERTIES
    PayingArrearsCures
