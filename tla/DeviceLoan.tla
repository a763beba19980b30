----------------------------- MODULE DeviceLoan -----------------------------
(***************************************************************************)
(* One device loan: interest charged by the morning run, a row a day, with *)
(* the days the server was down made up for; principal paid whole, and     *)
(* interest by the oldest days; reversals; default, cure and completion.   *)
(* The run reads the rows, then the loan's state, then writes; a payment   *)
(* is one transaction.  (Two payments at once are LedgerConcurrency's.)    *)
(* The loan starts on day 1, and times within a day are not told apart.    *)
(***************************************************************************)
EXTENDS Integers, FiniteSets, FiniteSetsExt

CONSTANTS
    Days,          \* bound: days modelled
    Grace,         \* gracePeriodDays
    ClosedDays,    \* days that are not working days
    Threshold,     \* days of unpaid interest that make a default
    Payments       \* bound: payments that may be posted

VARIABLES
    today,
    status,        \* Contract.status
    charged,       \* DAILY_LOAN_INTEREST rows for each day
    settled,       \* days whose row reads isPaid
    paid,          \* each payment: none, of the principal, of interest days, or reversed
    run            \* the morning run: due, or how far it is and the days it would charge

vars == <<today, status, charged, settled, paid, run>>

NoPayment == [kind |-> "none", days |-> {}]

Init ==
    /\ today = 1
    /\ status = "ACTIVE"
    /\ charged = [d \in 1..Days |-> 0]
    /\ settled = {}
    /\ paid = [p \in Payments |-> NoPayment]
    /\ run = [at |-> "due", days |-> {}]

Charged == {d \in 1..Days : charged[d] > 0}
Unpaid == Charged \ settled

\* getDeviceLoanState
PrincipalOutstanding == \A p \in Payments : paid[p].kind # "PRINCIPAL"

Running == {"ACTIVE", "DEFAULTED"}

-----------------------------------------------------------------------------
(* The morning: a run that has not come by the next day was missed. *)

NextDay ==
    /\ today < Days
    /\ run.at \in {"due", "over"}
    /\ today' = today + 1
    /\ run' = [at |-> "due", days |-> {}]
    /\ UNCHANGED <<status, charged, settled, paid>>

Stale == {d \in Unpaid : today - d > Threshold}

MarkDefaulted ==
    /\ run.at = "due"
    /\ status = "ACTIVE" /\ Stale # {}
    /\ status' = "DEFAULTED"
    /\ UNCHANGED <<today, charged, settled, paid, run>>

\* Slip: only today is charged, whatever was missed.
MutDaysToCharge == {today}

\* Slip: a day too many.
MutDaysAhead == IF Charged = {} THEN {today} ELSE (Max(Charged) + 1)..(today + 1)

\* Today, for a loan with no row yet; else every day since the latest.
DaysToCharge == IF Charged = {} THEN {today} ELSE (Max(Charged) + 1)..today

Goes(at, days) == run' = [at |-> at, days |-> days]

ListDays ==
    /\ run.at = "due"
    /\ LET days == {d \in DaysToCharge : d > Grace /\ d \notin ClosedDays} IN
       IF status \in Running /\ days # {} THEN Goes("look", days) ELSE Goes("over", {})
    /\ UNCHANGED <<today, status, charged, settled, paid>>

LookAtPrincipal ==
    /\ run.at = "look"
    /\ IF PrincipalOutstanding THEN Goes("charge", run.days) ELSE Goes("over", {})
    /\ UNCHANGED <<today, status, charged, settled, paid>>

ChargeInterest ==
    /\ run.at = "charge"
    /\ charged' = [d \in 1..Days |-> charged[d] + (IF d \in run.days THEN 1 ELSE 0)]
    /\ Goes("over", {})
    /\ UNCHANGED <<today, status, settled, paid>>

-----------------------------------------------------------------------------
(* postDeviceLoanPayment and reversePayment *)

\* advanceContractStatus: cured when no interest is stale, completed when nothing is owed.
AdvanceContractStatus ==
    LET cured == status = "DEFAULTED" => {d \in Charged \ settled' : today - d > Threshold} = {}
        clear == (\E p \in Payments : paid'[p].kind = "PRINCIPAL") /\ Charged \subseteq settled'
    IN  status' = CASE cured /\ clear -> "COMPLETED" [] cured -> "ACTIVE" [] OTHER -> status

PayPrincipal(p) ==
    /\ status \in Running /\ paid[p].kind = "none"
    /\ PrincipalOutstanding
    /\ paid' = [paid EXCEPT ![p] = [kind |-> "PRINCIPAL", days |-> {}]]
    /\ UNCHANGED settled
    /\ AdvanceContractStatus
    /\ UNCHANGED <<today, charged, run>>

\* All that is owed, or the oldest days of it: those a customer confirmed by phone before
\* more were charged.  The rows an earlier payment paid stay paid.
PayInterest(p) ==
    /\ status \in Running /\ paid[p].kind = "none"
    /\ \E last \in Unpaid :
          LET days == {d \in Unpaid : d <= last} IN
          /\ paid' = [paid EXCEPT ![p] = [kind |-> "INTEREST", days |-> days]]
          /\ settled' = settled \cup days
    /\ AdvanceContractStatus
    /\ UNCHANGED <<today, charged, run>>

\* The payment counts no more; the days it paid still read as paid, and the status stays.
ReversePayment(p) ==
    /\ paid[p].kind \in {"PRINCIPAL", "INTEREST"}
    /\ paid' = [paid EXCEPT ![p].kind = "REVERSED"]
    /\ UNCHANGED <<today, status, charged, settled, run>>

WriteOffContract ==
    /\ status \in Running
    /\ status' = "WRITTEN_OFF"
    /\ UNCHANGED <<today, charged, settled, paid, run>>

-----------------------------------------------------------------------------
Next ==
    \/ NextDay \/ MarkDefaulted
    \/ ListDays \/ LookAtPrincipal \/ ChargeInterest
    \/ \E p \in Payments : PayPrincipal(p) \/ PayInterest(p) \/ ReversePayment(p)
    \/ WriteOffContract

Spec == Init /\ [][Next]_vars

-----------------------------------------------------------------------------
(* Properties. *)

TypeOK ==
    /\ today \in 1..Days
    /\ status \in {"ACTIVE", "DEFAULTED", "COMPLETED", "WRITTEN_OFF"}
    /\ charged \in [1..Days -> Nat]
    /\ settled \subseteq Charged
    /\ \A p \in Payments : paid[p].kind \in {"none", "PRINCIPAL", "INTEREST", "REVERSED"}
    /\ run.at \in {"due", "look", "charge", "over"} /\ run.days \subseteq 1..today

\* Whenever interest is charged, every open day from the first one charged to today then has
\* one row, neither none nor two: however many mornings the server was down, and whatever was
\* paid, reversed and reversed back in between.
EveryDayChargedOnce ==
    [][charged' # charged =>
          LET days == {d \in 1..Days : charged'[d] > 0} IN
          \A d \in Min(days)..today : charged'[d] = IF d \in ClosedDays THEN 0 ELSE 1]_vars
=============================================================================
