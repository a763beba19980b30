--------------------------- MODULE ContractLedger ---------------------------
(***************************************************************************)
(* The life of one instalment sale (Deposit + Instalment, or Device        *)
(* Financing): the contract row, its instalments, its late charges, the    *)
(* ledger of payments everything else is derived from, and the reserved    *)
(* phone.  Handlers run one at a time here; LedgerConcurrency is about     *)
(* what happens when they overlap.                                         *)
(*                                                                         *)
(* A payment row is never deleted.  A reversal is a row of its own that    *)
(* points at the payment it takes back (reversesPaymentId); since at most  *)
(* one can, the pair is one record here, with the flag "reversed".  An     *)
(* allocation row belongs to its payment, so a payment carries its own     *)
(* allocations: what it put on each instalment and on each charge.         *)
(***************************************************************************)
EXTENDS Integers, Sequences, FiniteSets, FiniteSetsExt, SequencesExt

CONSTANTS
    Deals,                 \* terms an agent or a cashier can agree: [price, deposit, count]
    Amounts,               \* amounts a payment or a refund can be for
    TermCounts,            \* numbers of instalments a reschedule can ask for
    StartOffsets,          \* start dates a new schedule can have, relative to today
    PeriodDays,            \* days between two instalments
    PenaltyRateBps,        \* contract.penaltyRateBps
    GracePeriodDays,       \* contract.gracePeriodDays
    DefaultThresholdDays,  \* DEFAULT_THRESHOLD_DAYS
    Horizon,               \* bound: the last day
    MaxPayments,           \* bound: ledger rows that are not reversals
    MaxInstalmentNo        \* bound: the highest instalment number

ASSUME DealsAssumption ==
    Deals \subseteq {d \in [price : Nat, deposit : Nat, count : Nat] :
                        d.deposit < d.price /\ d.count > 0}
ASSUME AmountsAssumption == Amounts \subseteq Nat \ {0}
ASSUME ScheduleAssumption ==
    /\ TermCounts \subseteq Nat \ {0}
    /\ StartOffsets \subseteq Int
    /\ PeriodDays \in Nat \ {0}
ASSUME PolicyAssumption ==
    /\ PenaltyRateBps \in Nat
    /\ GracePeriodDays \in Nat
    /\ DefaultThresholdDays \in Nat
ASSUME BoundsAssumption ==
    /\ Horizon \in Nat
    /\ MaxPayments \in Nat
    /\ MaxInstalmentNo \in Nat
    /\ \A d \in Deals : d.count <= MaxInstalmentNo

VARIABLES
    now,        \* today, in days since the sale was entered
    status,     \* contract.status
    deal,       \* contract.totalPayableMinor, depositAmountMinor and the number of instalments
    totalPaid,  \* contract.totalPaidMinor
    balance,    \* contract.balanceMinor
    refundDue,  \* contract.refundDueMinor, 0 for null
    refunded,   \* contract.refundedAt is set
    item,       \* the inventory item's status
    schedule,   \* instalmentNo -> instalment
    penalties,  \* late charges, oldest first
    payments    \* the ledger, oldest first

vars == <<now, status, deal, totalPaid, balance, refundDue, refunded, item,
          schedule, penalties, payments>>

contractVars == <<status, deal, totalPaid, balance, refundDue, refunded>>

PreApproval == {"PENDING_APPROVAL", "REVISION_REQUESTED"}
Terminal == {"COMPLETED", "CANCELLED"}
Statuses == PreApproval \cup {"PENDING_DEPOSIT", "ACTIVE", "DEFAULTED"} \cup Terminal
InstalmentStatuses == {"PENDING", "PARTIAL", "PAID", "OVERDUE"}
NoInstalment == 0   \* penalty.instalmentId is null

Least(a, b) == IF a <= b THEN a ELSE b
\* Slip: the balance is not clamped at zero.
MutUnclamped(a) == a
AtLeastZero(a) == IF a > 0 THEN a ELSE 0

-----------------------------------------------------------------------------
(* Schedules. *)

\* Each instalment rounds up to the minor unit; the last one takes what is left,
\* which is less than nothing when rounding up has already passed the total.
StraightLine(amount, count, first, start) ==
    LET per  == (amount + count - 1) \div count
        last == first + count - 1
    IN  [n \in first..last |->
            [dueDate    |-> start + (n - first + 1) * PeriodDays,
             amountDue  |-> IF n = last THEN amount - per * (count - 1) ELSE per,
             amountPaid |-> 0,
             status     |-> "PENDING"]]

ScheduleOf(d, start) == StraightLine(d.price - d.deposit, d.count, 1, start)

\* Slip: allocates against the full amount instead of what is left of it.
MutFullAmount(instalment) == AtLeastZero(instalment.amountDue)
Outstanding(instalment) == AtLeastZero(instalment.amountDue - instalment.amountPaid)

\* What is left to pay on the instalments numbered in S.
OutstandingOn(S) == SumFunction([n \in S |-> Outstanding(schedule[n])])

-----------------------------------------------------------------------------
(* recomputeContract: everything from the ledger. *)

EffectivePayments(pays) == {i \in DOMAIN pays : ~pays[i].reversed}

SignedAmount(p) == IF p.entryType = "CREDIT_REFUND" THEN -p.amount ELSE p.amount

PaidToCharges(p) == SumFunction(p.toPenalties)

\* What has been paid towards the price: money that went to charges paid the charges.
LedgerTotal(pays) ==
    SumFunction([i \in EffectivePayments(pays) |->
                    SignedAmount(pays[i]) - PaidToCharges(pays[i])])

PaysInstalment(pays, n) == {i \in EffectivePayments(pays) : n \in DOMAIN pays[i].toInstalments}

PaidOnInstalment(pays, n) ==
    SumFunction([i \in PaysInstalment(pays, n) |-> pays[i].toInstalments[n]])

PaysCharge(pays, k) == {i \in EffectivePayments(pays) : k \in DOMAIN pays[i].toPenalties}

InstalmentStatus(instalment, paid) ==
    CASE paid >= instalment.amountDue -> "PAID"
      [] paid < instalment.amountDue /\ instalment.dueDate < now -> "OVERDUE"
      [] paid < instalment.amountDue /\ instalment.dueDate >= now /\ paid > 0 -> "PARTIAL"
      [] OTHER -> "PENDING"

RecomputedSchedule(pays, sched) ==
    [n \in DOMAIN sched |->
        [sched[n] EXCEPT !.amountPaid = PaidOnInstalment(pays, n),
                         !.status = InstalmentStatus(sched[n], PaidOnInstalment(pays, n))]]

\* Slip: charges are left as they are stored.
MutChargesUntouched(pays, pens) == pens

\* A charge is only ever turned from unpaid to paid.
RecomputedPenalties(pays, pens) ==
    [k \in DOMAIN pens |-> [pens[k] EXCEPT !.isPaid = @ \/ PaysCharge(pays, k) # {}]]

\* Slip: the totals are read before the row is written.
MutStaleTotals(pays, sched, pens) ==
    /\ payments'  = pays
    /\ schedule'  = RecomputedSchedule(pays, sched)
    /\ penalties' = RecomputedPenalties(pays, pens)
    /\ totalPaid' = LedgerTotal(payments)
    /\ balance'   = AtLeastZero(deal.price - totalPaid')

RecomputeContract(pays, sched, pens) ==
    /\ payments'  = pays
    /\ schedule'  = RecomputedSchedule(pays, sched)
    /\ penalties' = RecomputedPenalties(pays, pens)
    /\ totalPaid' = LedgerTotal(pays)
    /\ balance'   = AtLeastZero(deal.price - totalPaid')

-----------------------------------------------------------------------------
(* advanceContractStatus: the state machine's moves after a recompute. *)

HasOverdue(sched) == \E n \in DOMAIN sched : sched[n].status = "OVERDUE"
HasUnpaidCharge(pens) == \E k \in DOMAIN pens : ~pens[k].isPaid

\* The status a contract moves to, given what the recompute derived.
AdvancedStatus(paid, owed, sched, pens) ==
    LET cured == IF status = "DEFAULTED" /\ ~HasOverdue(sched) THEN "ACTIVE" ELSE status
    IN  CASE status = "PENDING_DEPOSIT" /\ paid < deal.deposit -> status
          [] status = "PENDING_DEPOSIT" /\ paid >= deal.deposit ->
                IF owed = 0 THEN "COMPLETED" ELSE "ACTIVE"
          [] OTHER ->
                IF cured = "ACTIVE" /\ owed = 0 /\ ~HasUnpaidCharge(pens)
                THEN "COMPLETED" ELSE cured

\* Slip: the phone is issued to a contract that becomes active, not to one paid in full.
MutIssuesToActive ==
    /\ status' = AdvancedStatus(totalPaid', balance', schedule', penalties')
    /\ IF status = "PENDING_DEPOSIT" /\ status' = "ACTIVE"
       THEN item \in {"AVAILABLE", "RESERVED"} /\ item' = "ISSUED"
       ELSE UNCHANGED item

\* ISSUE moves an AVAILABLE or RESERVED item; the whole transaction fails on any other.
AdvanceContractStatus ==
    /\ status' = AdvancedStatus(totalPaid', balance', schedule', penalties')
    /\ IF status = "PENDING_DEPOSIT" /\ status' # status
       THEN item \in {"AVAILABLE", "RESERVED"} /\ item' = "ISSUED"
       ELSE UNCHANGED item

-----------------------------------------------------------------------------
(* allocatePayment: arrears, then whole charges, then instalments not yet due. *)

\* What "money" puts on the instalments numbered in S, in number order.
Filled(S, money) ==
    LET share(n) == Least(Outstanding(schedule[n]),
                          AtLeastZero(money - OutstandingOn({m \in S : m < n})))
    IN  [n \in {n \in S : share(n) > 0} |-> share(n)]

\* What "money" pays of the unpaid charges: each whole, or skipped.
ChargesCovered(money) ==
    FoldLeftDomain(LAMBDA acc, k :
                       IF ~penalties[k].isPaid /\ acc.left >= penalties[k].amount
                       THEN [left |-> acc.left - penalties[k].amount, paid |-> acc.paid \cup {k}]
                       ELSE acc,
                   [left |-> money, paid |-> {}],
                   penalties)

\* Slip: charges before arrears.
MutChargesFirst(money) ==
    LET charges == ChargesCovered(money)
    IN  [toInstalments |-> Filled(DOMAIN schedule, charges.left),
         toPenalties   |-> [k \in charges.paid |-> penalties[k].amount]]

AllocatePayment(money) ==
    LET late    == {n \in DOMAIN schedule : schedule[n].dueDate < now}
        arrears == Filled(late, money)
        charges == ChargesCovered(money - SumFunction(arrears))
        ahead   == Filled(DOMAIN schedule \ late, charges.left)
    IN  [toInstalments |-> [n \in DOMAIN arrears \cup DOMAIN ahead |->
                                IF n \in DOMAIN arrears THEN arrears[n] ELSE ahead[n]],
         toPenalties   |-> [k \in charges.paid |-> penalties[k].amount]]

-----------------------------------------------------------------------------
(* Approval of an agent's submission. *)

Init ==
    /\ now = 0
    /\ status \in {"PENDING_APPROVAL", "PENDING_DEPOSIT"}
    /\ deal \in Deals
    /\ totalPaid = 0
    /\ balance = deal.price
    /\ refundDue = 0
    /\ refunded = FALSE
    /\ item = "RESERVED"
    /\ schedule = ScheduleOf(deal, 0)
    /\ penalties = <<>>
    /\ payments = <<>>

ApproveContract ==
    /\ status = "PENDING_APPROVAL"
    /\ status' = "PENDING_DEPOSIT"
    /\ UNCHANGED <<now, deal, totalPaid, balance, refundDue, refunded, item,
                   schedule, penalties, payments>>

RequestContractRevision ==
    /\ status = "PENDING_APPROVAL"
    /\ status' = "REVISION_REQUESTED"
    /\ UNCHANGED <<now, deal, totalPaid, balance, refundDue, refunded, item,
                   schedule, penalties, payments>>

\* New terms and a schedule built from scratch; a charge whose instalment is deleted
\* stays, without it.
ResubmitContract(d, start) ==
    /\ status = "REVISION_REQUESTED"
    /\ status' = "PENDING_APPROVAL"
    /\ deal' = d
    /\ balance' = d.price
    /\ schedule' = ScheduleOf(d, start)
    /\ penalties' = [k \in DOMAIN penalties |-> [penalties[k] EXCEPT !.instalment = NoInstalment]]
    /\ UNCHANGED <<now, totalPaid, refundDue, refunded, item, payments>>

-----------------------------------------------------------------------------
(* Money. *)

\* While the deposit is owed, money goes to it first and the rest to the schedule.
ScheduleShare(amount) ==
    IF status = "PENDING_DEPOSIT"
    THEN AtLeastZero(amount - AtLeastZero(deal.deposit - totalPaid))
    ELSE amount

NewPayment(amount) ==
    LET allocated == AllocatePayment(ScheduleShare(amount))
    IN  [entryType     |-> IF status = "PENDING_DEPOSIT" THEN "DEPOSIT" ELSE "INSTALMENT_PAYMENT",
         amount        |-> amount,
         reversed      |-> FALSE,
         toInstalments |-> allocated.toInstalments,
         toPenalties   |-> allocated.toPenalties]

PostPayment(amount) ==
    /\ Len(payments) < MaxPayments
    /\ status \notin Terminal \cup PreApproval
    /\ RecomputeContract(Append(payments, NewPayment(amount)), schedule, penalties)
    /\ AdvanceContractStatus
    /\ UNCHANGED <<now, deal, refundDue, refunded>>

Credit == AtLeastZero(totalPaid - deal.price)

\* No guard on the contract's status.
PostCreditRefund(amount) ==
    /\ Len(payments) < MaxPayments
    /\ amount <= Credit
    /\ RecomputeContract(Append(payments, [entryType |-> "CREDIT_REFUND",
                                           amount |-> amount,
                                           reversed |-> FALSE,
                                           toInstalments |-> <<>>,
                                           toPenalties |-> <<>>]),
                         schedule, penalties)
    /\ UNCHANGED <<now, status, deal, refundDue, refunded, item>>

Reversed(pays, S) == [i \in DOMAIN pays |-> [pays[i] EXCEPT !.reversed = @ \/ i \in S]]

\* No guard on the contract's status, and the status does not follow the recompute.
ReversePayment(i) ==
    /\ ~payments[i].reversed
    /\ RecomputeContract(Reversed(payments, {i}), schedule, penalties)
    /\ UNCHANGED <<now, status, deal, refundDue, refunded, item>>

\* Cancelling before the phone is handed over returns it to stock and, if money was paid
\* in, takes every payment back; afterwards the ledger stays as it is.  Also an approver's
\* rejection and the daily expiry of stale submissions.
CancelContract ==
    /\ status \notin Terminal
    /\ status' = "CANCELLED"
    /\ refundDue' = AtLeastZero(totalPaid)
    /\ item' = IF item = "RESERVED" THEN "AVAILABLE" ELSE item
    /\ IF item = "RESERVED" /\ totalPaid > 0
       THEN RecomputeContract(Reversed(payments, DOMAIN payments), schedule, penalties)
       ELSE UNCHANGED <<payments, schedule, penalties, totalPaid, balance>>
    /\ UNCHANGED <<now, deal, refunded>>

RecordRefund ==
    /\ status = "CANCELLED"
    /\ refundDue > 0
    /\ ~refunded
    /\ refunded' = TRUE
    /\ UNCHANGED <<now, status, deal, totalPaid, balance, refundDue, item,
                   schedule, penalties, payments>>

-----------------------------------------------------------------------------
(* rescheduleContract: a new plan for what is still owed. *)

Unpaid == {n \in DOMAIN schedule : schedule[n].amountPaid < schedule[n].amountDue}
Untouched == {n \in Unpaid : schedule[n].amountPaid = 0}
OutstandingOnSchedule == OutstandingOn(Unpaid)

\* Slip: part-paid instalments stay as large as they were.
MutKeepsPartPaid == [n \in DOMAIN schedule \ Untouched |-> schedule[n]]

\* Paid instalments stay, part-paid ones are closed at what was paid on them.
KeptInstalments ==
    [n \in DOMAIN schedule \ Untouched |->
        IF n \in Unpaid
        THEN [schedule[n] EXCEPT !.amountDue = schedule[n].amountPaid, !.status = "PAID"]
        ELSE schedule[n]]

RescheduleContract(count, start) ==
    LET kept   == KeptInstalments
        lastNo == Max(DOMAIN kept \cup {0})
        added  == StraightLine(OutstandingOnSchedule, count, lastNo + 1, start)
        plan   == [n \in DOMAIN kept \cup DOMAIN added |->
                      IF n \in DOMAIN kept THEN kept[n] ELSE added[n]]
    IN  /\ status \in {"ACTIVE", "DEFAULTED"}
        /\ OutstandingOnSchedule > 0
        /\ lastNo + count <= MaxInstalmentNo
        /\ RecomputeContract(
              \* allocations of reversed payments to a deleted instalment lose it
              [i \in DOMAIN payments |->
                  [payments[i] EXCEPT !.toInstalments = Restrict(@, DOMAIN @ \ Untouched)]],
              plan,
              [k \in DOMAIN penalties |->
                  [penalties[k] EXCEPT !.instalment = IF @ \in Untouched THEN NoInstalment ELSE @]])
        /\ AdvanceContractStatus
        /\ UNCHANGED <<now, deal, refundDue, refunded>>

-----------------------------------------------------------------------------
(* The daily sweep.  Each job is a step of its own: one that fails is skipped that day. *)

Tick ==
    /\ now < Horizon
    /\ now' = now + 1
    /\ UNCHANGED <<contractVars, item, schedule, penalties, payments>>

\* Instalments of every contract, whatever its status.
LateInstalments ==
    {n \in DOMAIN schedule : schedule[n].status \in {"PENDING", "PARTIAL"} /\ schedule[n].dueDate < now}

MarkOverdueInstalments ==
    /\ LateInstalments # {}
    /\ schedule' = [n \in DOMAIN schedule |->
                        IF n \in LateInstalments THEN [schedule[n] EXCEPT !.status = "OVERDUE"]
                        ELSE schedule[n]]
    /\ UNCHANGED <<now, contractVars, item, penalties, payments>>

MarkDefaultedContracts ==
    /\ status = "ACTIVE"
    /\ \E n \in DOMAIN schedule :
          schedule[n].status = "OVERDUE" /\ schedule[n].dueDate < now - DefaultThresholdDays
    /\ status' = "DEFAULTED"
    /\ UNCHANGED <<now, deal, totalPaid, balance, refundDue, refunded, item,
                   schedule, penalties, payments>>

\* Math.round of penaltyRateBps of the instalment.
LateCharge(n) == (2 * schedule[n].amountDue * PenaltyRateBps + 10000) \div 20000

Chargeable ==
    {n \in DOMAIN schedule :
        /\ schedule[n].status = "OVERDUE"
        /\ now - schedule[n].dueDate > GracePeriodDays
        /\ \A k \in DOMAIN penalties : penalties[k].instalment # n
        /\ LateCharge(n) > 0}

\* In the order the query returns the instalments, which is the database's.
ApplyLatePenalties(order) ==
    /\ Chargeable # {}
    /\ penalties' = penalties \o
          [k \in DOMAIN order |->
              [instalment |-> order[k], amount |-> LateCharge(order[k]), isPaid |-> FALSE]]
    /\ UNCHANGED <<now, contractVars, item, schedule, payments>>

-----------------------------------------------------------------------------
Next ==
    \/ ApproveContract
    \/ RequestContractRevision
    \/ \E d \in Deals, o \in StartOffsets : ResubmitContract(d, now + o)
    \/ \E a \in Amounts : PostPayment(a)
    \/ \E a \in Amounts : PostCreditRefund(a)
    \/ \E i \in DOMAIN payments : ReversePayment(i)
    \/ CancelContract
    \/ RecordRefund
    \/ \E c \in TermCounts, o \in StartOffsets : RescheduleContract(c, now + o)
    \/ Tick
    \/ MarkOverdueInstalments
    \/ MarkDefaultedContracts
    \/ \E order \in SetToSeqs(Chargeable) : ApplyLatePenalties(order)

Spec == Init /\ [][Next]_vars

-----------------------------------------------------------------------------
(* Properties. *)

Instalments == [dueDate : Int, amountDue : Int, amountPaid : Int, status : InstalmentStatuses]

TypeOK ==
    /\ now \in 0..Horizon
    /\ status \in Statuses
    /\ deal \in Deals
    /\ totalPaid \in Int /\ balance \in Nat
    /\ refundDue \in Nat /\ refunded \in BOOLEAN
    /\ item \in {"AVAILABLE", "RESERVED", "ISSUED"}
    /\ DOMAIN schedule \subseteq 1..MaxInstalmentNo
    /\ \A n \in DOMAIN schedule : schedule[n] \in Instalments
    /\ penalties \in Seq([instalment : 0..MaxInstalmentNo, amount : Nat \ {0}, isPaid : BOOLEAN])
    /\ Len(payments) <= MaxPayments

\* The stored totals are the ledger's, whatever was posted, refunded, reversed, cancelled
\* or rescheduled ("zero drift"), and so is what is stored on every instalment, which never
\* holds more than it is for.
TotalsMatchLedger ==
    /\ totalPaid = LedgerTotal(payments)
    /\ balance = AtLeastZero(deal.price - totalPaid)

InstalmentsMatchLedger ==
    \A n \in DOMAIN schedule :
        /\ schedule[n].amountPaid = PaidOnInstalment(payments, n)
        /\ schedule[n].amountPaid <= AtLeastZero(schedule[n].amountDue)

\* However often a contract is rescheduled, and wherever its payments and reversals fall
\* between, its instalments add up to what was financed: "the total the customer owes does
\* not change".
ScheduleSumsToFinance ==
    SumFunction([n \in DOMAIN schedule |-> schedule[n].amountDue]) = deal.price - deal.deposit

\* No late charge takes money from two payments, even after one that paid it was reversed,
\* and an instalment is charged once however often the sweep runs.
ChargedOnce ==
    /\ \A k \in DOMAIN penalties : \A i, j \in PaysCharge(payments, k) : i = j
    /\ \A k, l \in DOMAIN penalties :
          k # l /\ penalties[k].instalment # NoInstalment
             => penalties[k].instalment # penalties[l].instalment

\* The phone is held while the deposit is owed, out once it is paid, whichever payment
\* paid it and however much more, and back on the shelf only if the deal fell through.
PhoneFollowsStatus ==
    /\ item = "RESERVED" <=> status \in PreApproval \cup {"PENDING_DEPOSIT"}
    /\ item = "AVAILABLE" => status = "CANCELLED"
    /\ status \in {"ACTIVE", "DEFAULTED", "COMPLETED"} => item = "ISSUED"

\* Posting the payment last in the ledger, and what was late when it was posted.
PostsMoney == Len(payments') > Len(payments) /\ payments'[Len(payments')].entryType # "CREDIT_REFUND"
Arrears == {n \in DOMAIN schedule : schedule[n].dueDate < now}

\* A customer of a running contract who pays what is overdue is out of arrears and out of
\* default, whatever charges they also owe ("must be unlocked"); and whatever else clears the
\* arrears, a reschedule too, no contract stays in default without any.
PayingArrearsCures ==
    [][/\ status' = "DEFAULTED" => HasOverdue(schedule')
       /\ PostsMoney /\ status \in {"ACTIVE", "DEFAULTED"}
             /\ payments'[Len(payments')].amount >= OutstandingOn(Arrears)
             => status' \in {"ACTIVE", "COMPLETED"} /\ ~HasOverdue(schedule')]_vars

\* A completed or cancelled contract stays so and takes no more money from its customer.
TerminalIsFinal == [][(status \in Terminal) => status' = status /\ ~PostsMoney]_vars
=============================================================================
