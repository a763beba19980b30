----------------------------- MODULE AgentLedger -----------------------------
(***************************************************************************)
(* What an agent and the office owe each other on one contract the agent   *)
(* brought in, under handlers that overlap.  The row is derived again from *)
(* payments, remittances and payouts whenever one of them changes.  As in  *)
(* LedgerConcurrency, a statement reads what is committed and what its own *)
(* transaction wrote, an updated row stays locked until commit, and each   *)
(* action is one statement and the code up to the next.  A payment that    *)
(* changes the contract's total updates the contract row before the        *)
(* agent's is derived; one that went wholly to late charges does not.      *)
(***************************************************************************)
EXTENDS Integers, FiniteSets, FiniteSetsExt, Functions, Folds

CONSTANTS
    Handlers,        \* each run once; it names the payment or remittance it creates
    Opening,         \* the payment the contract starts with, and perhaps a remittance
    OpeningAmounts,
    Amounts,
    Deposit,
    Rates,           \* commissions the settings can hold
    NoOne, NoRate

ASSUME HandlersAssumption == Opening \notin Handlers /\ NoOne \notin Handlers
ASSUME AmountsAssumption ==
    /\ Amounts \subseteq Nat \ {0}
    /\ OpeningAmounts \subseteq Nat \ {0}
    /\ Deposit \in Nat \ {0}
ASSUME RatesAssumption == Rates \subseteq Nat

VARIABLES
    activated,     \* contract.activatedAt is set
    totalPaid,     \* contract.totalPaidMinor
    payments,      \* committed payments that are not reversals
    reversed,      \* ids of those a committed reversal points at
    remittances,   \* agentRemittance rows by id
    ledger,        \* the committed agentDepositLedger row
    settings,      \* the commission that applies now
    contractLock, ledgerLock,
    tx             \* what each handler has read and written

vars == <<activated, totalPaid, payments, reversed, remittances, ledger, settings,
          contractLock, ledgerLock, tx>>
committed == <<activated, totalPaid, payments, reversed, remittances, ledger, settings>>
locks == <<contractLock, ledgerLock>>

Rows == Handlers \cup {Opening}
RemittanceStatuses == {"none", "PENDING", "CONFIRMED", "REJECTED"}

SumAmounts(S) == SumFunctionOnSet([p \in S |-> p.amount], S)
SumRemittances(status) ==
    SumFunctionOnSet([r \in Rows |-> remittances[r].amount],
                     {r \in Rows : remittances[r].status = status})

\* Effective payments pays: the cash the agent took, and what counts as deposit.
AgentCash(pays) == {p \in pays : p.byAgent}
Collected(pays) == SumAmounts(AgentCash(pays))
Earned(active, pays) ==
    active /\ SumAmounts({p \in pays : p.entryType = "DEPOSIT"}) >= Deposit
Effective(pays, revs) == {p \in pays : p.id \notin revs}
TowardsPrice(pays) == SumAmounts({p \in pays : ~p.toCharges})

Balance(l) == l.collected - l.commission - l.remitted + l.paidOut

StatusFor(balance) ==
    CASE balance > 0 -> "OWED"
      [] balance < 0 -> "DUE_TO_AGENT"
      [] balance = 0 -> "SETTLED"

NoLedger == [exists |-> FALSE, collected |-> 0, commission |-> 0, rate |-> NoRate,
             remitted |-> 0, paidOut |-> 0, status |-> "SETTLED"]

\* The rate is fixed the first time it is earned.
RateOf(existing, applicable) == IF existing.rate = NoRate THEN applicable ELSE existing.rate

\* syncAgentLedger sets these columns of row l from what it read before.
Derived(l, pays, active, existing, applicable) ==
    LET earned     == Earned(active, pays)
        rate       == IF earned THEN RateOf(existing, applicable) ELSE existing.rate
        commission == IF earned THEN rate ELSE 0
        owed       == Collected(pays) - commission
    IN  [l EXCEPT !.exists = TRUE, !.collected = Collected(pays), !.commission = commission,
                  !.rate = rate, !.status = StatusFor(owed - existing.remitted + existing.paidOut)]

\* Nothing to settle yet: no row is written.
NothingToSettle(pays, active, existing) ==
    ~existing.exists /\ Collected(pays) = 0 /\ ~Earned(active, pays)

Idle == [pc |-> "idle", kind |-> "none", amount |-> 0, inserted |-> {}, target |-> {},
         remittance |-> NoOne, stored |-> 0, total |-> 0, wrote |-> FALSE,
         activates |-> FALSE, own |-> NoLedger, active |-> FALSE, seen |-> {},
         existing |-> NoLedger, applicable |-> 0, again |-> FALSE, alone |-> FALSE,
         skipped |-> FALSE]

\* A deposit, whole or in part, taken by the agent in cash or paid another way, and perhaps
\* a remittance of it that waits to be confirmed.
Init ==
    /\ settings \in Rates
    /\ \E a \in OpeningAmounts, cash \in BOOLEAN :
          payments = {[id |-> Opening, at |-> 0, amount |-> a, byAgent |-> cash,
                       entryType |-> "DEPOSIT", toCharges |-> FALSE]}
    /\ totalPaid = SumAmounts(payments)
    /\ activated = (totalPaid >= Deposit)
    /\ ledger = IF NothingToSettle(payments, activated, NoLedger) THEN NoLedger
                ELSE Derived(NoLedger, payments, activated, NoLedger, settings)
    /\ reversed = {}
    /\ \E a \in 0..Balance(ledger) \cup {0} :
          remittances = [r \in Rows |-> IF r = Opening /\ a > 0 THEN [amount |-> a, status |-> "PENDING"]
                                        ELSE [amount |-> 0, status |-> "none"]]
    /\ contractLock = NoOne
    /\ ledgerLock = NoOne
    /\ tx = [h \in Handlers |-> Idle]

-----------------------------------------------------------------------------
(* Beginning: what the handler asks for, checked against what it first reads. *)

Update(h, new) == tx' = [tx EXCEPT ![h] = new]

Begin(h, new) ==
    /\ tx[h].pc = "idle"
    /\ Update(h, new)
    /\ UNCHANGED <<committed, locks>>

Started == {h \in Handlers : tx[h].pc # "idle"}

\* postPayment writes its row.  Only a contract whose deposit is paid has its whole payment go
\* to charges.  Who took the cash: the agent who records it or hands it over, or the counter.
PostPayment(h, a, byAgent, toCharges) ==
    /\ toCharges => activated
    /\ Begin(h, [Idle EXCEPT
          !.kind = "POST",
          !.inserted = {[id |-> h, at |-> Cardinality(Started) + 1, amount |-> a, byAgent |-> byAgent,
                         entryType |-> IF activated THEN "INSTALMENT_PAYMENT" ELSE "DEPOSIT",
                         toCharges |-> toCharges]},
          !.pc = "derive"])

ReversePayment(h, p) ==
    /\ p.id \notin reversed
    /\ Begin(h, [Idle EXCEPT !.kind = "REVERSE", !.target = {p}, !.pc = "reverse"])

\* The agent says they have paid some of it in.
FileRemittance(h, a) ==
    /\ Balance(ledger) > 0
    /\ Begin(h, [Idle EXCEPT !.kind = "FILE", !.amount = a, !.existing = ledger, !.pc = "file"])

ConfirmRemittance(h, r) ==
    /\ remittances[r].status # "none"
    /\ Begin(h, [Idle EXCEPT !.kind = "CONFIRM", !.remittance = r, !.amount = remittances[r].amount,
                             !.pc = "claim"])

RejectRemittance(h, r) ==
    /\ remittances[r].status = "PENDING"
    /\ Begin(h, [Idle EXCEPT !.kind = "REJECT", !.remittance = r, !.pc = "reject"])

\* payCommission: no more than is owed to the agent.
PayCommission(h, a) ==
    /\ a <= -Balance(ledger)
    /\ Begin(h, [Idle EXCEPT !.kind = "PAYOUT", !.amount = a, !.pc = "increment"])

-----------------------------------------------------------------------------
(* Remittances. *)

Finish(h) == Update(h, [Idle EXCEPT !.kind = tx[h].kind, !.pc = "done"])

\* Claims still waiting count against what is owed.
CountPending(h) ==
    /\ tx[h].pc = "file"
    /\ IF tx[h].amount + SumRemittances("PENDING") <= Balance(tx[h].existing)
       THEN Update(h, [tx[h] EXCEPT !.existing = NoLedger, !.pc = "create"])
       ELSE Finish(h)
    /\ UNCHANGED <<committed, locks>>

CreateRemittance(h) ==
    /\ tx[h].pc = "create"
    /\ remittances' = [remittances EXCEPT ![h] = [amount |-> tx[h].amount, status |-> "PENDING"]]
    /\ Finish(h)
    /\ UNCHANGED <<activated, totalPaid, payments, reversed, ledger, settings, locks>>

\* Handlers that have claimed remittance r and not ended.
Claimants(r) == {h \in Handlers : tx[h].kind = "CONFIRM" /\ tx[h].remittance = r
                                     /\ tx[h].pc \notin {"claim", "done"}}

\* Slip: the claim does not look at the status.
MutClaimAny(h) ==
    /\ tx[h].pc = "claim"
    /\ Claimants(tx[h].remittance) = {}
    /\ Update(h, [tx[h] EXCEPT !.pc = "increment"])
    /\ UNCHANGED <<committed, locks>>

\* The updateMany waits for another claim of the row to end, then looks at its status.
Claim(h) ==
    /\ tx[h].pc = "claim"
    /\ Claimants(tx[h].remittance) = {}
    /\ IF remittances[tx[h].remittance].status = "PENDING"
       THEN Update(h, [tx[h] EXCEPT !.pc = "increment"])
       ELSE Finish(h)
    /\ UNCHANGED <<committed, locks>>

\* A rejection is written whatever the row has become since.
Reject(h) ==
    /\ tx[h].pc = "reject"
    /\ Claimants(tx[h].remittance) = {}
    /\ remittances' = [remittances EXCEPT ![tx[h].remittance].status = "REJECTED"]
    /\ Finish(h)
    /\ UNCHANGED <<activated, totalPaid, payments, reversed, ledger, settings, locks>>

\* A confirmation or a payout adds to the row as it stands once its lock is free.
Increment(h) ==
    /\ tx[h].pc = "increment"
    /\ ledgerLock = NoOne
    /\ ledgerLock' = h
    /\ Update(h, [tx[h] EXCEPT
          !.own = IF tx[h].kind = "CONFIRM" THEN [ledger EXCEPT !.remitted = @ + tx[h].amount]
                  ELSE [ledger EXCEPT !.paidOut = @ + tx[h].amount],
          !.pc = "contract"])
    /\ UNCHANGED <<committed, contractLock>>

-----------------------------------------------------------------------------
(* Money: recomputeContract's part in this, and advanceContractStatus's. *)

\* A reversal row is written once no other transaction is writing one for the payment; if
\* one was committed meanwhile the unique index refuses.
InsertReversal(h) ==
    /\ tx[h].pc = "reverse"
    /\ \A g \in Handlers \ {h} : tx[g].target = tx[h].target => tx[g].pc \in {"reverse", "done"}
    /\ IF \E p \in tx[h].target : p.id \in reversed
       THEN Finish(h)
       ELSE Update(h, [tx[h] EXCEPT !.pc = "derive"])
    /\ UNCHANGED <<committed, locks>>

SeenPayments(h) ==
    Effective(payments \cup tx[h].inserted, reversed \cup {p.id : p \in tx[h].target})
SeenLedger(h) == IF ledgerLock = h THEN tx[h].own ELSE ledger
SeenTotal(h) == IF tx[h].wrote THEN tx[h].total ELSE totalPaid

\* The contract and its payments are read before anything is locked.
RecomputeTotal(h) ==
    /\ tx[h].pc = "derive"
    /\ Update(h, [tx[h] EXCEPT !.stored = totalPaid, !.total = TowardsPrice(SeenPayments(h)),
                               !.pc = "lock"])
    /\ UNCHANGED <<committed, locks>>

\* Slip: the contract is updated after the agent's row is derived.
MutNoContractLock(h) ==
    /\ tx[h].pc = "lock"
    /\ Update(h, [tx[h] EXCEPT !.wrote = tx[h].total # tx[h].stored, !.stored = 0, !.pc = "contract"])
    /\ UNCHANGED <<committed, locks>>

\* Its total is written, if it differs from the one read.
UpdateContract(h) ==
    /\ tx[h].pc = "lock"
    /\ IF tx[h].total # tx[h].stored
       THEN contractLock = NoOne /\ contractLock' = h
       ELSE UNCHANGED contractLock
    /\ Update(h, [tx[h] EXCEPT !.wrote = tx[h].total # tx[h].stored, !.stored = 0, !.pc = "contract"])
    /\ UNCHANGED <<committed, ledgerLock>>

Activates(h) == ~activated /\ SeenTotal(h) >= Deposit

\* Slip: the agent's row is not derived again.
MutNoSecondSync(h) ==
    /\ tx[h].pc = "advance"
    /\ Update(h, [tx[h] EXCEPT !.activates = Activates(h), !.pc = "commit"])
    /\ UNCHANGED <<committed, locks>>

\* Once the deposit is paid the contract becomes active; either way the agent's row is
\* derived again.
AdvanceContractStatus(h) ==
    /\ tx[h].pc = "advance"
    /\ IF Activates(h)
       THEN contractLock \in {NoOne, h} /\ contractLock' = h
       ELSE UNCHANGED contractLock
    /\ Update(h, [tx[h] EXCEPT !.activates = Activates(h), !.again = TRUE, !.pc = "contract"])
    /\ UNCHANGED <<committed, ledgerLock>>

-----------------------------------------------------------------------------
(* syncAgentLedger: three reads, then the upsert. *)

SyncContract(h) ==
    /\ tx[h].pc = "contract"
    /\ Update(h, [tx[h] EXCEPT !.active = activated \/ tx[h].activates, !.alone = TRUE, !.pc = "payments"])
    /\ UNCHANGED <<committed, locks>>

SyncPayments(h) ==
    /\ tx[h].pc = "payments"
    /\ Update(h, [tx[h] EXCEPT !.seen = SeenPayments(h), !.pc = "existing"])
    /\ UNCHANGED <<committed, locks>>

\* The row, and the commission that applies should the row have none.
SyncExisting(h) ==
    /\ tx[h].pc = "existing"
    /\ Update(h, [tx[h] EXCEPT !.existing = SeenLedger(h), !.pc = "upsert",
                               !.applicable = IF SeenLedger(h).rate = NoRate THEN settings ELSE 0])
    /\ UNCHANGED <<committed, locks>>

AfterUpsert(h) == IF tx[h].kind = "POST" /\ ~tx[h].again THEN "advance" ELSE "commit"

\* Slip: the row is written without its lock.
MutUpsertUnlocked(h) ==
    /\ tx[h].pc = "upsert"
    /\ Update(h, [tx[h] EXCEPT !.own = Derived(SeenLedger(h), tx[h].seen, tx[h].active,
                                               tx[h].existing, tx[h].applicable),
                               !.pc = AfterUpsert(h)])
    /\ UNCHANGED <<committed, locks>>

\* Sets the derived columns of the row as it is once its lock is free; the first upsert of
\* two for a new row creates it, the second finds it there.
SyncUpsert(h) ==
    /\ tx[h].pc = "upsert"
    /\ IF NothingToSettle(tx[h].seen, tx[h].active, tx[h].existing)
       THEN Update(h, [tx[h] EXCEPT !.seen = {}, !.pc = AfterUpsert(h)]) /\ UNCHANGED ledgerLock
       ELSE /\ ledgerLock \in {NoOne, h}
            /\ ledgerLock' = h
            /\ Update(h, [tx[h] EXCEPT !.own = Derived(SeenLedger(h), tx[h].seen, tx[h].active,
                                                       tx[h].existing, tx[h].applicable),
                                       !.seen = {}, !.existing = NoLedger, !.active = FALSE, !.applicable = 0,
                                       !.pc = AfterUpsert(h)])
    /\ UNCHANGED <<committed, contractLock>>

\* Money that moved and left the contract's total as it was.
Skips(h) == tx[h].kind \in {"POST", "REVERSE"} /\ ~tx[h].wrote

Free(lock, h) == IF lock = h THEN NoOne ELSE lock

Commit(h) ==
    /\ tx[h].pc = "commit"
    /\ activated' = (activated \/ tx[h].activates)
    /\ totalPaid' = SeenTotal(h)
    /\ payments' = payments \cup tx[h].inserted
    /\ reversed' = reversed \cup {p.id : p \in tx[h].target}
    /\ remittances' = IF tx[h].kind = "CONFIRM"
                      THEN [remittances EXCEPT ![tx[h].remittance].status = "CONFIRMED"]
                      ELSE remittances
    /\ ledger' = SeenLedger(h)
    /\ contractLock' = Free(contractLock, h)
    /\ ledgerLock' = Free(ledgerLock, h)
    /\ tx' = [g \in Handlers |->
                 IF g = h THEN [Idle EXCEPT !.kind = tx[h].kind, !.pc = "done", !.skipped = Skips(h)]
                 ELSE [tx[g] EXCEPT !.alone = FALSE]]
    /\ UNCHANGED settings

ChangeSettings ==
    /\ settings' \in Rates \ {settings}
    /\ UNCHANGED <<activated, totalPaid, payments, reversed, remittances, ledger, locks, tx>>

-----------------------------------------------------------------------------
Step(h) ==
    \/ CountPending(h)
    \/ CreateRemittance(h)
    \/ Claim(h)
    \/ Reject(h)
    \/ Increment(h)
    \/ InsertReversal(h)
    \/ RecomputeTotal(h)
    \/ UpdateContract(h)
    \/ AdvanceContractStatus(h)
    \/ SyncContract(h)
    \/ SyncPayments(h)
    \/ SyncExisting(h)
    \/ SyncUpsert(h)
    \/ Commit(h)

Next ==
    \/ ChangeSettings
    \/ \E h \in Handlers :
          \/ \E a \in Amounts, byAgent, toCharges \in BOOLEAN : PostPayment(h, a, byAgent, toCharges)
          \/ \E p \in payments : ReversePayment(h, p)
          \/ \E a \in Amounts : FileRemittance(h, a) \/ PayCommission(h, a)
          \/ \E r \in Rows : ConfirmRemittance(h, r) \/ RejectRemittance(h, r)
          \/ Step(h)

Spec == Init /\ [][Next]_vars

-----------------------------------------------------------------------------
(* cashHeldSince: collections, oldest first, against what the agent no longer holds. *)

NotHolding == -1

\* Slip: commission already paid out still covers cash.
MutKeepsPayout(l, pays) == l.remitted + Collected(pays) - (l.collected - l.commission)
Covered(l, pays) == l.remitted + Collected(pays) - (l.collected - l.commission) - l.paidOut

Latest(pays) == CHOOSE p \in pays : \A q \in pays : q.at <= p.at

\* One turn of the loop: the first collection not covered gives the date.
Cover(c, acc) ==
    CASE acc.since = NotHolding /\ acc.covered >= c.amount -> [acc EXCEPT !.covered = @ - c.amount]
      [] acc.since = NotHolding /\ acc.covered < c.amount -> [acc EXCEPT !.since = c.at]
      [] acc.since # NotHolding -> acc

HeldSince(l, pays) ==
    IF Balance(l) <= 0 THEN NotHolding
    ELSE MapThenFoldSet(Cover, [covered |-> Covered(l, pays), since |-> NotHolding],
                        LAMBDA c : c, Latest, AgentCash(pays)).since

-----------------------------------------------------------------------------
(* Properties. *)

Ledgers == [exists : BOOLEAN, collected : Nat, commission : Nat, rate : Rates \cup {NoRate},
            remitted : Nat, paidOut : Nat, status : {"OWED", "DUE_TO_AGENT", "SETTLED"}]

TypeOK ==
    /\ activated \in BOOLEAN
    /\ totalPaid \in Nat
    \* what is written and not committed is written under the row's lock
    /\ \A h \in Handlers : tx[h].wrote \/ tx[h].activates => contractLock = h
    /\ payments \in SUBSET [id : Rows, at : Nat, amount : Nat, byAgent : BOOLEAN,
                            entryType : {"DEPOSIT", "INSTALMENT_PAYMENT"}, toCharges : BOOLEAN]
    /\ reversed \subseteq Rows
    /\ remittances \in [Rows -> [amount : Nat, status : RemittanceStatuses]]
    /\ ledger \in Ledgers
    /\ settings \in Rates
    /\ contractLock \in Handlers \cup {NoOne}
    /\ ledgerLock \in Handlers \cup {NoOne}
    /\ \A h \in Handlers : tx[h].pc = "commit" /\ tx[h].own # NoLedger => ledgerLock = h

Quiet == \A h \in Handlers : tx[h].pc \in {"idle", "done"}
Now == Effective(payments, reversed)

\* What syncAgentLedger would store were it run alone now.
RowIsRight ==
    /\ ledger.collected = Collected(Now)
    /\ ledger.commission = IF Earned(activated, Now) THEN ledger.rate ELSE 0
    /\ ledger.status = StatusFor(Balance(ledger))

\* What an agent has paid in rises only with a remittance that was waiting, by its amount and
\* once, however many approvers press at once.
RemittedByConfirming ==
    [][ledger'.remitted # ledger.remitted
          => \E r \in Rows : /\ remittances[r].status = "PENDING"
                             /\ remittances'[r].status = "CONFIRMED"
                             /\ ledger'.remitted = ledger.remitted + remittances[r].amount]_vars

\* Payments and reversals that move the contract's total take turns on its row before they
\* read what the agent took, so none misses another, whatever confirmations and payouts take no
\* turn there.  A payment that went wholly to late charges takes none, and neither does one
\* that brings a total that had drifted to what it read.
CashMatchesPayments == (\A h \in Handlers : ~tx[h].skipped) => ledger.collected = Collected(Now)

\* A derivation beside which nothing else committed leaves the whole row right.
UndisturbedSyncIsRight ==
    [][\A h \in Handlers : tx[h].pc = "commit" /\ tx'[h].pc = "done" /\ tx[h].alone => RowIsRight']_vars

\* The statement h is at has to wait for what g has written and not committed: a remittance,
\* a reversal row, the contract's row or the agent's.
WaitsFor(h, g) ==
    /\ g # h
    /\ \/ tx[h].pc \in {"claim", "reject"} /\ g \in Claimants(tx[h].remittance)
       \/ tx[h].pc = "reverse" /\ tx[g].target = tx[h].target /\ tx[g].pc \notin {"reverse", "done"}
       \/ tx[h].pc = "lock" /\ tx[h].total # tx[h].stored /\ contractLock = g
       \/ tx[h].pc = "advance" /\ Activates(h) /\ contractLock = g
       \/ tx[h].pc = "increment" /\ ledgerLock = g
       \/ /\ tx[h].pc = "upsert"
          /\ ~NothingToSettle(tx[h].seen, tx[h].active, tx[h].existing)
          /\ ledgerLock = g

\* Money updates the contract's row before the agent's, remittances and payouts the agent's
\* alone.  So handlers wait for one another in a circle only where the contract's total had
\* drifted: one of them found it as it would have made it, left the contract's row alone, and
\* wants it after the agent's, to activate the contract.
OnlyDriftDeadlocks ==
    \A S \in (SUBSET Handlers) \ {{}} :
        (\A h \in S : \E g \in S : WaitsFor(h, g)) => \E h \in S : Activates(h) /\ ~tx[h].wrote

\* Whenever the row says an agent who took cash owes some, the date the alert counts from is that of the
\* oldest cash which what they paid in and kept does not cover.
HeldSinceOldest ==
    Balance(ledger) > 0 /\ AgentCash(Now) # {} =>
        LET UpTo(p) == SumAmounts({q \in AgentCash(Now) : q.at <= p.at})
        IN  HeldSince(ledger, Now) = Min({p.at : p \in {p \in AgentCash(Now) :
                                              UpTo(p) > Collected(Now) - Balance(ledger)}})

\* What the comments say and the code does not do.

\* "A rejected claim leaves it untouched, exactly as if it had never been filed."
RejectedIsUntouched ==
    Quiet => ledger.remitted = SumRemittances("CONFIRMED")
=============================================================================
