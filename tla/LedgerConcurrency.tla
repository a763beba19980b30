------------------------- MODULE LedgerConcurrency --------------------------
(***************************************************************************)
(* The same contract under transactions that overlap.  Every handler runs  *)
(* in prisma.$transaction with the database's default isolation, read      *)
(* committed: a statement sees what is committed when it runs and the      *)
(* transaction's own writes.  An UPDATE of the contract row holds its lock *)
(* until the transaction ends, and sets the columns named in it to values  *)
(* computed from earlier reads.  Inserting a payment row locks nothing of  *)
(* the contract; two rows that reverse the same payment collide on the     *)
(* unique index, the second waiting for the first.  Each action is one     *)
(* statement of the database and the code up to the next; a loop over rows *)
(* is one action.  The contract's instalments and charges are left out:    *)
(* they are written under the same lock or derived in the same way.        *)
(***************************************************************************)
EXTENDS LedgerConcurrencyTerms, FiniteSets, FiniteSetsExt

VARIABLES
    contractType,
    status, total, refundDue,  \* the committed contract row
    item,                      \* the committed inventory item, "none" but for an instalment sale
    payments,                  \* committed payment rows that are not reversals
    reversals,                 \* committed reversal rows of each of them
    lock,                      \* the transaction holding the contract row
    tx                         \* what each transaction has read and written

vars == <<contractType, status, total, refundDue, item, payments, reversals, lock, tx>>
committed == <<contractType, status, total, refundDue, item, payments, reversals>>

Rows == Txns \cup {FirstRow}

Idle == [pc |-> "idle", kind |-> "none", amount |-> 0, targets |-> {}, reverses |-> {},
         derived |-> 0, stored |-> 0, taken |-> {}, next |-> "none", wrote |-> {},
         issues |-> FALSE, sawAll |-> FALSE]

Signed(r) ==
    CASE r = FirstRow -> FirstAmount
      [] r # FirstRow /\ tx[r].kind \in {"CREDIT_REFUND", "WITHDRAWAL"} -> -tx[r].amount
      [] OTHER -> tx[r].amount

\* getEffectivePayments: the payments no reversal row points at.
Reversed(revs) == {r \in Rows : revs[r] > 0}
Effective(rows, revs) == rows \ Reversed(revs)
LedgerTotal(rows, revs) == MapThenSumSet(Signed, Effective(rows, revs))

PostedKinds == {"PAYMENT", "PRINCIPAL", "CREDIT_REFUND", "WITHDRAWAL"}

\* What transaction t sees of the ledger: the committed rows and its own.
SeenRows(t) == IF tx[t].kind \in PostedKinds THEN payments \cup {t} ELSE payments
SeenReversals(t) == [r \in Rows |-> reversals[r] + IF r \in tx[t].reverses THEN 1 ELSE 0]
SeenTotal(t) == IF "total" \in tx[t].wrote THEN tx[t].derived ELSE total

Init ==
    /\ contractType \in ContractTypes
    /\ status = IF contractType = "DEPOSIT_INSTALMENT" THEN "PENDING_DEPOSIT" ELSE "ACTIVE"
    /\ payments = IF contractType = "DEVICE_LOAN" THEN {} ELSE {FirstRow}
    /\ total = IF contractType = "DEVICE_LOAN" THEN 0 ELSE FirstAmount
    /\ refundDue = 0
    /\ item = IF contractType = "DEPOSIT_INSTALMENT" THEN "RESERVED" ELSE "none"
    /\ reversals = [r \in Rows |-> 0]
    /\ lock = NoTxn
    /\ tx = [t \in Txns |-> Idle]

-----------------------------------------------------------------------------
(* Beginning: the contract is read and the request checked against it. *)

Begin(t, kind, amount, targets, at) ==
    /\ tx[t].pc = "idle"
    /\ tx' = [tx EXCEPT ![t] = [Idle EXCEPT !.kind = kind, !.amount = amount, !.targets = targets,
                                            !.stored = total, !.next = status, !.pc = at]]
    /\ UNCHANGED <<committed, lock>>

PostPayment(t, a) ==
    /\ contractType \in {"DEPOSIT_INSTALMENT", "SAVE_TO_OWN"}
    /\ status \in {"PENDING_DEPOSIT", "ACTIVE"}
    /\ Begin(t, "PAYMENT", a, {}, "derive")

PostCreditRefund(t, a) ==
    /\ contractType = "DEPOSIT_INSTALMENT"
    /\ a <= total - Price
    /\ Begin(t, "CREDIT_REFUND", a, {}, "derive")

\* Never more than what is saved.
PostWithdrawal(t, a) ==
    /\ contractType = "SAVE_TO_OWN"
    /\ status = "ACTIVE"
    /\ a <= total
    /\ Begin(t, "WITHDRAWAL", a, {}, "derive")

PrincipalOutstanding == \A r \in Effective(payments, reversals) : tx[r].kind # "PRINCIPAL"

\* The full loan amount, while it is outstanding.
PostDeviceLoanPayment(t) ==
    /\ contractType = "DEVICE_LOAN"
    /\ status = "ACTIVE"
    /\ PrincipalOutstanding
    /\ Begin(t, "PRINCIPAL", Principal, {}, "derive")

ReversePayment(t, r) ==
    /\ r \in Effective(payments, reversals)
    /\ Begin(t, "REVERSAL", 0, {r}, "reverse")

CancelContract(t) ==
    /\ contractType \in {"DEPOSIT_INSTALMENT", "SAVE_TO_OWN"}
    /\ status \in {"PENDING_DEPOSIT", "ACTIVE"}
    /\ Begin(t, "CANCEL", 0, {}, "mark")

-----------------------------------------------------------------------------
(* Inside a transaction. *)

Update(t, new) == tx' = [tx EXCEPT ![t] = new]

TakeLock(t) == lock \in {NoTxn, t} /\ lock' = t

\* Rolled back: nothing it wrote is seen.
RollBack(t) ==
    /\ Update(t, [tx[t] EXCEPT !.pc = "done", !.kind = "none", !.reverses = {}])
    /\ lock' = IF lock = t THEN NoTxn ELSE lock
    /\ UNCHANGED committed

HeldByOthers(t) == UNION {tx[u].reverses : u \in Txns \ {t}}

\* Slip: one reversal row per payment is checked for but not enforced.
MutInsertAnyway(t) ==
    /\ tx[t].pc = "reverse"
    /\ Update(t, [tx[t] EXCEPT !.reverses = tx[t].targets, !.pc = "derive"])
    /\ UNCHANGED <<committed, lock>>

\* Reversal rows are written once no other transaction is writing one for the same
\* payment; if one was committed meanwhile, the index refuses and everything is undone.
InsertReversals(t) ==
    /\ tx[t].pc = "reverse"
    /\ tx[t].targets \cap HeldByOthers(t) = {}
    /\ IF \E r \in tx[t].targets : reversals[r] > 0
       THEN RollBack(t)
       ELSE /\ Update(t, [tx[t] EXCEPT !.reverses = tx[t].targets, !.pc = "derive"])
            /\ UNCHANGED <<committed, lock>>

\* cancelContract sets the status and the refund from the contract it read at the start.
MarkCancelled(t) ==
    /\ tx[t].pc = "mark"
    /\ TakeLock(t)
    /\ Update(t, [tx[t] EXCEPT !.wrote = {"status", "refund"},
                               !.amount = IF tx[t].stored > 0 THEN tx[t].stored ELSE 0,
                               !.pc = "unwind"])
    /\ UNCHANGED committed

\* Slip: whether the phone went out is judged from the contract as first read.
MutUnwindFromContract(t) ==
    /\ tx[t].pc = "unwind"
    /\ LET unwinds == tx[t].next = "PENDING_DEPOSIT" /\ tx[t].stored > 0
       IN  Update(t, [tx[t] EXCEPT !.wrote = IF tx[t].next = "PENDING_DEPOSIT" THEN @ \cup {"item"} ELSE @,
                                   !.targets = IF unwinds THEN Effective(payments, reversals) ELSE {},
                                   !.pc = IF unwinds THEN "reverse" ELSE "commit"])
    /\ UNCHANGED <<committed, lock>>

\* A phone still reserved goes back, and every payment with it; so do savings.
Unwind(t) ==
    /\ tx[t].pc = "unwind"
    /\ LET unwinds == /\ item = "RESERVED" \/ contractType = "SAVE_TO_OWN"
                      /\ tx[t].stored > 0
       IN  Update(t, [tx[t] EXCEPT !.wrote = IF item = "RESERVED" THEN @ \cup {"item"} ELSE @,
                                   !.targets = IF unwinds THEN Effective(payments, reversals) ELSE {},
                                   !.pc = IF unwinds THEN "reverse" ELSE "commit"])
    /\ UNCHANGED <<committed, lock>>

\* recomputeContract reads the contract, then which payments are reversed, ...
ReadContract(t) ==
    /\ tx[t].pc = "derive"
    /\ Update(t, [tx[t] EXCEPT !.stored = total, !.sawAll = TRUE, !.pc = "reversals"])
    /\ UNCHANGED <<committed, lock>>

ReadReversals(t) ==
    /\ tx[t].pc = "reversals"
    /\ Update(t, [tx[t] EXCEPT !.taken = Reversed(SeenReversals(t)), !.pc = "payments"])
    /\ UNCHANGED <<committed, lock>>

\* Slip: the amount is added to the total read.
MutIncrement(t) ==
    /\ tx[t].pc = "payments"
    /\ Update(t, [tx[t] EXCEPT !.derived = tx[t].stored + LedgerTotal(SeenRows(t), SeenReversals(t))
                                                        - LedgerTotal(payments, reversals),
                               !.pc = "store"])
    /\ UNCHANGED <<committed, lock>>

\* ... then the payments, and derives the total from every row it can see.
Derive(t) ==
    /\ tx[t].pc = "payments"
    /\ Update(t, [tx[t] EXCEPT !.derived = MapThenSumSet(Signed, SeenRows(t) \ tx[t].taken),
                               !.pc = "store"])
    /\ UNCHANGED <<committed, lock>>

AfterStore(t) == IF tx[t].kind \in {"PAYMENT", "PRINCIPAL"} THEN "advance" ELSE "commit"

\* Slip: the total is written at once, outside the transaction that holds the row.
MutStoreOutside(t) ==
    /\ tx[t].pc = "store"
    /\ Update(t, [tx[t] EXCEPT !.wrote = @ \cup {"total"}, !.pc = AfterStore(t)])
    /\ UNCHANGED <<committed, lock>>

\* It writes it if it differs from the contract read before.
Store(t) ==
    /\ tx[t].pc = "store"
    /\ IF tx[t].derived # tx[t].stored
       THEN TakeLock(t) /\ Update(t, [tx[t] EXCEPT !.wrote = @ \cup {"total"}, !.pc = AfterStore(t)])
       ELSE Update(t, [tx[t] EXCEPT !.pc = AfterStore(t)]) /\ UNCHANGED lock
    /\ UNCHANGED committed

PrincipalPaid(t) ==
    \E r \in Effective(SeenRows(t), SeenReversals(t)) : r \in Txns /\ tx[r].kind = "PRINCIPAL"

NextStatus(t) ==
    CASE contractType = "SAVE_TO_OWN" -> status
      [] contractType = "DEVICE_LOAN" ->
            IF status = "ACTIVE" /\ PrincipalPaid(t) THEN "COMPLETED" ELSE status
      [] contractType = "DEPOSIT_INSTALMENT" /\ status = "PENDING_DEPOSIT" ->
            IF SeenTotal(t) < DepositPart THEN "PENDING_DEPOSIT"
            ELSE IF SeenTotal(t) < Price THEN "ACTIVE" ELSE "COMPLETED"
      [] OTHER ->
            IF status = "ACTIVE" /\ SeenTotal(t) >= Price THEN "COMPLETED" ELSE status

\* advanceContractStatus reads the contract again.
AdvanceContractStatus(t) ==
    /\ tx[t].pc = "advance"
    /\ Update(t, [tx[t] EXCEPT !.next = NextStatus(t),
                               !.issues = status = "PENDING_DEPOSIT" /\ NextStatus(t) # status,
                               !.pc = IF NextStatus(t) = status THEN "commit" ELSE "move"])
    /\ UNCHANGED <<committed, lock>>

\* The status is written whatever it has become since; ISSUE refuses a phone already out.
MoveStatus(t) ==
    /\ tx[t].pc = "move"
    /\ lock \in {NoTxn, t}
    /\ IF tx[t].issues /\ item \notin {"AVAILABLE", "RESERVED"}
       THEN RollBack(t)
       ELSE /\ lock' = t
            /\ Update(t, [tx[t] EXCEPT !.wrote = @ \cup {"status"} \cup IF tx[t].issues THEN {"item"} ELSE {},
                                       !.pc = "commit"])
            /\ UNCHANGED committed

Commit(t) ==
    LET row == tx[t]
    IN  /\ row.pc = "commit"
        /\ total' = SeenTotal(t)
        /\ status' = IF "status" \notin row.wrote THEN status
                     ELSE IF row.kind = "CANCEL" THEN "CANCELLED" ELSE row.next
        /\ refundDue' = IF "refund" \in row.wrote THEN row.amount ELSE refundDue
        /\ item' = IF "item" \in row.wrote
                   THEN IF row.kind = "CANCEL" THEN "AVAILABLE" ELSE "ISSUED"
                   ELSE item
        /\ payments' = SeenRows(t)
        /\ reversals' = SeenReversals(t)
        /\ lock' = IF lock = t THEN NoTxn ELSE lock
        /\ tx' = [u \in Txns |->
                    IF u = t THEN [row EXCEPT !.pc = "done", !.reverses = {}]
                    ELSE [tx[u] EXCEPT !.sawAll = @ /\ SeenRows(t) = payments
                                                    /\ SeenReversals(t) = reversals
                                                    /\ SeenTotal(t) = total]]
        /\ UNCHANGED contractType

\* t holds a reversal row u waits for, and waits for the contract row u holds: the
\* database ends one of them with an error.
DeadlockVictim(t, u) ==
    /\ tx[t].pc = "store" /\ tx[t].derived # tx[t].stored /\ lock = u
    /\ tx[u].pc = "reverse" /\ tx[u].targets \cap tx[t].reverses # {}
    /\ RollBack(t) \/ RollBack(u)

-----------------------------------------------------------------------------
Step(t) ==
    \/ InsertReversals(t)
    \/ MarkCancelled(t)
    \/ Unwind(t)
    \/ ReadContract(t)
    \/ ReadReversals(t)
    \/ Derive(t)
    \/ Store(t)
    \/ AdvanceContractStatus(t)
    \/ MoveStatus(t)
    \/ Commit(t)

Next ==
    \/ \E t \in Txns :
          \/ \E a \in TxnAmounts : PostPayment(t, a)
          \/ \E a \in TxnAmounts : PostCreditRefund(t, a)
          \/ \E a \in TxnAmounts : PostWithdrawal(t, a)
          \/ PostDeviceLoanPayment(t)
          \/ \E r \in payments : ReversePayment(t, r)
          \/ CancelContract(t)
          \/ Step(t)
    \/ \E t, u \in Txns : DeadlockVictim(t, u)

Spec == Init /\ [][Next]_vars

-----------------------------------------------------------------------------
(* Properties. *)

TypeOK ==
    /\ contractType \in ContractTypes
    /\ status \in {"PENDING_DEPOSIT", "ACTIVE", "COMPLETED", "CANCELLED"}
    /\ total \in Int /\ refundDue \in Nat
    /\ item \in {"none", "AVAILABLE", "RESERVED", "ISSUED"}
    /\ payments \subseteq Rows
    /\ reversals \in [Rows -> Nat]
    /\ lock \in Txns \cup {NoTxn}
    /\ \A t \in Txns :
          /\ tx[t].pc \in {"idle", "reverse", "mark", "unwind", "derive", "reversals",
                           "payments", "store", "advance", "move", "commit", "done"}
          /\ tx[t].reverses \subseteq Rows
          \* what is written and not committed is written under the lock
          /\ tx[t].pc \in {"unwind", "advance", "commit"} /\ tx[t].wrote # {} => lock = t

\* However reversals and cancellations overlap, a payment is taken back once.
ReversedOnce == \A r \in Rows : reversals[r] <= 1

\* A phone handed over while a cancellation was under way stays with the customer: the
\* cancellation looks at the phone again, and does not put it on the shelf.
HandedOverStaysOut == [][item = "ISSUED" => item' = "ISSUED"]_vars

\* Drift heals: a transaction none other committed beside, from the time it began to
\* recompute, leaves the stored total right, however wrong it was before.
Heals ==
    [][\A t \in Txns : tx[t].pc = "commit" /\ tx'[t].pc = "done" /\ tx[t].sawAll
          => total' = LedgerTotal(payments', reversals')]_vars

\* What the comments say and the code does not do.

\* "Totals recompute deterministically from the ledger with zero drift": with no
\* transaction under way the stored total is the ledger's.
NoDrift ==
    (\A t \in Txns : tx[t].pc \in {"idle", "done"}) => total = LedgerTotal(payments, reversals)
=============================================================================
