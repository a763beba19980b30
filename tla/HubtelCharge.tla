---------------------------- MODULE HubtelCharge ----------------------------
(***************************************************************************)
(* Mobile money charges to one contract, from the request to the ledger.   *)
(* A charge's row is changed by three kinds of handler that overlap at     *)
(* every await: webhooks (Hubtel's callbacks, and the initiating request   *)
(* when Hubtel refuses it or in mock mode), sweeps (the five-minute job    *)
(* and the one staff can start) and staff working the review queue.  A     *)
(* handler can die at any await: the process stops, or the database errors *)
(* and the error is rethrown.                                              *)
(***************************************************************************)
EXTENDS Integers

CONSTANTS
    Charges,        \* clientReferences
    Webhooks, Sweeps, Staff,
    MaxCrashes,     \* bound: handlers that die
    NoCharge

Handlers == Webhooks \cup Sweeps \cup Staff

ASSUME HandlersAssumption ==
    Webhooks \cap Sweeps = {} /\ Webhooks \cap Staff = {} /\ Sweeps \cap Staff = {}
ASSUME NoChargeAssumption == NoCharge \notin Charges
ASSUME MaxCrashesAssumption == MaxCrashes \in Nat

VARIABLES
    wallet,    \* what the gateway and the customer did: the truth a callback reports
    status,    \* HubtelTransaction.status, "none" before the row exists
    linked,    \* HubtelTransaction.paymentId is set
    resolved,  \* HubtelTransaction.resolvedAt is set
    age,       \* createdAt against the sweep's cutoffs and the time to alert
    quiet,     \* updatedAt is five minutes old
    posted,    \* ledger rows whose transactionRef is this charge's
    contract,  \* whether the ledger takes the charge as the contract stands
    pc,        \* where each handler is
    on,        \* the charge it handles
    outcome,   \* the outcome it brings
    crashes,
    alerted,   \* staff were alerted that Hubtel does not answer for these charges
    shared     \* charges a handler took up while another was at work on them: a history

rowVars == <<status, linked, resolved, age, quiet>>
handlerVars == <<pc, on, outcome>>
vars == <<wallet, rowVars, posted, contract, handlerVars, crashes, alerted, shared>>

Recording == {"read", "lookup", "begin", "insert", "link", "review"}
PCs == {"idle", "check", "alert", "claim", "reapply", "resolve"} \cup Recording

\* The handler is acting on a charge's row as collected.
Works(h) == pc[h] \in Recording \cup {"reapply", "resolve"}

Init ==
    /\ wallet = [c \in Charges |-> "none"]
    /\ status = [c \in Charges |-> "none"]
    /\ linked = [c \in Charges |-> FALSE]
    /\ resolved = [c \in Charges |-> FALSE]
    /\ age = [c \in Charges |-> "fresh"]
    /\ quiet = [c \in Charges |-> FALSE]
    /\ posted = [c \in Charges |-> 0]
    /\ contract = "open"
    /\ pc = [h \in Handlers |-> "idle"]
    /\ on = [h \in Handlers |-> NoCharge]
    /\ outcome = [h \in Handlers |-> "PENDING"]
    /\ crashes = 0
    /\ alerted = {}
    /\ shared = {}

-----------------------------------------------------------------------------
(* A handler takes a charge up, moves on, or is done with it. *)

TakeUp(h, c, at, result) ==
    /\ pc[h] = "idle"
    /\ pc' = [pc EXCEPT ![h] = at]
    /\ on' = [on EXCEPT ![h] = c]
    /\ outcome' = [outcome EXCEPT ![h] = result]

GoTo(h, at) == pc' = [pc EXCEPT ![h] = at] /\ UNCHANGED <<on, outcome>>

\* Nothing keeps a handler from taking up a charge another is at work on.
NoteShared(c) ==
    shared' = IF \E h \in Handlers : Works(h) /\ on[h] = c THEN shared \cup {c} ELSE shared

Finish(h) ==
    /\ pc' = [pc EXCEPT ![h] = "idle"]
    /\ on' = [on EXCEPT ![h] = NoCharge]
    /\ outcome' = [outcome EXCEPT ![h] = "PENDING"]

\* Every write to the row makes it young again for the retry of unrecorded charges.
SetStatus(c, s) ==
    /\ status' = [status EXCEPT ![c] = s]
    /\ quiet' = [quiet EXCEPT ![c] = FALSE]

-----------------------------------------------------------------------------
(* Asking, and what happens outside: the gateway, the customer, time. *)

\* initiateHubtelPayment writes the row before it calls Hubtel.
InitiateHubtelPayment(c) ==
    /\ status[c] = "none"
    /\ SetStatus(c, "PENDING")
    /\ wallet' = [wallet EXCEPT ![c] = "requesting"]
    /\ UNCHANGED <<linked, resolved, age, posted, contract, handlerVars, crashes, alerted, shared>>

Outside(c, from, to) ==
    /\ wallet[c] = from
    /\ wallet' = [wallet EXCEPT ![c] = to]
    /\ UNCHANGED <<rowVars, posted, contract, handlerVars, crashes, alerted, shared>>

\* Hubtel accepts the request, or takes it and does not answer.
RequestTaken(c) == Outside(c, "requesting", "prompted")
\* The request never reaches Hubtel.
RequestLost(c) == Outside(c, "requesting", "declined")
CustomerApproves(c) == Outside(c, "prompted", "paid")
\* Declined, or left until it expires.
CustomerDeclines(c) == Outside(c, "prompted", "declined")

\* Hubtel refuses the request: the initiating handler settles the row itself.
RefuseHubtelPayment(h, c) ==
    /\ h \in Webhooks
    /\ wallet[c] = "requesting"
    /\ wallet' = [wallet EXCEPT ![c] = "declined"]
    /\ TakeUp(h, c, "claim", "FAILED")
    /\ UNCHANGED <<rowVars, posted, contract, crashes, alerted, shared>>

\* Five minutes, then fifteen, then thirty, since the row was written.
GrowOld(c) ==
    /\ status[c] # "none"
    /\ age[c] # "overdue"
    /\ age' = [age EXCEPT ![c] = CASE @ = "fresh" -> "stale"
                                   [] @ = "stale" -> "given up"
                                   [] @ = "given up" -> "overdue"]
    /\ UNCHANGED <<wallet, status, linked, resolved, quiet, posted, contract, handlerVars,
                   crashes, alerted, shared>>

\* Five minutes since the row was last written, whether or not the handler that wrote it
\* is done.
GrowQuiet(c) ==
    /\ status[c] = "SUCCESS"
    /\ ~quiet[c]
    /\ quiet' = [quiet EXCEPT ![c] = TRUE]
    /\ UNCHANGED <<wallet, status, linked, resolved, age, posted, contract, handlerVars,
                   crashes, alerted, shared>>

\* The contract completes or is cancelled; what a loan owes stops or starts matching.
ContractChanges ==
    /\ \/ contract # "closed" /\ contract' = "closed"
       \/ contract = "open" /\ contract' = "mismatch"
       \/ contract = "mismatch" /\ contract' = "open"
    /\ UNCHANGED <<wallet, rowVars, posted, handlerVars, crashes, alerted, shared>>

\* A handler dies between two awaits; its transaction, if one is open, is rolled back.
Crash(h) ==
    /\ pc[h] # "idle"
    /\ crashes < MaxCrashes
    /\ crashes' = crashes + 1
    /\ Finish(h)
    /\ UNCHANGED <<wallet, rowVars, posted, contract, alerted, shared>>

-----------------------------------------------------------------------------
(* processHubtelCallback *)

\* Slip: whatever Hubtel does not call a failure is taken for a success.
MutNotAFailure(c) == IF wallet[c] = "declined" THEN "FAILED" ELSE "SUCCESS"

Reported(c) == IF wallet[c] = "paid" THEN "SUCCESS" ELSE "FAILED"

\* Hubtel reports a settled charge: late, repeatedly, or never.
ReceiveCallback(h, c) ==
    /\ h \in Webhooks
    /\ wallet[c] \in {"paid", "declined"}
    /\ TakeUp(h, c, "claim", Reported(c))
    /\ UNCHANGED <<wallet, rowVars, posted, contract, crashes, alerted, shared>>

\* Slip: a success too lands only on a pending row.
MutOnlyPending(result) == {"PENDING"}

\* A success also overrides a failure, which only ever settles a pending row.
ClaimableStatuses(result) == IF result = "SUCCESS" THEN {"PENDING", "FAILED"} ELSE {"PENDING"}

\* One updateMany claims the row; only the handler that claimed a success records it.
Claim(h) ==
    /\ pc[h] = "claim"
    /\ IF status[on[h]] \in ClaimableStatuses(outcome[h])
       THEN /\ SetStatus(on[h], outcome[h])
            /\ IF outcome[h] = "SUCCESS" THEN GoTo(h, "read") ELSE Finish(h)
       ELSE Finish(h) /\ UNCHANGED <<status, quiet>>
    /\ UNCHANGED <<wallet, linked, resolved, age, posted, contract, crashes, alerted, shared>>

-----------------------------------------------------------------------------
(* recordSuccessfulHubtelCharge, and postPayment under it *)

\* The row is read again: recorded only if still SUCCESS and without a payment.
ReadCharge(h) ==
    /\ pc[h] = "read"
    /\ IF status[on[h]] = "SUCCESS" /\ ~linked[on[h]] THEN GoTo(h, "lookup") ELSE Finish(h)
    /\ UNCHANGED <<wallet, rowVars, posted, contract, crashes, alerted, shared>>

\* Slip: nothing is looked up under the reference.
MutNoLookup(h) ==
    /\ pc[h] = "lookup"
    /\ GoTo(h, "begin")
    /\ UNCHANGED <<wallet, rowVars, posted, contract, crashes, alerted, shared>>

\* postPayment is idempotent on the reference: a row already there is the answer.
LookupPayment(h) ==
    /\ pc[h] = "lookup"
    /\ GoTo(h, IF posted[on[h]] > 0 THEN "link" ELSE "begin")
    /\ UNCHANGED <<wallet, rowVars, posted, contract, crashes, alerted, shared>>

\* The transaction reads the contract; a business rule refuses what it cannot take.
BeginPosting(h) ==
    /\ pc[h] = "begin"
    /\ GoTo(h, IF contract = "open" THEN "insert" ELSE "review")
    /\ UNCHANGED <<wallet, rowVars, posted, contract, crashes, alerted, shared>>

\* The row is written and the transaction commits, unless transactionRef is taken, an
\* error that is rethrown.  The payment may be the one that completes the contract.
InsertPayment(h) ==
    /\ pc[h] = "insert"
    /\ IF posted[on[h]] = 0
       THEN /\ posted' = [posted EXCEPT ![on[h]] = 1]
            /\ contract' \in {contract, "closed"}
            /\ GoTo(h, "link")
       ELSE Finish(h) /\ UNCHANGED <<posted, contract>>
    /\ UNCHANGED <<wallet, rowVars, crashes, alerted, shared>>

LinkPayment(h) ==
    /\ pc[h] = "link"
    /\ linked' = [linked EXCEPT ![on[h]] = TRUE]
    /\ quiet' = [quiet EXCEPT ![on[h]] = FALSE]
    /\ Finish(h)
    /\ UNCHANGED <<wallet, status, resolved, age, posted, contract, crashes, alerted, shared>>

\* Refused: staff have to look at it.  Written whatever the row has become since.
SendToReview(h) ==
    /\ pc[h] = "review"
    /\ SetStatus(on[h], "NEEDS_REVIEW")
    /\ Finish(h)
    /\ UNCHANGED <<wallet, linked, resolved, age, posted, contract, crashes, alerted, shared>>

-----------------------------------------------------------------------------
(* reconcilePendingHubtelTransactions *)

\* Old enough to give up is judged by the clock as the sweep began.
ListStale(h, c) ==
    /\ h \in Sweeps
    /\ status[c] = "PENDING"
    /\ age[c] # "fresh"
    /\ TakeUp(h, c, "check", IF age[c] \in {"given up", "overdue"} THEN "FAILED" ELSE "PENDING")
    /\ UNCHANGED <<wallet, rowVars, posted, contract, crashes, alerted, shared>>

\* Slip: unanswered is written off at the first check.
MutGiveUpAtOnce(h) ==
    /\ pc[h] = "check"
    /\ pc' = [pc EXCEPT ![h] = "claim"]
    /\ outcome' = [outcome EXCEPT ![h] = Reported(on[h])]
    /\ UNCHANGED <<wallet, rowVars, posted, contract, on, crashes, alerted, shared>>

\* Hubtel answers the status check: a settled charge is settled here too, an unpaid one
\* waits until it is given up.
CheckStatus(h) ==
    /\ pc[h] = "check"
    /\ IF wallet[on[h]] \in {"paid", "declined"} \/ outcome[h] = "FAILED"
       THEN /\ pc' = [pc EXCEPT ![h] = "claim"]
            /\ outcome' = [outcome EXCEPT ![h] = Reported(on[h])]
            /\ UNCHANGED on
       ELSE Finish(h)
    /\ UNCHANGED <<wallet, rowVars, posted, contract, crashes, alerted, shared>>

\* The check itself fails: nothing is guessed, the row waits for the next sweep.
CheckFails(h) ==
    /\ pc[h] = "check"
    /\ GoTo(h, "alert")
    /\ UNCHANGED <<wallet, rowVars, posted, contract, crashes, alerted, shared>>

\* As the sweep ends, staff are alerted of one that has waited half an hour.
RaiseAlert(h) ==
    /\ pc[h] = "alert"
    /\ alerted' = IF age[on[h]] = "overdue" THEN alerted \cup {on[h]} ELSE alerted
    /\ Finish(h)
    /\ UNCHANGED <<wallet, rowVars, posted, contract, crashes, shared>>

\* A charge collected and not recorded for five minutes: its handler died, as a rule.
RetryUnrecorded(h, c) ==
    /\ h \in Sweeps
    /\ status[c] = "SUCCESS"
    /\ ~linked[c]
    /\ quiet[c]
    /\ TakeUp(h, c, "read", "SUCCESS")
    /\ NoteShared(c)
    /\ UNCHANGED <<wallet, rowVars, posted, contract, crashes, alerted>>

-----------------------------------------------------------------------------
(* mobileMoneyOpsService: staff look at a charge, then act on what they saw. *)

OpenForReview(h, c, intent) ==
    /\ h \in Staff
    /\ status[c] = "NEEDS_REVIEW"
    /\ ~resolved[c]
    /\ TakeUp(h, c, intent, "SUCCESS")
    /\ NoteShared(c)
    /\ UNCHANGED <<wallet, rowVars, posted, contract, crashes, alerted>>

ReapplyCollectedCharge(h) ==
    /\ pc[h] = "reapply"
    /\ SetStatus(on[h], "SUCCESS")
    /\ GoTo(h, "read")
    /\ UNCHANGED <<wallet, linked, resolved, age, posted, contract, crashes, alerted, shared>>

\* Slip: resolving puts the row back among the collected ones.
MutResolveReopens(h) ==
    /\ pc[h] = "resolve"
    /\ resolved' = [resolved EXCEPT ![on[h]] = TRUE]
    /\ SetStatus(on[h], "SUCCESS")
    /\ Finish(h)
    /\ UNCHANGED <<wallet, linked, age, posted, contract, crashes, alerted, shared>>

ResolveCollectedCharge(h) ==
    /\ pc[h] = "resolve"
    /\ resolved' = [resolved EXCEPT ![on[h]] = TRUE]
    /\ quiet' = [quiet EXCEPT ![on[h]] = FALSE]
    /\ Finish(h)
    /\ UNCHANGED <<wallet, status, linked, age, posted, contract, crashes, alerted, shared>>

-----------------------------------------------------------------------------
\* A handler's own next step.
Step(h) ==
    \/ Claim(h)
    \/ ReadCharge(h)
    \/ LookupPayment(h)
    \/ BeginPosting(h)
    \/ InsertPayment(h)
    \/ LinkPayment(h)
    \/ SendToReview(h)
    \/ CheckStatus(h)
    \/ CheckFails(h)
    \/ RaiseAlert(h)
    \/ ReapplyCollectedCharge(h)
    \/ ResolveCollectedCharge(h)

Next ==
    \/ ContractChanges
    \/ \E c \in Charges :
          \/ InitiateHubtelPayment(c)
          \/ RequestTaken(c)
          \/ RequestLost(c)
          \/ CustomerApproves(c)
          \/ CustomerDeclines(c)
          \/ GrowOld(c)
          \/ GrowQuiet(c)
    \/ \E h \in Handlers : Step(h) \/ Crash(h)
    \/ \E h \in Handlers, c \in Charges :
          \/ RefuseHubtelPayment(h, c)
          \/ ReceiveCallback(h, c)
          \/ ListStale(h, c)
          \/ RetryUnrecorded(h, c)
          \/ \E intent \in {"reapply", "resolve"} : OpenForReview(h, c, intent)

Spec == Init /\ [][Next]_vars

\* Handlers that do not die go on, time passes, and the sweep, run every five minutes over
\* every row it finds, gets to each charge.  Nothing is assumed of callbacks, of Hubtel's
\* answers or of people.
Fairness ==
    /\ \A h \in Handlers : WF_vars(Step(h))
    /\ \A c \in Charges :
          /\ WF_vars(GrowOld(c))
          /\ WF_vars(GrowQuiet(c))
          /\ SF_vars(\E h \in Sweeps : ListStale(h, c))
          /\ SF_vars(\E h \in Sweeps : RetryUnrecorded(h, c))

FairSpec == Spec /\ Fairness

-----------------------------------------------------------------------------
(* Properties. *)

TypeOK ==
    /\ wallet \in [Charges -> {"none", "requesting", "prompted", "paid", "declined"}]
    /\ status \in [Charges -> {"none", "PENDING", "SUCCESS", "FAILED", "NEEDS_REVIEW"}]
    /\ linked \in [Charges -> BOOLEAN]
    /\ resolved \in [Charges -> BOOLEAN]
    /\ age \in [Charges -> {"fresh", "stale", "given up", "overdue"}]
    /\ quiet \in [Charges -> BOOLEAN]
    /\ posted \in [Charges -> {0, 1}]
    /\ contract \in {"open", "mismatch", "closed"}
    /\ pc \in [Handlers -> PCs]
    /\ on \in [Handlers -> Charges \cup {NoCharge}]
    /\ outcome \in [Handlers -> {"PENDING", "SUCCESS", "FAILED"}]
    /\ crashes \in 0..MaxCrashes
    /\ alerted \in SUBSET Charges
    /\ shared \in SUBSET Charges

\* Whatever repeats, overlaps or dies, the ledger holds a charge only when the customer's
\* money was taken, the row names its payment only when there is one, and a row that reads
\* as collected, or waits for staff, is of a charge that was.
LedgerHoldsWhatWasPaid ==
    \A c \in Charges :
        /\ posted[c] = 1 => wallet[c] = "paid"
        /\ linked[c] => posted[c] = 1
        /\ status[c] \in {"SUCCESS", "NEEDS_REVIEW"} => wallet[c] = "paid"

ActsOnPaid(h) ==
    /\ pc[h] # "idle" => on[h] \in Charges
    /\ pc[h] = "claim" /\ outcome[h] = "SUCCESS" => wallet[on[h]] = "paid"
    /\ pc[h] \in Recording \cup {"reapply", "resolve"} => wallet[on[h]] = "paid"
    /\ pc[h] = "link" => posted[on[h]] = 1

\* A handler brings a success, records a charge or works it by hand only if the customer
\* paid it, however long ago it read the row it goes by, and links only what is in the ledger.
HandlersActOnPaid ==
    /\ \A c \in Charges : status[c] = "none" => wallet[c] = "none"
    /\ \A h \in Handlers : ActsOnPaid(h)

\* Retrying is safe for a charge that one handler at a time was at work on, however many
\* sweeps and people there are: recording it again, once it is in the ledger, never sends
\* it to the queue of charges that are not.
WorkedAloneIsSafe ==
    \A c \in Charges \ shared : status[c] = "NEEDS_REVIEW" => posted[c] = 0

AccountedFor(c) == posted[c] = 1 \/ status[c] = "NEEDS_REVIEW"

\* Money taken from a wallet before the sweep gives up on it ends in the ledger or before
\* a person, or staff are told that Hubtel does not answer for it, even if no callback ever
\* comes and handlers die.
PaidInTimeIsAccountedFor ==
    \A c \in Charges :
        (wallet[c] = "paid" /\ age[c] \in {"fresh", "stale"}) ~> (AccountedFor(c) \/ c \in alerted)

\* Money taken later still is, if Hubtel repeats its callback until it is heard, although
\* the row was written off meanwhile.
Reports(c) == \E h \in Webhooks : pc[h] = "claim" /\ on[h] = c /\ outcome[h] = "SUCCESS"
LateSuccessLands == \A c \in Charges : []<>Reports(c) => <>AccountedFor(c)

\* What the comment says and the code does not do: money taken from a wallet is always
\* found, even when its callback is lost ("must never be silently written off").
PaidIsAccountedFor == \A c \in Charges : (wallet[c] = "paid") ~> AccountedFor(c)

\* The rows implement Collection.
account == [c \in Charges |->
    CASE posted[c] > 0 -> "recorded"
      [] posted[c] = 0 /\ c \in shared -> "contested"
      [] posted[c] = 0 /\ c \notin shared /\ resolved[c] -> "closed"
      [] posted[c] = 0 /\ c \notin shared /\ ~resolved[c] /\ status[c] = "NEEDS_REVIEW" -> "held"
      [] posted[c] = 0 /\ c \notin shared /\ ~resolved[c] /\ status[c] # "NEEDS_REVIEW"
            /\ wallet[c] = "paid" -> "taken"
      [] posted[c] = 0 /\ c \notin shared /\ ~resolved[c] /\ status[c] # "NEEDS_REVIEW"
            /\ wallet[c] = "declined" -> "abandoned"
      [] OTHER -> "asked"]

Abstract == INSTANCE Collection WITH Charges <- Charges, account <- account

\* Every step of the handlers, any number of them, is a step of the abstract collection or
\* changes nothing it can see.
ImplementsCollection == Abstract!Spec
=============================================================================
